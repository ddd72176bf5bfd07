-------------------------------- MODULE Kvdb --------------------------------
(***************************************************************************)
(* The key-value store of libkvdb/kvdb.c: processes, each with threads and *)
(* a handle on the same file, append records to it and scan it for the     *)
(* last good record of a key.                                              *)
(*                                                                         *)
(* The file is a sequence of pieces: line ends, headers, values and END    *)
(* marks.  A value that does not fit stdio's buffer has two pieces, the    *)
(* first of which is written while the record is put together; the rest    *)
(* is written by fclose, which comes after flock(LOCK_UN).                 *)
(***************************************************************************)
EXTENDS Naturals, SequencesExt

CONSTANTS Process, Slot,   \* processes, and the threads of each
          Key, Small, Big, \* the values that fit the buffer, and others
          NoValue,
          MaxPuts,         \* bound on the calls of kvdb_put
          MaxCrashes,      \* bound on the crashes of the machine
          Failures         \* whether calls may fail, and kvdb_close be called

Thread == Process \X Slot
Value  == Small \cup Big
Nobody == <<"nobody">>
proc(t) == t[1]

ASSUME KvdbAssumption == /\ NoValue \notin Value /\ Small \cap Big = {}
                         /\ MaxPuts \in Nat /\ MaxCrashes \in Nat
                         /\ Failures \in BOOLEAN /\ Nobody \notin Thread

NL         == <<"nl">>
END        == <<"END">>
Header(k, v) == <<"header", k, v>>
Text(v)    == IF v \in Small THEN << <<"text", v, 1>> >>
                             ELSE << <<"text", v, 1>>, <<"text", v, 2>> >>
Piece == {NL, END} \cup ({"header"} \X Key \X Value) \cup ({"text"} \X Value \X {1, 2})

VARIABLES file,    \* what the system holds of the file
          store,   \* what a scan of it finds for each key
          synced,  \* how much of it is on the disk
          flock,   \* who holds the file's lock
          mutex,   \* who holds each handle's mutex
          open,    \* the handles that have a file name
          pc,
          key, val, \* the arguments of a thread's call
          wbuf,    \* the pieces in the stdio buffer of a thread's FILE
          got,     \* what a thread's last kvdb_get returned, as pieces
          puts, crashes,
          log,     \* the records completed, as <<key, value>>, in their order
          last     \* the value of the last record of a key

stdio == <<file, store, synced, wbuf>>
ghost == <<log, last>>
vars  == <<stdio, flock, mutex, open, pc, key, val, got, puts, crashes, ghost>>

Reset == /\ flock = Nobody /\ mutex = [p \in Process |-> Nobody] /\ open = Process
         /\ pc = [t \in Thread |-> "idle"] /\ wbuf = [t \in Thread |-> <<>>]
         /\ key = [t \in Thread |-> CHOOSE k \in Key : TRUE]
         /\ val = [t \in Thread |-> CHOOSE v \in Value : TRUE]
         /\ got = [t \in Thread |-> <<>>]

Init == /\ Reset
        /\ file = <<>> /\ synced = 0 /\ store = [k \in Key |-> NoValue]
        /\ puts = 0 /\ crashes = 0
        /\ log = <<>> /\ last = [k \in Key |-> NoValue]

----------------------------------------------------------------------------
(* find_db *)

\* The lines that fgets returns, without their line ends.
Lines(f) ==
  LET Upto[i \in 0 .. Len(f)] ==
        IF i = 0 THEN << <<>> >>
        ELSE LET all == Upto[i - 1]
             IN IF f[i] = NL THEN Append(all, <<>>)
                ELSE [all EXCEPT ![Len(all)] = Append(@, f[i])]
  IN IF Last(Upto[Len(f)]) = <<>> THEN Front(Upto[Len(f)]) ELSE Upto[Len(f)]

\* Line i is a header of key k.
IsHeader(L, i, k) == Len(L[i]) = 1 /\ \E v \in Value : L[i] = << Header(k, v) >>

\* The number of pieces that a header announces.
Length(L, i) == Len(Text(L[i][1][3]))

\* Whether the value's line is read whole: no more than the announced length
\* and a little is read, and the rest of the line then stands for the END.
Whole(L, i) == i + 1 \in DOMAIN L /\ Len(L[i + 1]) <= Length(L, i)

\* Mutant: the END after the value is not asked for.
Good_Any(L, i) == Whole(L, i)

Good(L, i) == Whole(L, i) /\ i + 2 \in DOMAIN L /\ L[i + 2] # <<>> /\ Head(L[i + 2]) = END

\* The line after line i at which the scan for k goes on.
After(L, i, k) == IF ~IsHeader(L, i, k) THEN i + 1
                  ELSE IF i + 1 \in DOMAIN L /\ ~Whole(L, i) THEN i + 2
                  ELSE i + 3

\* The pieces of the last good record's value, by a scan of the lines that
\* skips those that were read as part of a record.
find_db(f, k) ==
  LET L == Lines(f)
      Scan[i \in 0 .. Len(L)] ==
        IF i = 0 THEN [at |-> 1, value |-> <<>>]
        ELSE LET scan == Scan[i - 1]
             IN IF i # scan.at THEN scan
                ELSE [at |-> After(L, i, k),
                      value |-> IF IsHeader(L, i, k) /\ Good(L, i) THEN L[i + 1] ELSE scan.value]
  IN Scan[Len(L)].value

\* The value those pieces are, if they are one.
Value_of(pieces) == IF pieces = <<>> THEN NoValue
                    ELSE IF \E v \in Value : pieces = Text(v)
                      THEN CHOOSE v \in Value : pieces = Text(v)
                      ELSE "mixture"

\* The file becomes f.
Becomes(f) == /\ file'  = f
              /\ store' = [k \in Key |-> Value_of(find_db(f, k))]

----------------------------------------------------------------------------
(* kvdb_put *)

Move(t, a, b) == pc[t] = a /\ pc' = [pc EXCEPT ![t] = b]

\* A call takes the handle's mutex.
Call(t, b) == /\ Move(t, "idle", b)
              /\ mutex[proc(t)] = Nobody
              /\ mutex' = [mutex EXCEPT ![proc(t)] = t]

Return(t, a) == /\ Move(t, a, "idle")
                /\ mutex' = [mutex EXCEPT ![proc(t)] = Nobody]

Put_Call(t, k, v) ==
  /\ puts < MaxPuts /\ puts' = puts + 1
  /\ Call(t, "put")
  /\ key' = [key EXCEPT ![t] = k] /\ val' = [val EXCEPT ![t] = v]
  /\ UNCHANGED <<stdio, flock, open, got, crashes, ghost>>

\* fopen fails and the call returns -1, with the mutex; after kvdb_close the
\* file has no name and it always fails.
Put_Fails(t) == /\ Move(t, "put", "idle")
                /\ Failures
                /\ UNCHANGED <<stdio, flock, mutex, open, key, val, got, puts, crashes, ghost>>

Put_Flock(t) == /\ Move(t, "put", "header")
                /\ proc(t) \in open
                /\ flock = Nobody /\ flock' = t
                /\ UNCHANGED <<stdio, mutex, open, key, val, got, puts, crashes, ghost>>

\* A record but for its END.
Record(t) == << NL, Header(key[t], val[t]), NL >> \o Text(val[t]) \o << NL >>

\* What is written of a record before its END is put into the buffer.
Spilled(t) == IF val[t] \in Big THEN SubSeq(Record(t), 1, Len(Record(t)) - 2) ELSE <<>>

\* The record's lines and the first sync(), which makes durable what has left
\* the buffers.
Put_Record(t) ==
  /\ Move(t, "header", "end")
  /\ Becomes(file \o Spilled(t))
  /\ wbuf'   = [wbuf EXCEPT ![t] = SubSeq(Record(t), Len(Spilled(t)) + 1, Len(Record(t)))]
  /\ synced' = Len(file) + Len(Spilled(t))
  /\ UNCHANGED <<flock, mutex, open, key, val, got, puts, crashes, ghost>>

\* Mutant: END is written in front of the value.
Put_End_Early(t) ==
  /\ Move(t, "end", "unlock")
  /\ wbuf'   = [wbuf EXCEPT ![t] = <<END, NL>> \o @]
  /\ synced' = Len(file)
  /\ UNCHANGED <<file, store, flock, mutex, open, key, val, got, puts, crashes, ghost>>

\* The END, in the buffer, and the second sync().
Put_End(t) ==
  /\ Move(t, "end", "unlock")
  /\ wbuf'   = [wbuf EXCEPT ![t] = @ \o <<END, NL>>]
  /\ synced' = Len(file)
  /\ UNCHANGED <<file, store, flock, mutex, open, key, val, got, puts, crashes, ghost>>

Put_Unlock(t) == /\ Move(t, "unlock", "fclose")
                 /\ flock' = Nobody
                 /\ UNCHANGED <<stdio, mutex, open, key, val, got, puts, crashes, ghost>>

\* fclose writes what is in the buffer.
Put_Close(t) == /\ Move(t, "fclose", "put_return")
                /\ Becomes(file \o wbuf[t])
                /\ wbuf' = [wbuf EXCEPT ![t] = <<>>]
                /\ log'  = Append(log, <<key[t], val[t]>>)
                /\ last' = [last EXCEPT ![key[t]] = val[t]]
                /\ UNCHANGED <<synced, flock, mutex, open, key, val, got, puts, crashes>>

Put_Return(t) == /\ Return(t, "put_return")
                 /\ UNCHANGED <<stdio, flock, open, key, val, got, puts, crashes, ghost>>

kvdb_put(t) == \/ \E k \in Key, v \in Value : Put_Call(t, k, v)
               \/ Put_Fails(t) \/ Put_Flock(t) \/ Put_Record(t) \/ Put_End(t)
               \/ Put_Unlock(t) \/ Put_Close(t) \/ Put_Return(t)

----------------------------------------------------------------------------
(* kvdb_get, kvdb_open and kvdb_close *)

Get_Call(t, k) == /\ Call(t, "get")
                  /\ key' = [key EXCEPT ![t] = k]
                  /\ UNCHANGED <<stdio, flock, open, val, got, puts, crashes, ghost>>

\* Without a file the answer is NULL.
Get_Fails(t) == /\ Move(t, "get", "get_return")
                /\ Failures
                /\ got' = [got EXCEPT ![t] = <<>>]
                /\ UNCHANGED <<stdio, flock, mutex, open, key, val, puts, crashes, ghost>>

Get_Flock(t) == /\ Move(t, "get", "scan")
                /\ proc(t) \in open
                /\ flock = Nobody /\ flock' = t
                /\ UNCHANGED <<stdio, mutex, open, key, val, got, puts, crashes, ghost>>

\* The file only grows, so the scan sees what it holds when its end is met.
Get_Scan(t) == /\ Move(t, "scan", "get_unlock")
               /\ got' = [got EXCEPT ![t] = find_db(file, key[t])]
               /\ UNCHANGED <<stdio, flock, mutex, open, key, val, puts, crashes, ghost>>

Get_Unlock(t) == /\ Move(t, "get_unlock", "get_return")
                 /\ flock' = Nobody
                 /\ UNCHANGED <<stdio, mutex, open, key, val, got, puts, crashes, ghost>>

Get_Return(t) == /\ Return(t, "get_return")
                 /\ UNCHANGED <<stdio, flock, open, key, val, got, puts, crashes, ghost>>

kvdb_get(t) == \/ \E k \in Key : Get_Call(t, k)
               \/ Get_Fails(t) \/ Get_Flock(t) \/ Get_Scan(t) \/ Get_Unlock(t) \/ Get_Return(t)

\* A handle is opened again only after it was closed; its mutex is made anew.
kvdb_open(p) == /\ Failures
                /\ p \notin open
                /\ open'  = open \cup {p}
                /\ mutex' = [mutex EXCEPT ![p] = Nobody]
                /\ \A t \in Thread : proc(t) = p => pc[t] = "idle"
                /\ UNCHANGED <<stdio, flock, pc, key, val, got, puts, crashes, ghost>>

\* The file's name is too long or fopen fails: thread t's call returns -1 with
\* the new mutex, so no other call on the handle goes on before it is opened.
Open_Fails(t) == /\ Failures
                 /\ proc(t) \notin open
                 /\ mutex' = [mutex EXCEPT ![proc(t)] = t]
                 /\ \A u \in Thread : proc(u) = proc(t) => pc[u] = "idle"
                 /\ UNCHANGED <<stdio, flock, open, pc, key, val, got, puts, crashes, ghost>>

kvdb_close(p) == /\ Failures
                 /\ p \in open /\ mutex[p] = Nobody
                 /\ open' = open \ {p}
                 /\ UNCHANGED <<stdio, flock, mutex, pc, key, val, got, puts, crashes, ghost>>

----------------------------------------------------------------------------
(* The machine goes down: of what was not yet on the disk some first part  *)
(* is found there, and every process begins anew.                          *)

Crash == /\ crashes < MaxCrashes /\ crashes' = crashes + 1
         /\ \E n \in synced .. Len(file) : Becomes(SubSeq(file, 1, n)) /\ synced' = n
         /\ flock' = Nobody /\ mutex' = [p \in Process |-> Nobody] /\ open' = Process
         /\ pc'   = [t \in Thread |-> "idle"]
         /\ wbuf' = [t \in Thread |-> <<>>]
         /\ UNCHANGED <<key, val, got, puts, log, last>>

Next == \/ \E t \in Thread : kvdb_put(t) \/ kvdb_get(t) \/ Open_Fails(t)
        \/ \E p \in Process : kvdb_open(p) \/ kvdb_close(p)
        \/ Crash

Spec == Init /\ [][Next]_vars

----------------------------------------------------------------------------
(* Properties *)

TypeOK ==
  /\ file \in Seq(Piece) /\ synced \in 0 .. Len(file)
  /\ flock \in Thread \cup {Nobody} /\ mutex \in [Process -> Thread \cup {Nobody}]
  /\ open \subseteq Process
  /\ pc \in [Thread -> {"idle", "put", "header", "end", "unlock", "fclose", "put_return",
                        "get", "scan", "get_unlock", "get_return"}]
  /\ key \in [Thread -> Key] /\ val \in [Thread -> Value]
  /\ wbuf \in [Thread -> Seq(Piece)] /\ got \in [Thread -> Seq(Piece)]
  /\ DOMAIN store = Key /\ puts \in 0 .. MaxPuts /\ crashes \in 0 .. MaxCrashes
  /\ log \in Seq(Key \X Value) /\ last \in [Key -> Value \cup {NoValue}]

\* The file implements the map: at every moment a scan of it finds for each
\* key what one put left, never a part of a record, and changes as by one put;
\* a crash aside.
Kv  == INSTANCE KvAbs
Map == Kv!Init /\ [][crashes' = crashes => Kv!Next]_store

Putting(k) == \E t \in Thread :
                key[t] = k /\ pc[t] \in {"put", "header", "end", "unlock", "fclose", "put_return"}

Found == \A k \in Key : last[k] # NoValue /\ ~Putting(k) => store[k] = last[k]

\* A put that returned is found by any get after it, until another put of its
\* key, if nothing crashes: neither a put that failed nor the buffers of other
\* threads hide it.  A call that runs has the mutex of its handle, which a put
\* that failed keeps.  Every variable keeps its type.
Visible == /\ TypeOK
           /\ crashes = 0 => Found
           /\ \A t \in Thread : pc[t] # "idle" => mutex[proc(t)] = t

LogStore(n) == [k \in Key |->
  LET at == {i \in 1 .. n : log[i][1] = k}
  IN IF at = {} THEN NoValue ELSE log[CHOOSE i \in at : \A j \in at : j <= i][2]]

\* A crash takes the store back to what it was after all of the puts that
\* were completed, or all but the last: no put survives in part, and one
\* survives the crash once the next has called sync().  The last may be lost, for its own
\* calls of sync() come before fclose has written it.
CrashToPrefix ==
  [][Crash => \E n \in 0 .. Len(log) : n + 1 >= Len(log) /\ store' = LogStore(n)]_vars
=============================================================================
