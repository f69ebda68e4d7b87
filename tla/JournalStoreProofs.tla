------------------------- MODULE JournalStoreProofs -------------------------
(***************************************************************************)
(* What the journal store promises holds for any number of overlapping     *)
(* calls, texts, kills and power losses, and wherever the file system      *)
(* fails.                                                                  *)
(***************************************************************************)
EXTENDS JournalStoreProperties, TLAPS

Before == {"open", "write", "sync", "close", "readback", "recheck", "rename"}
Places == Before \union {"unused", "syncDirectory", "verify", "cleanup", "returned", "dead"}

Files == [content : Texts \union {"damaged", "partial"}, synced : BOOLEAN, by : Attempts \union {None}]

\* The fields the properties speak of.
Calls == [at : Places, offer : Texts \union {"damaged", None}, expected : Texts \union {None},
          before : Texts \union {None},
          fileSynced : BOOLEAN, directorySynced : BOOLEAN, committed : BOOLEAN, cleanupError : BOOLEAN,
          status : {None, "REFUSED", "UNCHANGED", "WRITTEN"},
          reason : {None, "INVALID_JOURNAL", "READ_FAILED", "EXISTING_INVALID", "CONFLICT", "WRITE_FAILED",
                    "READBACK_MISMATCH", "RENAME_FAILED"},
          durable : BOOLEAN]

StoreTypes ==
  /\ oneWriter \in BOOLEAN
  /\ call \in [Attempts -> Calls]
  /\ temp \in [Attempts -> Files \union {None}]
  /\ path \in Files \union {None}
  /\ survivors \subseteq Files \union {None}
  /\ path \in survivors
  /\ outages \in Nat

Active(record) == record.at \notin {"unused", "returned", "dead"}

\* A call in the middle of a write has a text to write; it has committed
\* nothing before the rename, and nothing is durable before the end.
InCall(record) ==
  /\ record.at \in Before \union {"cleanup", "unused"} => ~record.committed
  /\ Active(record) => record.offer \in Texts
  /\ record.directorySynced => record.at \in {"verify", "returned", "dead"}
  /\ record.fileSynced => record.at \notin {"unused", "open", "write", "sync"}
  /\ record.durable => record.fileSynced /\ record.directorySynced /\ record.at = "returned"

\* What the temporary file of a call is at each place of the code.
InTemp(t, record, file) ==
  /\ file # None => file.by = t
  /\ record.at \in Before \ {"open"} => file \in Files /\ file.by = t
  /\ record.at \in {"unused", "open", "syncDirectory", "verify"} => file = None
  /\ record.at \in {"recheck", "rename"} => file # None /\ file.content = record.offer
  /\ record.at \in {"close", "readback", "recheck", "rename"} /\ record.fileSynced => file.synced
  /\ record.at = "returned" /\ ~record.cleanupError => file = None

Locals == \A t \in Attempts : InCall(call[t]) /\ InTemp(t, call[t], temp[t])

\* A file that may be found at the destination after a power loss was
\* renamed there by the call it is of; if that call synced it, it is whole.
Traces ==
  \A t \in Attempts : \A file \in survivors :
    file # None /\ file.by = t =>
      /\ call[t].committed
      /\ call[t].fileSynced => file.synced /\ file.content = call[t].offer

\* Once a call has synced the directory its file is found or another one is
\* at the destination already.
Settled ==
  \A t \in Attempts : call[t].directorySynced /\ path # None /\ path.by = t => survivors = {path}

\* While the host makes one call at a time the destination is what the
\* caller expects until the rename.
Expecting ==
  oneWriter =>
    /\ \A t, u \in Attempts : Running(t) /\ Running(u) => t = u
    /\ \A t \in Attempts : call[t].at \in Before =>
         IF path = None THEN call[t].expected = None ELSE path.content = call[t].expected

IInv == StoreTypes /\ Locals /\ Traces /\ Settled /\ Expecting

LEMMA InitIInv == Init => IInv
<1> SUFFICES ASSUME Init PROVE IInv
  OBVIOUS
<1>1. \A t \in Attempts : call[t] = Unused /\ temp[t] = None
  BY DEF Init
<1>2. survivors = {path} /\ outages = 0 /\ oneWriter \in BOOLEAN
      /\ path \in Files \union {None} /\ (path # None => path.by = None)
  <2>1. ASSUME NEW content \in Texts \union {"damaged"}, path = File(content, TRUE, None)
        PROVE  path \in Files /\ path.by = None
    BY <2>1 DEF File, Files
  <2>2. path = None \/ \E content \in Texts \union {"damaged"} : path = File(content, TRUE, None)
    BY DEF Init
  <2> QED BY <2>1, <2>2 DEF Init
<1>3. Unused \in Calls
  BY DEF Unused, Calls, Places
<1>4. StoreTypes
  BY <1>1, <1>2, <1>3 DEF StoreTypes, Init
<1>5. Locals
  BY <1>1 DEF Locals, InCall, InTemp, Active, Unused, Before
<1>6. Traces /\ Settled
  <2>1. \A file \in survivors : file # None => file.by \notin Attempts
    BY <1>2, StoreAssumption
  <2>2. \A t \in Attempts : ~call[t].directorySynced
    BY <1>1 DEF Unused
  <2> QED BY <2>1, <2>2 DEF Traces, Settled
<1>7. Expecting
  BY <1>1 DEF Expecting, Unused, Running, Before
<1> QED BY <1>4, <1>5, <1>6, <1>7 DEF IInv

(***************************************************************************)
(* A step of one call that leaves the destination alone keeps the          *)
(* invariant if what it makes of its own record and temporary file is in   *)
(* order, and nothing it has committed, synced or begun is made up.        *)
(***************************************************************************)
LEMMA LocalStep ==
  ASSUME IInv, NEW t \in Attempts, NEW record \in Calls, NEW file \in Files \union {None},
         call' = [call EXCEPT ![t] = record], temp' = [temp EXCEPT ![t] = file],
         UNCHANGED <<path, survivors, outages, oneWriter>>,
         InCall(record), InTemp(t, record, file),
         call[t].committed => record.committed,
         record.fileSynced /\ record.committed => call[t].fileSynced /\ record.offer = call[t].offer,
         record.directorySynced => call[t].directorySynced,
         oneWriter /\ Active(record) => \A u \in Attempts : Running(u) => u = t,
         oneWriter /\ record.at \in Before =>
           IF path = None THEN record.expected = None ELSE path.content = record.expected
  PROVE  IInv'
<1>1. /\ call'[t] = record /\ temp'[t] = file
      /\ \A u \in Attempts \ {t} : call'[u] = call[u] /\ temp'[u] = temp[u]
  BY DEF IInv, StoreTypes
<1>2. StoreTypes'
  BY DEF IInv, StoreTypes
<1>3. Locals'
  BY <1>1 DEF IInv, Locals
<1>4. Traces'
  BY <1>1 DEF IInv, Traces
<1>5. Settled'
  BY <1>1 DEF IInv, Settled
<1>6. Expecting'
  BY <1>1 DEF IInv, Expecting, Running, Active
<1> QED BY <1>2, <1>3, <1>4, <1>5, <1>6 DEF IInv

LEMMA TempStays == ASSUME IInv, NEW t \in Attempts PROVE temp = [temp EXCEPT ![t] = temp[t]]
BY DEF IInv, StoreTypes

LEMMA Typed ==
  ASSUME IInv, NEW t \in Attempts
  PROVE  /\ call[t] \in Calls /\ temp[t] \in Files \union {None}
         /\ InCall(call[t]) /\ InTemp(t, call[t], temp[t])
         /\ path \in Files \union {None}
BY DEF IInv, StoreTypes, Locals

\* A call under way is, for a host with one call at a time, the only one.
LEMMA Alone ==
  ASSUME IInv, NEW t \in Attempts, Active(call[t]), oneWriter
  PROVE  /\ \A u \in Attempts : Running(u) => u = t
         /\ call[t].at \in Before =>
              IF path = None THEN call[t].expected = None ELSE path.content = call[t].expected
BY DEF IInv, Expecting, Running, Active

LEMMA ReturnShape ==
  ASSUME NEW c \in Calls, NEW status \in {"REFUSED", "UNCHANGED", "WRITTEN"},
         NEW reason \in {None, "INVALID_JOURNAL", "READ_FAILED", "EXISTING_INVALID", "CONFLICT",
                         "WRITE_FAILED", "READBACK_MISMATCH", "RENAME_FAILED"}
  PROVE  /\ Returned(c, status, reason) \in Calls
         /\ Returned(c, status, reason).at = "returned"
         /\ Returned(c, status, reason).offer = c.offer
         /\ Returned(c, status, reason).fileSynced = c.fileSynced
         /\ Returned(c, status, reason).directorySynced = c.directorySynced
         /\ Returned(c, status, reason).committed = c.committed
         /\ Returned(c, status, reason).cleanupError = c.cleanupError
         /\ Returned(c, status, reason).durable = c.durable
BY DEF Returned, Calls, Places

LEMMA BeginStep ==
  ASSUME IInv, NEW t \in Attempts, NEW offer \in Texts \union {"damaged"},
         NEW expected \in Texts \union {None}, Begin(t, offer, expected)
  PROVE  IInv'
<1>1. /\ call[t].at = "unused" /\ call[t] \in Calls /\ InCall(call[t]) /\ temp[t] = None
      /\ UNCHANGED <<temp, path, survivors, outages, oneWriter>>
  BY Typed DEF Begin, At, InTemp
<1>2. temp' = [temp EXCEPT ![t] = temp[t]]
  BY <1>1, TempStays
<1>3. PICK started : started = Started(t, offer, expected)
  OBVIOUS
<1>4. /\ started \in Calls /\ started.offer = offer /\ started.expected = expected
      /\ started.fileSynced = FALSE /\ started.directorySynced = FALSE /\ started.committed = FALSE
      /\ started.durable = FALSE
  <2>1. call[t].fileSynced = FALSE /\ call[t].directorySynced = FALSE /\ call[t].committed = FALSE
        /\ call[t].durable = FALSE
    BY <1>1 DEF InCall, Calls
  <2> QED BY <1>1, <1>3, <2>1 DEF Started, Calls
<1>5. ASSUME NEW status \in {"REFUSED", "UNCHANGED"},
             NEW reason \in {None, "INVALID_JOURNAL", "READ_FAILED", "EXISTING_INVALID", "CONFLICT"},
             call' = [call EXCEPT ![t] = Returned(started, status, reason)]
      PROVE  IInv'
  <2>1. PICK record : record = Returned(started, status, reason)
    OBVIOUS
  <2>2. /\ record \in Calls /\ record.at = "returned" /\ record.fileSynced = FALSE
        /\ record.directorySynced = FALSE /\ record.committed = FALSE /\ record.durable = FALSE
    BY <1>4, <2>1, ReturnShape
  <2>3. InCall(record) /\ InTemp(t, record, temp[t])
    BY <1>1, <2>2 DEF InCall, InTemp, Active, Before
  <2>4. ~call[t].committed
    BY <1>1 DEF InCall
  <2> QED BY <1>1, <1>2, <1>5, <2>1, <2>2, <2>3, <2>4, LocalStep DEF Active, Before
<1>6. ASSUME offer \in Texts, IF path = None THEN expected = None ELSE path.content = expected,
             NEW before \in Texts \union {None}, MayBegin,
             call' = [call EXCEPT ![t] = [started EXCEPT !.at = "open", !.before = before]]
      PROVE  IInv'
  <2>1. PICK record : record = [started EXCEPT !.at = "open", !.before = before]
    OBVIOUS
  <2>2. /\ record \in Calls /\ record.at = "open" /\ record.offer = offer /\ record.expected = expected
        /\ record.fileSynced = FALSE /\ record.directorySynced = FALSE /\ record.committed = FALSE
        /\ record.durable = FALSE
    BY <1>4, <2>1 DEF Calls, Places, Before
  <2>3. InCall(record) /\ InTemp(t, record, temp[t])
    BY <1>1, <1>6, <2>2 DEF InCall, InTemp, Active, Before
  <2>4. oneWriter => \A u \in Attempts : Running(u) => u = t
    BY <1>6 DEF MayBegin
  <2>5. ~call[t].committed
    BY <1>1 DEF InCall
  <2> QED BY <1>1, <1>2, <1>6, <2>1, <2>2, <2>3, <2>4, <2>5, LocalStep
<1>7. CASE path # None /\ path.content \notin Texts
  BY <1>3, <1>5, <1>7 DEF Begin
<1>8. CASE path = None \/ path.content \in Texts
  <2>1. CASE \/ ~ExpectationMet(expected)
             \/ path # None /\ path.content = offer
             \/ path # None /\ expected = None
             \/ offer \notin Texts
    BY <1>3, <1>5, <1>8, <2>1 DEF Begin
  <2>2. CASE /\ ExpectationMet(expected) /\ offer \in Texts
             /\ path # None => expected # None /\ path.content # offer
    <3>1. IF path = None THEN expected = None ELSE path.content = expected
      BY <2>2 DEF ExpectationMet
    <3>2. PICK before : before = IF path = None THEN None ELSE path.content
      OBVIOUS
    <3>3. before \in Texts \union {None}
      BY <1>8, <3>2
    <3>4. \/ call' = [call EXCEPT ![t] = Returned(started, "REFUSED", "READ_FAILED")]
          \/ MayBegin /\ call' = [call EXCEPT ![t] = [started EXCEPT !.at = "open", !.before = before]]
      BY <1>3, <1>8, <2>2, <3>2 DEF Begin
    <3> QED BY <1>5, <1>6, <2>2, <3>1, <3>3, <3>4
  <2> QED BY <2>1, <2>2
<1> QED BY <1>7, <1>8

\* The steps of a call under way that leave the destination alone.
LEMMA GoesOn ==
  ASSUME IInv, NEW t \in Attempts, NEW record \in Calls, NEW file \in Files \union {None},
         call' = [call EXCEPT ![t] = record], temp' = [temp EXCEPT ![t] = file],
         UNCHANGED <<path, survivors, outages, oneWriter>>,
         InCall(record), InTemp(t, record, file), Active(call[t]),
         record.committed = call[t].committed, record.offer = call[t].offer,
         record.expected = call[t].expected,
         record.fileSynced /\ record.committed => call[t].fileSynced,
         record.directorySynced => call[t].directorySynced,
         record.at \in Before => call[t].at \in Before
  PROVE  IInv'
BY LocalStep, Alone

\* A call goes on at another place, its record otherwise as it was.
LEMMA MovesOn ==
  ASSUME IInv, NEW t \in Attempts, NEW place \in Places \ {"unused"}, NEW file \in Files \union {None},
         Proceed(t, place), temp' = [temp EXCEPT ![t] = file],
         UNCHANGED <<path, survivors, outages, oneWriter>>, Active(call[t]),
         place \in Before \union {"cleanup"} => call[t].at \in Before,
         call[t].fileSynced => place \notin {"open", "write", "sync"},
         call[t].directorySynced => place \in {"verify", "returned", "dead"},
         \A record \in Calls : record.at = place /\ record.offer = call[t].offer
            /\ record.fileSynced = call[t].fileSynced /\ record.cleanupError = call[t].cleanupError
            => InTemp(t, record, file)
  PROVE  IInv'
<1>1. PICK record : record = [call[t] EXCEPT !.at = place]
  OBVIOUS
<1>2. call[t] \in Calls /\ InCall(call[t])
  BY Typed
<1>3. /\ record \in Calls /\ record.at = place /\ record.fileSynced = call[t].fileSynced
      /\ record.directorySynced = call[t].directorySynced /\ record.committed = call[t].committed
      /\ record.durable = call[t].durable /\ record.offer = call[t].offer
      /\ record.expected = call[t].expected /\ record.cleanupError = call[t].cleanupError
  BY <1>1, <1>2 DEF Calls
<1>4. InCall(record)
  BY <1>2, <1>3 DEF InCall, Active, Before
<1>5. InTemp(t, record, file)
  BY <1>3
<1> QED BY <1>1, <1>3, <1>4, <1>5, GoesOn DEF Proceed, Before

LEMMA FailStep ==
  ASSUME IInv, NEW t \in Attempts,
         NEW reason \in {"READ_FAILED", "CONFLICT", "WRITE_FAILED", "READBACK_MISMATCH", "RENAME_FAILED"},
         NEW record \in Calls, call' = [call EXCEPT ![t] = record], call[t].at \in Before,
         record.at = "cleanup", record.offer = call[t].offer,
         record.directorySynced = call[t].directorySynced, record.committed = call[t].committed,
         record.durable = call[t].durable,
         UNCHANGED <<temp, path, survivors, outages, oneWriter>>
  PROVE  IInv'
<1>1. /\ call[t] \in Calls /\ InCall(call[t]) /\ temp[t] \in Files \union {None}
      /\ InTemp(t, call[t], temp[t])
  BY Typed
<1>2. InCall(record) /\ InTemp(t, record, temp[t])
  BY <1>1 DEF InCall, InTemp, Active, Before
<1>3. temp' = [temp EXCEPT ![t] = temp[t]]
  BY TempStays
<1>4. Active(call[t]) /\ ~record.committed /\ ~record.directorySynced /\ ~call[t].committed
  BY <1>1 DEF Active, Before, InCall
<1> QED BY <1>1, <1>2, <1>3, <1>4, LocalStep, Alone DEF Before

LEMMA Failing ==
  ASSUME IInv, NEW t \in Attempts,
         NEW reason \in {"READ_FAILED", "CONFLICT", "WRITE_FAILED", "READBACK_MISMATCH", "RENAME_FAILED"},
         Fail(t, reason), call[t].at \in Before, UNCHANGED <<temp, path, survivors, outages, oneWriter>>
  PROVE  IInv'
<1>1. PICK record : record = [call[t] EXCEPT !.at = "cleanup", !.reason = reason]
  OBVIOUS
<1>2. call[t] \in Calls
  BY Typed
<1>3. /\ record \in Calls /\ record.at = "cleanup" /\ record.offer = call[t].offer
      /\ record.directorySynced = call[t].directorySynced /\ record.committed = call[t].committed
      /\ record.durable = call[t].durable
  BY <1>1, <1>2 DEF Calls, Places
<1>4. call' = [call EXCEPT ![t] = record]
  BY <1>1 DEF Fail, IInv, StoreTypes
<1> QED BY <1>3, <1>4, FailStep

LEMMA ReturnStep ==
  ASSUME IInv, NEW t \in Attempts, NEW record \in Calls, NEW file \in Files \union {None},
         call' = [call EXCEPT ![t] = record], temp' = [temp EXCEPT ![t] = file],
         UNCHANGED <<path, survivors, outages, oneWriter>>, Active(call[t]),
         record.at = "returned", record.offer = call[t].offer,
         record.directorySynced = call[t].directorySynced, record.committed = call[t].committed,
         record.fileSynced = call[t].fileSynced,
         record.durable => record.fileSynced /\ record.directorySynced,
         file = None \/ (record.cleanupError /\ file = temp[t])
  PROVE  IInv'
<1>1. /\ call[t] \in Calls /\ InCall(call[t]) /\ temp[t] \in Files \union {None}
      /\ InTemp(t, call[t], temp[t])
  BY Typed
<1>2. InCall(record)
  BY <1>1 DEF InCall, Active, Before
<1>3. InTemp(t, record, file)
  BY <1>1 DEF InTemp, Before
<1> QED BY <1>2, <1>3, LocalStep, Alone DEF Active, Before

LEMMA OpenStep == ASSUME IInv, NEW t \in Attempts, OpenTemp(t) PROVE IInv'
<1>1. /\ call[t].at = "open" /\ call[t] \in Calls /\ InCall(call[t]) /\ temp[t] = None /\ Active(call[t])
      /\ UNCHANGED <<path, survivors, outages, oneWriter>>
  BY Typed DEF OpenTemp, At, InTemp, Active
<1>2. CASE temp' = [temp EXCEPT ![t] = File("partial", FALSE, t)] /\ Proceed(t, "write")
  <2>1. File("partial", FALSE, t) \in Files /\ File("partial", FALSE, t).by = t
    BY DEF File, Files
  <2>2. \A record : record.at = "write" => InTemp(t, record, File("partial", FALSE, t))
    BY <2>1 DEF InTemp
  <2>3. ~call[t].fileSynced /\ ~call[t].directorySynced
    BY <1>1 DEF InCall
  <2> QED BY <1>1, <1>2, <2>1, <2>2, <2>3, MovesOn DEF Before, Places
<1>3. CASE Return(t, "REFUSED", "WRITE_FAILED") /\ UNCHANGED temp
  <2>1. PICK record : record = Returned(call[t], "REFUSED", "WRITE_FAILED")
    OBVIOUS
  <2>2. call' = [call EXCEPT ![t] = record]
    BY <1>3, <2>1 DEF Return
  <2>3. /\ record \in Calls /\ record.at = "returned" /\ record.fileSynced = call[t].fileSynced
        /\ record.directorySynced = call[t].directorySynced /\ record.committed = call[t].committed
        /\ record.durable = call[t].durable /\ record.offer = call[t].offer
    BY <1>1, <2>1, ReturnShape
  <2>4. temp' = [temp EXCEPT ![t] = None]
    BY <1>1, <1>3, TempStays
  <2> QED BY <1>1, <2>2, <2>3, <2>4, ReturnStep DEF InCall
<1> QED BY <1>2, <1>3 DEF OpenTemp

LEMMA WriteStep == ASSUME IInv, NEW t \in Attempts, WriteTemp(t) PROVE IInv'
<1>1. /\ call[t].at = "write" /\ call[t] \in Calls /\ InCall(call[t]) /\ InTemp(t, call[t], temp[t])
      /\ temp[t] \in Files \union {None} /\ Active(call[t])
      /\ UNCHANGED <<path, survivors, outages, oneWriter>>
  BY Typed DEF WriteTemp, At, Active
<1>2. ASSUME NEW content \in {call[t].offer, "damaged"}, temp' = [temp EXCEPT ![t].content = content],
             Proceed(t, "sync")
      PROVE  IInv'
  <2>1. PICK file : file = [temp[t] EXCEPT !.content = content]
    OBVIOUS
  <2>2. temp[t] \in Files /\ temp[t].by = t /\ call[t].offer \in Texts
    BY <1>1 DEF InTemp, InCall, Before
  <2>3. file \in Files /\ file.by = t
    BY <2>1, <2>2 DEF Files
  <2>4. temp' = [temp EXCEPT ![t] = file]
    BY <1>2, <2>1 DEF IInv, StoreTypes
  <2>5. \A record : record.at = "sync" => InTemp(t, record, file)
    BY <2>3 DEF InTemp
  <2>6. ~call[t].fileSynced /\ ~call[t].directorySynced
    BY <1>1 DEF InCall
  <2> QED BY <1>1, <1>2, <2>3, <2>4, <2>5, <2>6, MovesOn DEF Before, Places
<1>3. CASE Fail(t, "WRITE_FAILED") /\ UNCHANGED temp
  BY <1>1, <1>3, Failing DEF Before
<1> QED BY <1>2, <1>3 DEF WriteTemp

LEMMA SyncStep == ASSUME IInv, NEW t \in Attempts, SyncTemp(t) PROVE IInv'
<1>1. /\ call[t].at = "sync" /\ call[t] \in Calls /\ InCall(call[t]) /\ InTemp(t, call[t], temp[t])
      /\ Active(call[t]) /\ UNCHANGED <<path, survivors, outages, oneWriter>>
  BY Typed DEF SyncTemp, At, Active
<1>2. PICK done \in BOOLEAN :
        /\ temp' = [temp EXCEPT ![t].synced = done]
        /\ call' = [call EXCEPT ![t].at = "close", ![t].fileSynced = done]
  BY DEF SyncTemp
<1>3. PICK file : file = [temp[t] EXCEPT !.synced = done]
  OBVIOUS
<1>4. PICK record : record = [call[t] EXCEPT !.at = "close", !.fileSynced = done]
  OBVIOUS
<1>5. temp[t] \in Files /\ temp[t].by = t
  BY <1>1 DEF InTemp, Before
<1>6. file \in Files /\ file.by = t /\ file.synced = done
  BY <1>3, <1>5 DEF Files
<1>7. temp' = [temp EXCEPT ![t] = file] /\ call' = [call EXCEPT ![t] = record]
  BY <1>2, <1>3, <1>4 DEF IInv, StoreTypes
<1>8. /\ record \in Calls /\ record.at = "close" /\ record.fileSynced = done
      /\ record.directorySynced = call[t].directorySynced /\ record.committed = call[t].committed
      /\ record.durable = call[t].durable /\ record.offer = call[t].offer
      /\ record.expected = call[t].expected
  BY <1>1, <1>4 DEF Calls, Places, Before
<1>9. InCall(record) /\ ~record.committed
  BY <1>1, <1>8 DEF InCall, Active, Before
<1>10. InTemp(t, record, file)
  BY <1>6, <1>8 DEF InTemp
<1> QED BY <1>1, <1>6, <1>7, <1>8, <1>9, <1>10, GoesOn DEF Before

\* Closing, reading back and looking again change no file.
LEMMA LookStep ==
  ASSUME IInv, NEW t \in Attempts, CloseTemp(t) \/ ReadBack(t) \/ Recheck(t)
  PROVE  IInv'
<1>1. /\ call[t].at \in {"close", "readback", "recheck"} /\ call[t] \in Calls
      /\ InCall(call[t]) /\ InTemp(t, call[t], temp[t]) /\ temp[t] \in Files \union {None}
      /\ UNCHANGED <<temp, path, survivors, outages, oneWriter>>
  BY Typed DEF CloseTemp, ReadBack, Recheck, At
<1>2. temp' = [temp EXCEPT ![t] = temp[t]] /\ ~call[t].directorySynced /\ Active(call[t])
  BY <1>1, TempStays DEF InCall, Active
<1>3. ASSUME NEW place \in {"readback", "recheck", "rename"}, Proceed(t, place),
             place # "readback" => temp[t] # None /\ temp[t].content = call[t].offer
      PROVE  IInv'
  <2>1. \A record \in Calls : record.at = place /\ record.offer = call[t].offer
           /\ record.fileSynced = call[t].fileSynced => InTemp(t, record, temp[t])
    BY <1>1, <1>3 DEF InTemp, Before
  <2>2. place \in Places
    BY DEF Places, Before
  <2> QED BY <1>1, <1>2, <1>3, <2>1, <2>2, MovesOn DEF Before
<1>4. CASE CloseTemp(t)
  <2>1. CASE call' = [call EXCEPT ![t].at = "cleanup", ![t].reason = "WRITE_FAILED", ![t].cleanupError = TRUE]
    <3>1. PICK record : record = [call[t] EXCEPT !.at = "cleanup", !.reason = "WRITE_FAILED", !.cleanupError = TRUE]
      OBVIOUS
    <3>2. /\ record \in Calls /\ record.at = "cleanup" /\ record.offer = call[t].offer
          /\ record.directorySynced = call[t].directorySynced /\ record.committed = call[t].committed
          /\ record.durable = call[t].durable
      BY <1>1, <3>1 DEF Calls, Places
    <3>3. call' = [call EXCEPT ![t] = record]
      BY <2>1, <3>1 DEF IInv, StoreTypes
    <3> QED BY <1>1, <3>2, <3>3, FailStep DEF Before
  <2> QED BY <1>3, <1>4, <2>1 DEF CloseTemp
<1>5. CASE ReadBack(t)
  BY <1>1, <1>3, <1>5, Failing DEF ReadBack, Matches, Before
<1>6. CASE Recheck(t)
  <2>1. CASE Proceed(t, "rename")
    <3>1. temp[t] # None /\ temp[t].content = call[t].offer
      BY <1>1, <1>6 DEF Recheck, At, InTemp
    <3> QED BY <1>3, <2>1, <3>1
  <2> QED BY <1>1, <1>6, <2>1, Failing DEF Recheck, Before
<1> QED BY <1>4, <1>5, <1>6

LEMMA CleanupStep == ASSUME IInv, NEW t \in Attempts, Cleanup(t) PROVE IInv'
<1>1. /\ call[t].at = "cleanup" /\ call[t] \in Calls /\ InCall(call[t]) /\ temp[t] \in Files \union {None}
      /\ Active(call[t]) /\ UNCHANGED <<path, survivors, outages, oneWriter>>
  BY Typed DEF Cleanup, At, Active
<1>2. PICK removed \in BOOLEAN, error \in BOOLEAN :
        /\ ~removed => error
        /\ temp' = [temp EXCEPT ![t] = IF removed THEN None ELSE @]
        /\ call' = [call EXCEPT ![t] =
             [Returned(call[t], "REFUSED", call[t].reason) EXCEPT !.cleanupError = @ \/ error]]
  BY DEF Cleanup
<1>3. PICK file : file = IF removed THEN None ELSE temp[t]
  OBVIOUS
<1>4. PICK base : base = Returned(call[t], "REFUSED", call[t].reason)
  OBVIOUS
<1>5. temp' = [temp EXCEPT ![t] = file] /\ file \in Files \union {None}
  BY <1>1, <1>2, <1>3 DEF IInv, StoreTypes
<1>6. /\ base \in Calls /\ base.at = "returned" /\ base.offer = call[t].offer
      /\ base.directorySynced = call[t].directorySynced /\ base.committed = call[t].committed
      /\ base.fileSynced = call[t].fileSynced /\ base.durable = call[t].durable
  <2>1. call[t].reason \in {None, "INVALID_JOURNAL", "READ_FAILED", "EXISTING_INVALID", "CONFLICT",
                            "WRITE_FAILED", "READBACK_MISMATCH", "RENAME_FAILED"}
    BY <1>1 DEF Calls
  <2> QED BY <1>1, <1>4, <2>1, ReturnShape
<1>7. PICK record \in Calls :
        /\ call' = [call EXCEPT ![t] = record]
        /\ record.at = "returned" /\ record.offer = call[t].offer
        /\ record.directorySynced = call[t].directorySynced /\ record.committed = call[t].committed
        /\ record.fileSynced = call[t].fileSynced /\ record.durable = call[t].durable
        /\ (error => record.cleanupError)
  <2>1. PICK flag : flag = (base.cleanupError \/ error)
    OBVIOUS
  <2>2. flag \in BOOLEAN /\ (error => flag)
    BY <2>1
  <2>3. PICK record : record = [base EXCEPT !.cleanupError = flag]
    OBVIOUS
  <2>4. call' = [call EXCEPT ![t] = record]
    BY <1>2, <1>4, <2>1, <2>3
  <2>5. /\ record \in Calls /\ record.at = "returned" /\ record.offer = call[t].offer
        /\ record.directorySynced = call[t].directorySynced /\ record.committed = call[t].committed
        /\ record.fileSynced = call[t].fileSynced /\ record.durable = call[t].durable
        /\ record.cleanupError = flag
    BY <1>6, <2>2, <2>3 DEF Calls
  <2> QED BY <2>2, <2>4, <2>5
<1>8. file = None \/ (record.cleanupError /\ file = temp[t])
  BY <1>2, <1>3, <1>7
<1> QED BY <1>1, <1>5, <1>6, <1>7, <1>8, ReturnStep DEF InCall

LEMMA VerifyStep == ASSUME IInv, NEW t \in Attempts, Verify(t) PROVE IInv'
<1>1. /\ call[t].at = "verify" /\ call[t] \in Calls /\ InCall(call[t]) /\ temp[t] = None
      /\ Active(call[t]) /\ UNCHANGED <<temp, path, survivors, outages, oneWriter>>
  BY Typed DEF Verify, At, Active, InTemp
<1>2. temp' = [temp EXCEPT ![t] = None]
  BY <1>1, TempStays
<1>3. CASE call' = [call EXCEPT ![t] = AfterMismatch(@)]
  <2>1. PICK record : record = Returned(call[t], "REFUSED", "READBACK_MISMATCH")
    OBVIOUS
  <2>2. call' = [call EXCEPT ![t] = record]
    BY <1>3, <2>1 DEF AfterMismatch
  <2>3. /\ record \in Calls /\ record.at = "returned" /\ record.fileSynced = call[t].fileSynced
        /\ record.directorySynced = call[t].directorySynced /\ record.committed = call[t].committed
        /\ record.durable = call[t].durable /\ record.offer = call[t].offer
    BY <1>1, <2>1, ReturnShape
  <2> QED BY <1>1, <1>2, <2>2, <2>3, ReturnStep DEF InCall
<1>4. CASE call' = [call EXCEPT ![t] = [Returned(@, "WRITTEN", None) EXCEPT !.durable = Durable(call[t])]]
  <2>1. PICK base : base = Returned(call[t], "WRITTEN", None)
    OBVIOUS
  <2>2. PICK durable : durable = (call[t].fileSynced /\ call[t].directorySynced)
    OBVIOUS
  <2>3. PICK record : record = [base EXCEPT !.durable = durable]
    OBVIOUS
  <2>4. call' = [call EXCEPT ![t] = record]
    BY <1>4, <2>1, <2>2, <2>3 DEF Durable
  <2>5. /\ base \in Calls /\ base.at = "returned" /\ base.fileSynced = call[t].fileSynced
        /\ base.directorySynced = call[t].directorySynced /\ base.committed = call[t].committed
        /\ base.offer = call[t].offer
    BY <1>1, <2>1, ReturnShape
  <2>6. durable \in BOOLEAN
    BY <1>1, <2>2 DEF Calls
  <2>7. /\ record \in Calls /\ record.at = "returned" /\ record.fileSynced = call[t].fileSynced
        /\ record.directorySynced = call[t].directorySynced /\ record.committed = call[t].committed
        /\ record.offer = call[t].offer /\ record.durable = durable
    BY <2>3, <2>5, <2>6 DEF Calls
  <2>8. record.durable => record.fileSynced /\ record.directorySynced
    BY <2>2, <2>7
  <2> QED BY <1>1, <1>2, <2>4, <2>7, <2>8, ReturnStep
<1> QED BY <1>3, <1>4 DEF Verify

LEMMA KillStep == ASSUME IInv, NEW t \in Attempts, Kill(t) PROVE IInv'
<1>1. /\ call[t] \in Calls /\ InTemp(t, call[t], temp[t]) /\ temp[t] \in Files \union {None}
      /\ Active(call[t]) /\ Proceed(t, "dead") /\ UNCHANGED <<temp, path, survivors, outages, oneWriter>>
  BY Typed DEF Kill, Running, Active
<1>2. temp' = [temp EXCEPT ![t] = temp[t]]
  BY <1>1, TempStays
<1>3. \A record : record.at = "dead" => InTemp(t, record, temp[t])
  BY <1>1 DEF InTemp, Before
<1>4. "dead" \in Places /\ "dead" \notin Before
  BY DEF Places, Before
<1> QED BY <1>1, <1>2, <1>3, <1>4, MovesOn

(***************************************************************************)
(* The steps that touch the destination.                                   *)
(***************************************************************************)
LEMMA RenameStep == ASSUME IInv, NEW t \in Attempts, Rename(t) PROVE IInv'
<1>1. /\ call[t].at = "rename" /\ call[t] \in Calls /\ InCall(call[t]) /\ InTemp(t, call[t], temp[t])
      /\ Active(call[t]) /\ UNCHANGED <<outages, oneWriter>>
  BY Typed DEF Rename, At, Active
<1>2. CASE Fail(t, "RENAME_FAILED") /\ UNCHANGED <<temp, path, survivors>>
  BY <1>1, <1>2, Failing DEF Before
<1>3. CASE /\ path' = temp[t]
           /\ survivors' = survivors \union {path'}
           /\ temp' = [temp EXCEPT ![t] = None]
           /\ call' = [call EXCEPT ![t].at = "syncDirectory", ![t].committed = TRUE]
  <2>1. PICK record : record = [call[t] EXCEPT !.at = "syncDirectory", !.committed = TRUE]
    OBVIOUS
  <2>2. call' = [call EXCEPT ![t] = record]
    BY <1>3, <2>1 DEF IInv, StoreTypes
  <2>3. /\ record \in Calls /\ record.at = "syncDirectory" /\ record.committed = TRUE
        /\ record.offer = call[t].offer /\ record.fileSynced = call[t].fileSynced
        /\ record.directorySynced = call[t].directorySynced /\ record.durable = call[t].durable
    BY <1>1, <2>1 DEF Calls, Places
  <2>4. temp[t] \in Files /\ temp[t].by = t /\ temp[t].content = call[t].offer
        /\ (call[t].fileSynced => temp[t].synced)
    BY <1>1 DEF InTemp, Before
  <2>5. /\ call'[t] = record /\ temp'[t] = None
        /\ \A u \in Attempts \ {t} : call'[u] = call[u] /\ temp'[u] = temp[u]
    BY <1>3, <2>2 DEF IInv, StoreTypes
  <2>6. StoreTypes'
    BY <1>1, <1>3, <2>2, <2>3, <2>4 DEF IInv, StoreTypes
  <2>7. InCall(record) /\ InTemp(t, record, None)
    BY <1>1, <2>3 DEF InCall, InTemp, Active, Before
  <2>8. Locals'
    BY <2>5, <2>7 DEF IInv, Locals
  <2>9. Traces'
    <3> SUFFICES ASSUME NEW u \in Attempts, NEW file \in survivors', file # None, file.by = u
                 PROVE  call'[u].committed /\ (call'[u].fileSynced => file.synced /\ file.content = call'[u].offer)
      BY DEF Traces
    <3>1. CASE file \in survivors
      BY <2>3, <2>5, <3>1 DEF IInv, Traces
    <3>2. CASE file = temp[t]
      BY <2>3, <2>4, <2>5, <3>2
    <3> QED BY <1>3, <3>1, <3>2
  <2>10. Settled'
    BY <1>1, <1>3, <2>3, <2>4, <2>5 DEF Settled, InCall
  <2>11. Expecting'
    <3>1. oneWriter => \A u \in Attempts : Active(call[u]) => u = t
      BY <1>1, Alone DEF Running, Active
    <3>2. record.at \notin Before
      BY <2>3 DEF Before
    <3>3. \A u \in Attempts : call[u].at \in Before => Active(call[u])
      BY DEF Before, Active
    <3>4. \A u \in Attempts : Active(call'[u]) <=> Running(u)'
      BY DEF Running, Active
    <3>5. oneWriter => \A u \in Attempts \ {t} : ~Active(call'[u]) /\ call'[u].at \notin Before
      BY <2>5, <3>1, <3>3
    <3> QED BY <1>1, <2>5, <3>2, <3>4, <3>5 DEF Expecting
  <2> QED BY <2>6, <2>8, <2>9, <2>10, <2>11 DEF IInv
<1> QED BY <1>2, <1>3 DEF Rename

LEMMA DirectoryStep == ASSUME IInv, NEW t \in Attempts, SyncDirectory(t) PROVE IInv'
<1>1. /\ call[t].at = "syncDirectory" /\ call[t] \in Calls /\ InCall(call[t]) /\ temp[t] = None
      /\ Active(call[t]) /\ UNCHANGED <<temp, path, outages, oneWriter>>
  BY Typed DEF SyncDirectory, At, Active, InTemp
<1>2. PICK synced \in BOOLEAN, closed \in BOOLEAN :
        /\ survivors' = IF synced THEN {path} ELSE survivors
        /\ call' = [call EXCEPT ![t].at = "verify", ![t].directorySynced = synced /\ closed,
                                ![t].cleanupError = ~closed]
  BY DEF SyncDirectory
<1>3. PICK reliable : reliable = (synced /\ closed)
  OBVIOUS
<1>4. PICK leaking : leaking = ~closed
  OBVIOUS
<1>5. PICK record : record = [call[t] EXCEPT !.at = "verify", !.directorySynced = reliable,
                                             !.cleanupError = leaking]
  OBVIOUS
<1>6. call' = [call EXCEPT ![t] = record]
  BY <1>2, <1>3, <1>4, <1>5 DEF IInv, StoreTypes
<1>7. reliable \in BOOLEAN /\ leaking \in BOOLEAN /\ (reliable => synced)
  BY <1>3, <1>4
<1>8. /\ record \in Calls /\ record.at = "verify" /\ record.offer = call[t].offer
      /\ record.committed = call[t].committed /\ record.fileSynced = call[t].fileSynced
      /\ record.directorySynced = reliable /\ record.durable = call[t].durable
  BY <1>1, <1>5, <1>7 DEF Calls, Places
<1>9. /\ call'[t] = record
      /\ \A u \in Attempts \ {t} : call'[u] = call[u]
      /\ survivors' \subseteq survivors /\ path \in survivors'
      /\ (reliable => survivors' = {path}) /\ (survivors = {path} => survivors' = {path})
  BY <1>2, <1>6, <1>7 DEF IInv, StoreTypes
<1>10. StoreTypes'
  BY <1>1, <1>6, <1>8, <1>9 DEF IInv, StoreTypes
<1>11. Locals'
  <2>1. InCall(record) /\ InTemp(t, record, None)
    BY <1>1, <1>8 DEF InCall, InTemp, Active, Before
  <2> QED BY <1>1, <1>9, <2>1 DEF IInv, Locals
<1>12. Traces'
  BY <1>8, <1>9 DEF IInv, Traces
<1>13. Settled'
  BY <1>1, <1>8, <1>9 DEF IInv, Settled
<1>14. Expecting'
  BY <1>1, <1>8, <1>9, Alone DEF IInv, Expecting, Running, Active, Before
<1> QED BY <1>10, <1>11, <1>12, <1>13, <1>14 DEF IInv

LEMMA OutageFile ==
  ASSUME NEW file \in Files \union {None}, NEW found \in AfterOutage(file), found # None
  PROVE  /\ file # None /\ found \in Files /\ found.by = file.by /\ found.synced = TRUE
         /\ (file.synced => found.content = file.content)
<1>1. file # None /\ file \in Files
  BY DEF AfterOutage
<1>2. \/ found = [file EXCEPT !.synced = TRUE]
      \/ ~file.synced /\ found = [file EXCEPT !.synced = TRUE, !.content = "damaged"]
  BY <1>1 DEF AfterOutage
<1> QED BY <1>1, <1>2 DEF Files

LEMMA OutageStep == ASSUME IInv, PowerLoss PROVE IInv'
<1>1. /\ call' = [t \in Attempts |-> IF Running(t) THEN [call[t] EXCEPT !.at = "dead"] ELSE call[t]]
      /\ survivors' = {path'} /\ outages' = outages + 1 /\ UNCHANGED <<temp, oneWriter>>
  BY DEF PowerLoss
<1>2. PICK file \in survivors : path' \in AfterOutage(file)
  BY DEF PowerLoss
<1>3. file \in Files \union {None}
  BY DEF IInv, StoreTypes
<1>4. path' # None => /\ file # None /\ path' \in Files /\ path'.by = file.by /\ path'.synced = TRUE
                      /\ (file.synced => path'.content = file.content)
  BY <1>2, <1>3, OutageFile
<1>5. ASSUME NEW t \in Attempts
      PROVE  /\ call'[t] \in Calls /\ ~Active(call'[t])
             /\ call'[t].at = IF Active(call[t]) THEN "dead" ELSE call[t].at
             /\ call'[t].offer = call[t].offer /\ call'[t].committed = call[t].committed
             /\ call'[t].fileSynced = call[t].fileSynced /\ call'[t].durable = call[t].durable
             /\ call'[t].directorySynced = call[t].directorySynced
             /\ call'[t].cleanupError = call[t].cleanupError
  <2>1. call[t] \in Calls
    BY Typed
  <2>2. call'[t] = IF Active(call[t]) THEN [call[t] EXCEPT !.at = "dead"] ELSE call[t]
    BY <1>1 DEF Running, Active
  <2> QED BY <2>1, <2>2 DEF Calls, Places, Active
<1>6. StoreTypes'
  <2>1. call' \in [Attempts -> Calls]
    BY <1>1, <1>5
  <2> QED BY <1>1, <1>4, <2>1 DEF IInv, StoreTypes
<1>7. Locals'
  <2> SUFFICES ASSUME NEW t \in Attempts PROVE InCall(call'[t]) /\ InTemp(t, call'[t], temp[t])
    BY <1>1 DEF Locals
  <2>1. InCall(call[t]) /\ InTemp(t, call[t], temp[t])
    BY Typed
  <2> QED BY <1>5, <2>1 DEF InCall, InTemp, Active, Before
<1>8. Traces'
  <2> SUFFICES ASSUME NEW t \in Attempts, path' # None, path'.by = t
               PROVE  call'[t].committed /\ (call'[t].fileSynced => path'.synced /\ path'.content = call'[t].offer)
    BY <1>1 DEF Traces
  <2> QED BY <1>4, <1>5 DEF IInv, Traces
<1>9. Settled'
  BY <1>1 DEF Settled
<1>10. Expecting'
  <2>1. \A t \in Attempts : ~Active(call'[t]) /\ call'[t].at \notin Before
    BY <1>5 DEF Active, Before
  <2> QED BY <2>1 DEF Expecting, Running, Active
<1> QED BY <1>6, <1>7, <1>8, <1>9, <1>10 DEF IInv

LEMMA NextIInv == IInv /\ [Next]_vars => IInv'
<1> SUFFICES ASSUME IInv, [Next]_vars PROVE IInv'
  OBVIOUS
<1>1. CASE UNCHANGED vars
  BY <1>1 DEF vars, IInv, StoreTypes, Locals, Traces, Settled, Expecting, Running
<1> QED BY <1>1, BeginStep, OpenStep, WriteStep, SyncStep, LookStep, RenameStep, DirectoryStep,
           VerifyStep, CleanupStep, KillStep, OutageStep DEF Next, Step

LEMMA Invariant == Spec => []IInv
BY InitIInv, NextIInv, PTL DEF Spec

(***************************************************************************)
(* What a write reported as durable put at the destination is found there  *)
(* whole after a power loss, unless a later write has replaced it.         *)
(***************************************************************************)
THEOREM DurableWritesSurvive == Spec => []DurableSurvives
<1>1. IInv => DurableSurvives
  <2> SUFFICES ASSUME IInv, NEW t \in Attempts, call[t].durable, path # None, path.by = t
               PROVE  survivors = {path} /\ path.synced /\ path.content = call[t].offer
    BY DEF DurableSurvives
  <2>1. call[t].fileSynced /\ call[t].directorySynced
    BY Typed DEF InCall
  <2> QED BY <2>1 DEF IInv, StoreTypes, Traces, Settled
<1> QED BY <1>1, Invariant, PTL

(***************************************************************************)
(* A call that reported no commit has left nothing at the destination,     *)
(* and no power loss brings its file back.                                 *)
(***************************************************************************)
THEOREM RefusalsLeaveNoTrace == Spec => []UncommittedLeavesNoTrace
<1>1. IInv => UncommittedLeavesNoTrace
  BY Typed DEF UncommittedLeavesNoTrace, CleansUp, Done, InTemp, IInv, Traces
<1> QED BY <1>1, Invariant, PTL

\* Only a rename and a power loss change the destination.
LEMMA DestinationChanges ==
  ASSUME IInv, [Next]_vars, path' # path
  PROVE  (\E t \in Attempts : Rename(t)) \/ PowerLoss
BY DEF Next, Step, vars, Begin, OpenTemp, WriteTemp, SyncTemp, CloseTemp, ReadBack, Recheck, SyncDirectory,
       Verify, Cleanup, Kill

(***************************************************************************)
(* Short of a power loss the destination only ever becomes a whole         *)
(* journal.                                                                *)
(***************************************************************************)
THEOREM OnlyWholeJournalsAppear == Spec => OnlyWholeJournals
<1>1. ASSUME IInv, [Next]_vars, outages' = outages, path' # path
      PROVE  path' # None /\ path'.content \in Texts
  <2>1. ~PowerLoss
    BY <1>1 DEF PowerLoss, IInv, StoreTypes
  <2>2. PICK t \in Attempts : Rename(t)
    BY <1>1, <2>1, DestinationChanges
  <2>3. path' = temp[t] /\ call[t].at = "rename" /\ InCall(call[t]) /\ InTemp(t, call[t], temp[t])
    BY <1>1, <2>2, Typed DEF Rename, At
  <2> QED BY <2>3 DEF InTemp, InCall, Active
<1>2. IInv /\ [Next]_vars => [outages' = outages /\ path' # path => path' # None /\ path'.content \in Texts]_vars
  BY <1>1
<1> QED BY <1>2, Invariant, PTL DEF Spec, OnlyWholeJournals

\* Only its rename makes a call a committed one.
LEMMA Commits ==
  ASSUME IInv, [Next]_vars, NEW t \in Attempts, call'[t].committed, ~call[t].committed
  PROVE  Rename(t) /\ path' = temp[t]
<1> DEFINE Kept == \A u \in Attempts : call'[u].committed = call[u].committed
<1>1. \A u \in Attempts : call[u] \in Calls
  BY Typed
<1>2. ASSUME NEW u \in Attempts, NEW place, Proceed(u, place) PROVE Kept
  BY <1>1, <1>2 DEF Proceed, Calls, IInv, StoreTypes
<1>3. ASSUME NEW u \in Attempts, NEW reason, Fail(u, reason) PROVE Kept
  BY <1>1, <1>3 DEF Fail, Calls, IInv, StoreTypes
<1>4. ASSUME NEW u \in Attempts, NEW record, call' = [call EXCEPT ![u] = record],
             record.committed = call[u].committed
      PROVE  Kept
  BY <1>1, <1>4 DEF IInv, StoreTypes
<1>5. \A u \in Attempts : \A status, reason : Returned(call[u], status, reason).committed = call[u].committed
  BY <1>1 DEF Returned, Calls
<1>6. ASSUME NEW u \in Attempts, NEW offer, NEW expected, Begin(u, offer, expected) PROVE Kept
  <2>1. PICK started : started = Started(u, offer, expected)
    OBVIOUS
  <2>2. started.committed = call[u].committed /\ DOMAIN started = DOMAIN call[u]
    BY <1>1, <2>1 DEF Started, Calls
  <2>3. \A status, reason : Returned(started, status, reason).committed = started.committed
    BY <1>1, <2>2 DEF Returned, Calls
  <2>4. \A before : [started EXCEPT !.at = "open", !.before = before].committed = started.committed
    BY <1>1, <2>2 DEF Calls
  <2>5. \/ \E status, reason : call' = [call EXCEPT ![u] = Returned(started, status, reason)]
        \/ \E before : call' = [call EXCEPT ![u] = [started EXCEPT !.at = "open", !.before = before]]
    BY <1>6, <2>1 DEF Begin
  <2>6. ASSUME NEW status, NEW reason, call' = [call EXCEPT ![u] = Returned(started, status, reason)]
        PROVE  Kept
    <3>1. PICK record : record = Returned(started, status, reason)
      OBVIOUS
    <3> QED BY <1>4, <2>2, <2>3, <2>6, <3>1
  <2>7. ASSUME NEW before, call' = [call EXCEPT ![u] = [started EXCEPT !.at = "open", !.before = before]]
        PROVE  Kept
    <3>1. PICK record : record = [started EXCEPT !.at = "open", !.before = before]
      OBVIOUS
    <3> QED BY <1>4, <2>2, <2>4, <2>7, <3>1
  <2> QED BY <2>5, <2>6, <2>7
<1>7. ASSUME NEW u \in Attempts, OpenTemp(u) \/ WriteTemp(u) \/ ReadBack(u) \/ Recheck(u) \/ Kill(u)
      PROVE  Kept
  <2>1. \/ \E place : Proceed(u, place)
        \/ \E reason : Fail(u, reason)
        \/ call' = [call EXCEPT ![u] = Returned(call[u], "REFUSED", "WRITE_FAILED")]
    BY <1>7 DEF OpenTemp, WriteTemp, ReadBack, Recheck, Kill, Return
  <2> QED BY <1>2, <1>3, <1>4, <1>5, <2>1
<1>8. ASSUME NEW u \in Attempts, SyncTemp(u) PROVE Kept
  BY <1>1, <1>8 DEF SyncTemp, Calls, IInv, StoreTypes
<1>9. ASSUME NEW u \in Attempts, CloseTemp(u) PROVE Kept
  BY <1>1, <1>2, <1>9 DEF CloseTemp, Calls, IInv, StoreTypes
<1>10. ASSUME NEW u \in Attempts, SyncDirectory(u) PROVE Kept
  BY <1>1, <1>10 DEF SyncDirectory, Calls, IInv, StoreTypes
<1>11. ASSUME NEW u \in Attempts, Verify(u) \/ Cleanup(u) PROVE Kept
  <2>1. CASE Verify(u)
    <3>1. CASE call' = [call EXCEPT ![u] = Returned(call[u], "REFUSED", "READBACK_MISMATCH")]
      <4>1. PICK record : record = Returned(call[u], "REFUSED", "READBACK_MISMATCH")
        OBVIOUS
      <4> QED BY <1>4, <1>5, <3>1, <4>1
    <3>2. CASE call' = [call EXCEPT ![u] = [Returned(@, "WRITTEN", None) EXCEPT !.durable = Durable(call[u])]]
      <4>1. PICK base : base = Returned(call[u], "WRITTEN", None)
        OBVIOUS
      <4>2. base.committed = call[u].committed /\ DOMAIN base = DOMAIN call[u]
        BY <1>1, <4>1 DEF Returned, Calls
      <4>3. PICK record : record = [base EXCEPT !.durable = Durable(call[u])]
        OBVIOUS
      <4>4. record.committed = call[u].committed
        BY <1>1, <4>2, <4>3 DEF Calls
      <4> QED BY <1>4, <3>2, <4>1, <4>3, <4>4
    <3> QED BY <2>1, <3>1, <3>2 DEF Verify, AfterMismatch
  <2>2. CASE Cleanup(u)
    <3>1. PICK base : base = Returned(call[u], "REFUSED", call[u].reason)
      OBVIOUS
    <3>2. PICK error : call' = [call EXCEPT ![u] = [base EXCEPT !.cleanupError = @ \/ error]]
      BY <2>2, <3>1 DEF Cleanup
    <3>3. PICK record : record = [base EXCEPT !.cleanupError = @ \/ error]
      OBVIOUS
    <3>4. base.committed = call[u].committed /\ DOMAIN base = DOMAIN call[u]
      BY <1>1, <3>1 DEF Returned, Calls
    <3>5. record.committed = call[u].committed
      BY <1>1, <3>3, <3>4 DEF Calls
    <3> QED BY <1>4, <3>2, <3>3, <3>5
  <2> QED BY <1>11, <2>1, <2>2
<1>12. CASE PowerLoss
  <2>1. \A u \in Attempts : call'[u] = IF Running(u) THEN [call[u] EXCEPT !.at = "dead"] ELSE call[u]
    BY <1>12 DEF PowerLoss
  <2>2. Kept
    BY <1>1, <2>1 DEF Calls
  <2> QED BY <2>2
<1>13. ASSUME NEW u \in Attempts, Rename(u), u # t PROVE Kept \/ call'[t] = call[t]
  BY <1>3, <1>13 DEF Rename, IInv, StoreTypes
<1>14. ASSUME Rename(t) PROVE path' = temp[t]
  BY <1>3, <1>14 DEF Rename
<1>15. CASE UNCHANGED vars
  BY <1>15 DEF vars
<1> QED BY <1>6, <1>7, <1>8, <1>9, <1>10, <1>11, <1>12, <1>13, <1>14, <1>15 DEF Next, Step

(***************************************************************************)
(* A host that makes one call at a time replaces no journal it did not     *)
(* name by its digest.                                                     *)
(***************************************************************************)
THEOREM OnlyTheExpectedIsReplaced == Spec => ReplacesOnlyExpected
<1>1. ASSUME IInv, [Next]_vars, oneWriter, NEW t \in Attempts, call'[t].committed, ~call[t].committed
      PROVE  IF path = None THEN call[t].expected = None ELSE path.content = call[t].expected
  <2>1. call[t].at = "rename"
    BY <1>1, Commits DEF Rename, At
  <2> QED BY <1>1, <2>1, Alone DEF Active, Before
<1>2. IInv /\ [Next]_vars =>
        [oneWriter => \A t \in Attempts :
           call'[t].committed /\ ~call[t].committed =>
             IF path = None THEN call[t].expected = None ELSE path.content = call[t].expected]_vars
  BY <1>1
<1> QED BY <1>2, Invariant, PTL DEF Spec, ReplacesOnlyExpected
=============================================================================
