----------------------- MODULE SessionLifecycleProofs ------------------------
(***************************************************************************)
(* Proofs about SessionLifecycle for any number of sessions, ports and     *)
(* callers and any channel capacity.                                       *)
(***************************************************************************)
EXTENDS SessionLifecycle, SequenceTheorems, TLAPS

\* The caller is opening the session csid[c]: nobody else knows the id yet.
Opening(c) == cpc[c] \in {"device", "attach"}

\* The caller works on a session that was attached.
Knowing(c) == cpc[c] \in {"setjoin", "unmap", "signal", "join", "returned", "open"}

CallersInv ==
    /\ \A c \in Callers : Opening(c) =>
          /\ csid[c] \in Sids
          /\ kind[csid[c]] # "none"
          /\ task[csid[c]] = "none"
          /\ \A d \in Callers : Opening(d) /\ csid[d] = csid[c] => c = d
    /\ \A c \in Callers : cpc[c] = "device" =>
          worker[csid[c]] = "opening" /\ kind[csid[c]] = "serial"
    /\ \A c \in Callers : Knowing(c) => csid[c] \in Sids /\ task[csid[c]] # "none"
    /\ \A c \in Callers : cpc[c] = "signal" => csid[c] \notin sessions

\* Every id is fresh, being opened, mapped, or on its way out.
SessionsInv ==
    \A s \in Sids :
        /\ kind[s] = "none" => task[s] = "none" /\ worker[s] = "none" /\ s \notin sessions
        /\ kind[s] # "none" /\ task[s] = "none" =>
              \E c \in Callers : Opening(c) /\ csid[c] = s
        /\ task[s] = "none" => s \notin sessions
        /\ task[s] # "none" =>
              \/ s \in sessions
              \/ closeSig[s]
              \/ \E c \in Callers : cpc[c] = "signal" /\ csid[c] = s
        /\ worker[s] = "opening" => \E c \in Callers : cpc[c] = "device" /\ csid[c] = s

\* Who leases a port, and until when.
LeaseInv ==
    /\ \A p \in Ports, s \in Sids : owner[p] = s =>
          kind[s] = "serial" /\ worker[s] \in {"opening", "running", "releasing"}
    /\ \A p, q \in Ports : owner[p] = owner[q] /\ owner[p] # NoSid => p = q

\* A caller that holds the join handle waits until the worker has ended.
JoinInv ==
    \A c \in Callers :
        /\ cpc[c] \in {"idle", "unmap"} => ~cjoins[c]
        /\ cjoins[c] /\ cpc[c] \in {"open", "returned"} => worker[csid[c]] = "ended"

\* "dropped" is the last thing the ingest task says.
ToldInv ==
    /\ ToldOnce
    /\ \A s \in Sids : Said(s, "dropped") => task[s] = "done"

IInv == CallersInv /\ SessionsInv /\ LeaseInv /\ JoinInv /\ ToldInv
-----------------------------------------------------------------------------
\* Saying something new: what an Append to told does to Said and ToldOnce.
LEMMA AppendSays ==
    ASSUME TypeOK, NEW s \in Sids, NEW e \in Reasons,
           told'[s] = Append(told[s], e), ~Said(s, e),
           \A i, j \in 1 .. Len(told[s]) : told[s][i] = told[s][j] => i = j
    PROVE  /\ \A r \in Reasons : Said(s, r)' <=> (Said(s, r) \/ r = e)
           /\ \A i, j \in 1 .. Len(told'[s]) : told'[s][i] = told'[s][j] => i = j
<1> DEFINE old == told[s]
           new == told'[s]
<1>1. old \in Seq(Reasons) /\ Len(old) \in Nat
  BY DEF TypeOK
<1>2. /\ Len(new) = Len(old) + 1
      /\ \A i \in 1 .. Len(old) : new[i] = old[i]
      /\ new[Len(old) + 1] = e
  BY <1>1
<1>3. \A i \in 1 .. Len(old) : old[i] # e
  BY DEF Said
<1>4. \A r \in Reasons : Said(s, r)' <=> (Said(s, r) \/ r = e)
  <2> SUFFICES ASSUME NEW r \in Reasons PROVE Said(s, r)' <=> (Said(s, r) \/ r = e)
    OBVIOUS
  <2>1. ASSUME Said(s, r)' PROVE Said(s, r) \/ r = e
    <3>1. PICK i \in 1 .. Len(new) : new[i] = r
      BY <2>1 DEF Said
    <3>2. CASE i = Len(old) + 1
      BY <1>2, <3>1, <3>2
    <3>3. CASE i \in 1 .. Len(old)
      BY <1>2, <3>1, <3>3 DEF Said
    <3> QED BY <1>1, <1>2, <3>1, <3>2, <3>3
  <2>2. ASSUME Said(s, r) PROVE Said(s, r)'
    <3>1. PICK i \in 1 .. Len(old) : old[i] = r
      BY <2>2 DEF Said
    <3>2. i \in 1 .. Len(new) /\ new[i] = r
      BY <1>1, <1>2, <3>1
    <3> QED BY <3>2 DEF Said
  <2>3. ASSUME r = e PROVE Said(s, r)'
    BY <1>1, <1>2, <2>3 DEF Said
  <2> QED BY <2>1, <2>2, <2>3
<1>5. \A i, j \in 1 .. Len(new) : new[i] = new[j] => i = j
  BY <1>1, <1>2, <1>3
<1> QED BY <1>4, <1>5

-----------------------------------------------------------------------------
(* One lemma for each step of a caller: it keeps every conjunct of the      *)
(* invariant.                                                               *)

LEMMA OpenPtyKeeps ==
    ASSUME TypeOK, IInv, NEW c \in Callers, NEW s \in Sids, OpenPty(c, s)
    PROVE  TypeOK' /\ IInv'
<1> USE SidsAssumption DEF IInv, TypeOK, Goto, Answer, workerVars, leaseVars, taskVars, Begin, MayOpen, OpenPty, Kinds
<1>1. TypeOK'
  BY DEF CallersInv, Opening, Knowing, Reasons
<1>2. CallersInv'
  BY DEF CallersInv, SessionsInv, Opening, Knowing
<1>3. SessionsInv'
  BY SMTT(40) DEF CallersInv, SessionsInv, Opening, Knowing
<1>4. LeaseInv'
  BY DEF CallersInv, SessionsInv, LeaseInv, Opening
<1>5. JoinInv'
  BY DEF CallersInv, SessionsInv, JoinInv, Opening, Knowing
<1>6. ToldInv'
  BY SMTT(40) DEF ToldInv, ToldOnce, Said
<1> QED BY <1>1, <1>2, <1>3, <1>4, <1>5, <1>6

LEMMA OpenQuietKeeps ==
    ASSUME TypeOK, IInv, NEW c \in Callers, NEW s \in Sids, OpenQuiet(c, s)
    PROVE  TypeOK' /\ IInv'
<1> USE SidsAssumption DEF IInv, TypeOK, Goto, Answer, workerVars, leaseVars, taskVars, Begin, MayOpen, OpenQuiet, Kinds
<1>1. TypeOK'
  BY DEF CallersInv, Opening, Knowing, Reasons
<1>2. CallersInv'
  BY DEF CallersInv, SessionsInv, Opening, Knowing
<1>3. SessionsInv'
  BY SMTT(40) DEF CallersInv, SessionsInv, Opening, Knowing
<1>4. LeaseInv'
  BY DEF CallersInv, SessionsInv, LeaseInv, Opening
<1>5. JoinInv'
  BY DEF CallersInv, SessionsInv, JoinInv, Opening, Knowing
<1>6. ToldInv'
  BY SMTT(40) DEF ToldInv, ToldOnce, Said
<1> QED BY <1>1, <1>2, <1>3, <1>4, <1>5, <1>6

LEMMA OpenSerialKeeps ==
    ASSUME TypeOK, IInv, NEW c \in Callers, NEW s \in Sids, NEW p \in Ports, OpenSerial(c, s, p)
    PROVE  TypeOK' /\ IInv'
<1> USE SidsAssumption DEF IInv, TypeOK, Goto, Answer, workerVars, leaseVars, taskVars, Begin, MayOpen, OpenSerial, Lease!Acquire, Lease!Leases, Kinds
<1>1. TypeOK'
  BY DEF CallersInv, Opening, Knowing, Reasons
<1>2. CallersInv'
  BY DEF CallersInv, SessionsInv, Opening, Knowing
<1>3. SessionsInv'
  BY SMTT(40) DEF CallersInv, SessionsInv, Opening, Knowing
<1>4. LeaseInv'
  BY SMTT(40) DEF CallersInv, SessionsInv, LeaseInv, Opening
<1>5. JoinInv'
  BY DEF CallersInv, SessionsInv, JoinInv, Opening, Knowing
<1>6. ToldInv'
  BY SMTT(40) DEF ToldInv, ToldOnce, Said
<1> QED BY <1>1, <1>2, <1>3, <1>4, <1>5, <1>6

LEMMA DeviceOpensKeeps ==
    ASSUME TypeOK, IInv, NEW c \in Callers, DeviceOpens(c)
    PROVE  TypeOK' /\ IInv'
<1> USE SidsAssumption DEF IInv, TypeOK, Goto, Answer, workerVars, leaseVars, taskVars, DeviceOpens, Lease!StartUse, Lease!Leases
<1>1. TypeOK'
  BY DEF CallersInv, Opening, Knowing, Reasons
<1>2. CallersInv'
  BY DEF CallersInv, SessionsInv, Opening, Knowing
<1>3. SessionsInv'
  BY DEF CallersInv, SessionsInv, Opening, Knowing
<1>4. LeaseInv'
  BY DEF CallersInv, SessionsInv, LeaseInv, Opening
<1>5. JoinInv'
  BY DEF CallersInv, SessionsInv, JoinInv, Opening, Knowing
<1>6. ToldInv'
  BY DEF ToldInv, ToldOnce, Said
<1> QED BY <1>1, <1>2, <1>3, <1>4, <1>5, <1>6

LEMMA DeviceFailsKeeps ==
    ASSUME TypeOK, IInv, NEW c \in Callers, DeviceFails(c)
    PROVE  TypeOK' /\ IInv'
<1> USE SidsAssumption DEF IInv, TypeOK, Goto, Answer, workerVars, leaseVars, taskVars, DeviceFails, Lease!Release
<1>1. TypeOK'
  BY DEF CallersInv, Opening, Knowing, Reasons
<1>2. CallersInv'
  BY DEF CallersInv, SessionsInv, Opening, Knowing
<1>3. SessionsInv'
  BY DEF CallersInv, SessionsInv, Opening, Knowing
<1>4. LeaseInv'
  BY DEF CallersInv, SessionsInv, LeaseInv, Opening
<1>5. JoinInv'
  BY DEF CallersInv, SessionsInv, JoinInv, Opening, Knowing
<1>6. ToldInv'
  BY DEF ToldInv, ToldOnce, Said
<1> QED BY <1>1, <1>2, <1>3, <1>4, <1>5, <1>6

LEMMA ReopenFailsKeeps ==
    ASSUME TypeOK, IInv, NEW c \in Callers, ReopenFails(c)
    PROVE  TypeOK' /\ IInv'
<1> USE SidsAssumption DEF IInv, TypeOK, Goto, Answer, workerVars, leaseVars, taskVars, ReopenFails
<1>1. TypeOK'
  BY DEF CallersInv, Opening, Knowing, Reasons
<1>2. CallersInv'
  BY DEF CallersInv, SessionsInv, Opening, Knowing
<1>3. SessionsInv'
  BY DEF CallersInv, SessionsInv, Opening, Knowing
<1>4. LeaseInv'
  BY DEF CallersInv, SessionsInv, LeaseInv, Opening
<1>5. JoinInv'
  BY DEF CallersInv, SessionsInv, JoinInv, Opening, Knowing
<1>6. ToldInv'
  BY DEF ToldInv, ToldOnce, Said
<1> QED BY <1>1, <1>2, <1>3, <1>4, <1>5, <1>6

LEMMA AttachKeeps ==
    ASSUME TypeOK, IInv, NEW c \in Callers, Attach(c)
    PROVE  TypeOK' /\ IInv'
<1> USE SidsAssumption
<1> DEFINE t == csid[c]
<1>a. t \in Sids /\ Opening(c) /\ kind[t] # "none" /\ task[t] = "none" /\ worker[t] # "opening"
  BY DEF Attach, IInv, CallersInv, SessionsInv, Opening
<1>b. /\ sessions' = sessions \cup {t} /\ task' = [task EXCEPT ![t] = "loop"]
      /\ UNCHANGED <<kind, join, closeSig, worker, sent, owner, using, pos, pending, shown, told>>
  BY DEF Attach, workerVars, leaseVars
<1>c. /\ \A d \in Callers : d # c => cpc'[d] = cpc[d] /\ csid'[d] = csid[d] /\ cjoins'[d] = cjoins[d]
      /\ cpc'[c] \in {"setjoin", "idle"} /\ csid'[c] \in {t, NoSid}
      /\ cpc'[c] = "setjoin" => csid'[c] = t
      /\ cpc'[c] = "idle" => ~cjoins'[c]
  BY DEF Attach, Goto, Answer, TypeOK
<1>d. \A d \in Callers : d # c =>
        (Opening(d)' <=> Opening(d)) /\ (Knowing(d)' <=> Knowing(d)) /\ (Opening(d) => csid[d] # t)
  BY <1>a, <1>c DEF IInv, CallersInv, Opening, Knowing
<1>e. ~Opening(c)'
  BY <1>c DEF Opening
<1>1. TypeOK'
  <2>1. /\ cpc' \in [Callers -> {"idle", "device", "attach", "setjoin", "unmap",
                                 "signal", "join", "returned", "open"}]
        /\ csid' \in [Callers -> Sids \cup {NoSid}]
        /\ cjoins' \in [Callers -> BOOLEAN] /\ creopen' \in [Callers -> BOOLEAN]
    BY ZenonT(60) DEF Attach, Goto, Answer, TypeOK
  <2> QED BY <1>a, <1>b, <2>1 DEF TypeOK
<1>2. CallersInv'
  <2>1. \A s \in Sids : (task'[s] = "none" => task[s] = "none")
        /\ (s # t => task'[s] = task[s] /\ (s \in sessions' <=> s \in sessions))
    BY <1>a, <1>b DEF TypeOK
  <2>2. task'[t] # "none"
    BY <1>a, <1>b DEF TypeOK
  <2>3. \A d \in Callers : Opening(d)' => d # c /\ Opening(d) /\ csid'[d] = csid[d] /\ csid[d] # t
    BY <1>c, <1>d, <1>e
  <2>4. \A d \in Callers : cpc'[d] \in {"device", "signal"} =>
           d # c /\ cpc[d] = cpc'[d] /\ csid'[d] = csid[d] /\ csid[d] # t
    BY <1>a, <1>c, <1>d DEF IInv, CallersInv, Opening, Knowing
  <2>5. \A d \in Callers : Knowing(d)' => csid'[d] \in Sids /\ task'[csid'[d]] # "none"
    BY <1>a, <1>c, <1>d, <2>1, <2>2 DEF IInv, CallersInv, Knowing
  <2> QED BY <1>b, <2>1, <2>3, <2>4, <2>5 DEF IInv, CallersInv, Opening
<1>3. SessionsInv'
  <2>1. ASSUME NEW s \in Sids, s # t
        PROVE  task'[s] = task[s] /\ (s \in sessions' <=> s \in sessions)
    BY <1>a, <1>b, <2>1 DEF TypeOK
  <2>2. ASSUME NEW s \in Sids, NEW d \in Callers, csid[d] = s, s # t,
               Opening(d) \/ cpc[d] = "signal"
        PROVE  d # c /\ csid'[d] = s /\ cpc'[d] = cpc[d] /\ (Opening(d)' <=> Opening(d))
    BY <1>c, <1>d, <2>2
  <2>3. task'[t] = "loop" /\ t \in sessions'
    BY <1>a, <1>b DEF TypeOK
  <2>4. ASSUME NEW d \in Callers, cpc[d] = "device", csid[d] # t
        PROVE  cpc'[d] = "device" /\ csid'[d] = csid[d]
    BY <1>c, <2>4
  <2> QED BY <1>a, <1>b, <2>1, <2>2, <2>3, <2>4 DEF IInv, SessionsInv
<1>4. LeaseInv'
  BY <1>b DEF IInv, LeaseInv
<1>5. JoinInv'
  BY <1>b, <1>c DEF IInv, JoinInv
<1>6. ToldInv'
  <2>1. ~Said(t, "closed") /\ ~Said(t, "dropped")
    BY <1>a DEF IInv, ToldInv, ToldOnce
  <2> QED BY SMTT(40), <1>a, <1>b, <2>1 DEF IInv, ToldInv, ToldOnce, Said, TypeOK
<1> QED BY <1>1, <1>2, <1>3, <1>4, <1>5, <1>6 DEF IInv

LEMMA SetJoinKeeps ==
    ASSUME TypeOK, IInv, NEW c \in Callers, SetJoin(c)
    PROVE  TypeOK' /\ IInv'
<1> USE SidsAssumption DEF IInv, TypeOK, Goto, Answer, workerVars, leaseVars, taskVars, SetJoin
<1>1. TypeOK'
  BY DEF CallersInv, Opening, Knowing, Reasons
<1>2. CallersInv'
  BY DEF CallersInv, SessionsInv, Opening, Knowing
<1>3. SessionsInv'
  BY DEF CallersInv, SessionsInv, Opening, Knowing
<1>4. LeaseInv'
  BY DEF CallersInv, SessionsInv, LeaseInv, Opening
<1>5. JoinInv'
  BY DEF CallersInv, SessionsInv, JoinInv, Opening, Knowing
<1>6. ToldInv'
  BY DEF ToldInv, ToldOnce, Said
<1> QED BY <1>1, <1>2, <1>3, <1>4, <1>5, <1>6

LEMMA CloseKeeps ==
    ASSUME TypeOK, IInv, NEW c \in Callers, NEW s \in Sids, Close(c, s)
    PROVE  TypeOK' /\ IInv'
<1> USE SidsAssumption DEF IInv, TypeOK, Goto, Answer, workerVars, leaseVars, taskVars, Close
<1>1. TypeOK'
  BY DEF CallersInv, Opening, Knowing, Reasons
<1>2. CallersInv'
  BY DEF CallersInv, SessionsInv, Opening, Knowing
<1>3. SessionsInv'
  BY DEF CallersInv, SessionsInv, Opening, Knowing
<1>4. LeaseInv'
  BY DEF CallersInv, SessionsInv, LeaseInv, Opening
<1>5. JoinInv'
  BY DEF CallersInv, SessionsInv, JoinInv, Opening, Knowing
<1>6. ToldInv'
  BY SMTT(40) DEF ToldInv, ToldOnce, Said
<1> QED BY <1>1, <1>2, <1>3, <1>4, <1>5, <1>6

LEMMA ReconnectKeeps ==
    ASSUME TypeOK, IInv, NEW c \in Callers, NEW s \in Sids, Reconnect(c, s)
    PROVE  TypeOK' /\ IInv'
<1> USE SidsAssumption DEF IInv, TypeOK, Goto, Answer, workerVars, leaseVars, taskVars, Reconnect
<1>1. TypeOK'
  BY DEF CallersInv, Opening, Knowing, Reasons
<1>2. CallersInv'
  BY DEF CallersInv, SessionsInv, Opening, Knowing
<1>3. SessionsInv'
  BY DEF CallersInv, SessionsInv, Opening, Knowing
<1>4. LeaseInv'
  BY DEF CallersInv, SessionsInv, LeaseInv, Opening
<1>5. JoinInv'
  BY DEF CallersInv, SessionsInv, JoinInv, Opening, Knowing
<1>6. ToldInv'
  BY SMTT(40) DEF ToldInv, ToldOnce, Said
<1> QED BY <1>1, <1>2, <1>3, <1>4, <1>5, <1>6

LEMMA UnmapKeeps ==
    ASSUME TypeOK, IInv, NEW c \in Callers, Unmap(c)
    PROVE  TypeOK' /\ IInv'
<1> USE SidsAssumption DEF IInv, TypeOK, Goto, Answer, workerVars, leaseVars, taskVars, Unmap
<1>1. TypeOK'
  BY DEF CallersInv, Opening, Knowing, Reasons
<1>2. CallersInv'
  BY DEF CallersInv, SessionsInv, Opening, Knowing
<1>3. SessionsInv'
  BY DEF CallersInv, SessionsInv, Opening, Knowing
<1>4. LeaseInv'
  BY DEF CallersInv, SessionsInv, LeaseInv, Opening
<1>5. JoinInv'
  BY DEF CallersInv, SessionsInv, JoinInv, Opening, Knowing
<1>6. ToldInv'
  <2>1. csid[c] \in Sids /\ task[csid[c]] # "none" /\ csid[c] \in sessions
    BY DEF CallersInv, Knowing
  <2>2. /\ \A r \in Reasons : Said(csid[c], r)' <=> (Said(csid[c], r) \/ r = "closed")
        /\ \A i, j \in 1 .. Len(told'[csid[c]]) : told'[csid[c]][i] = told'[csid[c]][j] => i = j
    <3>1. ~Said(csid[c], "closed")
      BY <2>1 DEF ToldInv, ToldOnce
    <3>2. \A i, j \in 1 .. Len(told[csid[c]]) : told[csid[c]][i] = told[csid[c]][j] => i = j
      BY <2>1 DEF ToldInv, ToldOnce
    <3>3. told'[csid[c]] = Append(told[csid[c]], "closed")
      BY <2>1
    <3>4. TypeOK /\ "closed" \in Reasons
      BY DEF Reasons
    <3> QED BY Zenon, <2>1, <3>1, <3>2, <3>3, <3>4, AppendSays
  <2>3. \A s \in Sids : s # csid[c] => told'[s] = told[s] /\ (s \in sessions' <=> s \in sessions)
    OBVIOUS
  <2> QED BY SMTT(40), <2>1, <2>2, <2>3 DEF ToldInv, ToldOnce, Said, Reasons
<1> QED BY <1>1, <1>2, <1>3, <1>4, <1>5, <1>6

LEMMA UnmapNothingKeeps ==
    ASSUME TypeOK, IInv, NEW c \in Callers, UnmapNothing(c)
    PROVE  TypeOK' /\ IInv'
<1> USE SidsAssumption DEF IInv, TypeOK, Goto, Answer, workerVars, leaseVars, taskVars, UnmapNothing, AfterClose
<1>1. TypeOK'
  BY DEF CallersInv, Opening, Knowing, Reasons
<1>2. CallersInv'
  BY DEF CallersInv, SessionsInv, Opening, Knowing
<1>3. SessionsInv'
  BY DEF CallersInv, SessionsInv, Opening, Knowing
<1>4. LeaseInv'
  BY DEF CallersInv, SessionsInv, LeaseInv, Opening
<1>5. JoinInv'
  BY DEF CallersInv, SessionsInv, JoinInv, Opening, Knowing
<1>6. ToldInv'
  BY DEF ToldInv, ToldOnce, Said
<1> QED BY <1>1, <1>2, <1>3, <1>4, <1>5, <1>6

LEMMA SignalKeeps ==
    ASSUME TypeOK, IInv, NEW c \in Callers, Signal(c)
    PROVE  TypeOK' /\ IInv'
<1> USE SidsAssumption DEF IInv, TypeOK, Goto, Answer, workerVars, leaseVars, taskVars, Signal, AfterClose
<1>1. TypeOK'
  BY DEF CallersInv, Opening, Knowing, Reasons
<1>2. CallersInv'
  BY DEF CallersInv, SessionsInv, Opening, Knowing
<1>3. SessionsInv'
  BY DEF CallersInv, SessionsInv, Opening, Knowing
<1>4. LeaseInv'
  BY DEF CallersInv, SessionsInv, LeaseInv, Opening
<1>5. JoinInv'
  BY DEF CallersInv, SessionsInv, JoinInv, Opening, Knowing
<1>6. ToldInv'
  BY DEF ToldInv, ToldOnce, Said
<1> QED BY <1>1, <1>2, <1>3, <1>4, <1>5, <1>6

LEMMA JoinWorkerKeeps ==
    ASSUME TypeOK, IInv, NEW c \in Callers, JoinWorker(c)
    PROVE  TypeOK' /\ IInv'
<1> USE SidsAssumption DEF IInv, TypeOK, Goto, Answer, workerVars, leaseVars, taskVars, JoinWorker, AfterClose
<1>1. TypeOK'
  BY DEF CallersInv, Opening, Knowing, Reasons
<1>2. CallersInv'
  BY DEF CallersInv, SessionsInv, Opening, Knowing
<1>3. SessionsInv'
  BY DEF CallersInv, SessionsInv, Opening, Knowing
<1>4. LeaseInv'
  BY DEF CallersInv, SessionsInv, LeaseInv, Opening
<1>5. JoinInv'
  BY DEF CallersInv, SessionsInv, JoinInv, Opening, Knowing
<1>6. ToldInv'
  BY DEF ToldInv, ToldOnce, Said
<1> QED BY <1>1, <1>2, <1>3, <1>4, <1>5, <1>6

LEMMA ReturnKeeps ==
    ASSUME TypeOK, IInv, NEW c \in Callers, Return(c)
    PROVE  TypeOK' /\ IInv'
<1> USE SidsAssumption DEF IInv, TypeOK, Goto, Answer, workerVars, leaseVars, taskVars, Return
<1>1. TypeOK'
  BY DEF CallersInv, Opening, Knowing, Reasons
<1>2. CallersInv'
  BY DEF CallersInv, SessionsInv, Opening, Knowing
<1>3. SessionsInv'
  BY DEF CallersInv, SessionsInv, Opening, Knowing
<1>4. LeaseInv'
  BY DEF CallersInv, SessionsInv, LeaseInv, Opening
<1>5. JoinInv'
  BY DEF CallersInv, SessionsInv, JoinInv, Opening, Knowing
<1>6. ToldInv'
  BY DEF ToldInv, ToldOnce, Said
<1> QED BY <1>1, <1>2, <1>3, <1>4, <1>5, <1>6
-----------------------------------------------------------------------------
(* The steps of the worker.                                                *)

LEMMA ProduceKeeps ==
    ASSUME TypeOK, IInv, NEW s \in Sids, Produce(s)
    PROVE  TypeOK' /\ IInv'
<1> USE SidsAssumption, RingAssumption DEF IInv, TypeOK, leaseVars, taskVars, callVars, Produce
<1>1. TypeOK'
  OBVIOUS
<1>2. CallersInv'
  BY DEF CallersInv, Opening, Knowing
<1>3. SessionsInv'
  BY SMTT(40) DEF SessionsInv, Opening
<1>4. LeaseInv'
  BY DEF LeaseInv
<1>5. JoinInv'
  BY DEF CallersInv, JoinInv, Knowing
<1>6. ToldInv'
  BY SMTT(40) DEF ToldInv, ToldOnce, Said
<1> QED BY <1>1, <1>2, <1>3, <1>4, <1>5, <1>6

LEMMA PtyEofKeeps ==
    ASSUME TypeOK, IInv, NEW s \in Sids, PtyEof(s)
    PROVE  TypeOK' /\ IInv'
<1> USE SidsAssumption, RingAssumption DEF IInv, TypeOK, leaseVars, taskVars, callVars, PtyEof
<1>1. TypeOK'
  OBVIOUS
<1>2. CallersInv'
  BY DEF CallersInv, Opening, Knowing
<1>3. SessionsInv'
  BY DEF SessionsInv, Opening
<1>4. LeaseInv'
  BY DEF LeaseInv
<1>5. JoinInv'
  BY DEF CallersInv, JoinInv, Knowing
<1>6. ToldInv'
  BY SMTT(40) DEF ToldInv, ToldOnce, Said
<1> QED BY <1>1, <1>2, <1>3, <1>4, <1>5, <1>6

LEMMA WorkerStopsKeeps ==
    ASSUME TypeOK, IInv, NEW s \in Sids, WorkerStops(s)
    PROVE  TypeOK' /\ IInv'
<1> USE SidsAssumption, RingAssumption DEF IInv, TypeOK, leaseVars, taskVars, callVars, WorkerStops, Lease!StopUse
<1>1. TypeOK'
  OBVIOUS
<1>2. CallersInv'
  BY DEF CallersInv, Opening, Knowing
<1>3. SessionsInv'
  BY DEF SessionsInv, Opening
<1>4. LeaseInv'
  BY DEF LeaseInv
<1>5. JoinInv'
  BY DEF CallersInv, JoinInv, Knowing
<1>6. ToldInv'
  BY SMTT(40) DEF ToldInv, ToldOnce, Said
<1> QED BY <1>1, <1>2, <1>3, <1>4, <1>5, <1>6

LEMMA WorkerReleasesKeeps ==
    ASSUME TypeOK, IInv, NEW s \in Sids, WorkerReleases(s)
    PROVE  TypeOK' /\ IInv'
<1> USE SidsAssumption, RingAssumption DEF IInv, TypeOK, leaseVars, taskVars, callVars, WorkerReleases, Lease!Release
<1>1. TypeOK'
  OBVIOUS
<1>2. CallersInv'
  BY DEF CallersInv, Opening, Knowing
<1>3. SessionsInv'
  BY DEF SessionsInv, Opening
<1>4. LeaseInv'
  BY DEF LeaseInv
<1>5. JoinInv'
  BY DEF CallersInv, JoinInv, Knowing
<1>6. ToldInv'
  BY SMTT(40) DEF ToldInv, ToldOnce, Said
<1> QED BY <1>1, <1>2, <1>3, <1>4, <1>5, <1>6

-----------------------------------------------------------------------------
(* The steps of the ingest task: they change its own variables and, in the
   last one, told.                                                          *)

\* A step of a running task that keeps the callers, the map and the worker.
LEMMA TaskKeeps ==
    ASSUME TypeOK, IInv, NEW s \in Sids, NEW l \in {"loop", "drain", "final", "decide", "tell", "done"},
           task[s] \notin {"none", "done"}, task' = [task EXCEPT ![s] = l], TaskOnly
    PROVE  CallersInv' /\ SessionsInv' /\ LeaseInv' /\ JoinInv'
<1> USE DEF IInv, TypeOK, TaskOnly, workerVars, leaseVars, callVars
<1>1. CallersInv'
  BY SMTT(40) DEF CallersInv, Opening, Knowing
<1>2. SessionsInv'
  BY DEF SessionsInv, Opening
<1>3. LeaseInv'
  BY DEF LeaseInv
<1>4. JoinInv'
  BY DEF JoinInv
<1> QED BY <1>1, <1>2, <1>3, <1>4

\* What taking a chunk does, from the loop or from the drain.
LEMMA IngestMoves ==
    ASSUME NEW s \in Sids, Recv(s) \/ Drain(s)
    PROVE  /\ pos' = [pos EXCEPT ![s] = @ + 1]
           /\ \/ pending' = [pending EXCEPT ![s] = Append(@, pos[s] + 1)]
              \/ pending' = pending
           /\ \/ task' = [task EXCEPT ![s] = "drain"]
              \/ task' = [task EXCEPT ![s] = "final"]
           /\ UNCHANGED <<shown, told>>
           /\ TaskOnly
<1>1. Ingest(s, "drain")
  BY DEF Recv, Drain
<1> QED BY <1>1 DEF Ingest, TaskGoto

LEMMA IngestTypes ==
    ASSUME TypeOK, NEW s \in Sids, Recv(s) \/ Drain(s)
    PROVE  /\ pos' \in [Sids -> 0 .. MaxChunks]
           /\ pending' \in [Sids -> Seq(1 .. MaxChunks)]
           /\ task' \in [Sids -> {"none", "loop", "drain", "final", "decide", "tell", "done"}]
<1>1. /\ pos \in [Sids -> 0 .. MaxChunks] /\ sent[s] \in 0 .. MaxChunks
      /\ pending \in [Sids -> Seq(1 .. MaxChunks)]
      /\ task \in [Sids -> {"none", "loop", "drain", "final", "decide", "tell", "done"}]
  BY DEF TypeOK
<1>2. pos[s] < sent[s]
  BY DEF Recv, Drain
<1>3. pos[s] + 1 \in 0 .. MaxChunks /\ pos[s] + 1 \in 1 .. MaxChunks
  BY <1>1, <1>2, RingAssumption
<1>4. Append(pending[s], pos[s] + 1) \in Seq(1 .. MaxChunks)
  BY <1>1, <1>3
<1>5. pos' = [pos EXCEPT ![s] = pos[s] + 1]
  BY IngestMoves
<1>6. pending' = [pending EXCEPT ![s] = Append(pending[s], pos[s] + 1)] \/ pending' = pending
  BY IngestMoves
<1>7. task' = [task EXCEPT ![s] = "drain"] \/ task' = [task EXCEPT ![s] = "final"]
  BY IngestMoves
<1>8. pos' \in [Sids -> 0 .. MaxChunks]
  BY <1>1, <1>3, <1>5
<1>9. pending' \in [Sids -> Seq(1 .. MaxChunks)]
  BY <1>1, <1>4, <1>6
<1>10. task' \in [Sids -> {"none", "loop", "drain", "final", "decide", "tell", "done"}]
  BY <1>1, <1>7
<1> QED BY <1>8, <1>9, <1>10

\* Only the last step of the task announces anything.
LEMMA OthersSayNothing ==
    ASSUME NEW s \in Sids, TaskStep(s), ~TellDropped(s)
    PROVE  told' = told
<1>1. CASE Recv(s) \/ Drain(s)
  BY <1>1, IngestMoves
<1>2. CASE RecvErr(s) \/ DrainEnd(s)
  BY <1>2 DEF RecvErr, DrainEnd
<1>3. CASE Tick(s) \/ FinalFlush(s) \/ DecideDropped(s)
  BY <1>3 DEF Tick, FinalFlush, DecideDropped
<1> QED BY <1>1, <1>2, <1>3 DEF TaskStep

\* The receiver's position and the two buffers stay in their types.
LEMMA TaskTypes ==
    ASSUME TypeOK, NEW s \in Sids, TaskStep(s)
    PROVE  TypeOK'
<1> USE RingAssumption DEF TypeOK, TaskOnly, TaskGoto, KeepOutput, workerVars, leaseVars, callVars
<1>1. CASE Recv(s) \/ Drain(s)
  BY ZenonT(60), <1>1, IngestMoves, IngestTypes
<1>2. CASE RecvErr(s)
  BY <1>2 DEF RecvErr
<1>3. ASSUME Flush(s) PROVE shown' \in [Sids -> Seq(1 .. MaxChunks)] /\ pending' \in [Sids -> Seq(1 .. MaxChunks)]
  BY <1>3 DEF Flush
<1>4. CASE DrainEnd(s)
  <2>1. pos' \in [Sids -> 0 .. MaxChunks]
    BY SMTT(40), <1>4 DEF DrainEnd, Lagged
  <2>2. shown' \in [Sids -> Seq(1 .. MaxChunks)] /\ pending' \in [Sids -> Seq(1 .. MaxChunks)]
    BY <1>3, <1>4 DEF DrainEnd, FlushOrKeep
  <2> QED BY <1>4, <2>1, <2>2 DEF DrainEnd
<1>5. CASE Tick(s)
  BY <1>3, <1>5 DEF Tick
<1>6. CASE FinalFlush(s)
  BY <1>3, <1>6 DEF FinalFlush
<1>7. CASE DecideDropped(s)
  BY <1>7 DEF DecideDropped
<1>8. CASE TellDropped(s)
  BY <1>8 DEF TellDropped, Reasons
<1> QED BY <1>1, <1>2, <1>4, <1>5, <1>6, <1>7, <1>8 DEF TaskStep

LEMMA TaskStepKeeps ==
    ASSUME TypeOK, IInv, NEW s \in Sids, TaskStep(s)
    PROVE  TypeOK' /\ IInv'
<1>1. TypeOK'
  BY TaskTypes
<1>2. /\ task[s] \notin {"none", "done"}
      /\ \E l \in {"loop", "drain", "final", "decide", "tell", "done"} : task' = [task EXCEPT ![s] = l]
      /\ TaskOnly
  <2> USE DEF TaskGoto
  <2>1. CASE Recv(s) \/ Drain(s)
    BY <2>1, IngestMoves DEF Recv, Drain
  <2>2. CASE RecvErr(s) \/ DrainEnd(s) \/ FinalFlush(s) \/ DecideDropped(s) \/ TellDropped(s)
    BY <2>2 DEF RecvErr, DrainEnd, FinalFlush, DecideDropped, TellDropped
  <2>3. CASE Tick(s)
    BY <2>3 DEF Tick, TypeOK
  <2> QED BY <2>1, <2>2, <2>3 DEF TaskStep
<1>3. CallersInv' /\ SessionsInv' /\ LeaseInv' /\ JoinInv'
  BY <1>2, TaskKeeps
<1>4. ToldInv'
  <2>1. CASE TellDropped(s)
    <3>1. task[s] = "tell" /\ task' = [task EXCEPT ![s] = "done"] /\ sessions' = sessions
      BY <2>1 DEF TellDropped, TaskGoto, TaskOnly
    <3>2. told' = [told EXCEPT ![s] = Append(@, "dropped")]
      BY <2>1 DEF TellDropped
    <3>3. ~Said(s, "dropped")
      BY <3>1 DEF IInv, ToldInv
    <3>4. \A i, j \in 1 .. Len(told[s]) : told[s][i] = told[s][j] => i = j
      BY DEF IInv, ToldInv, ToldOnce
    <3>5. told'[s] = Append(told[s], "dropped")
      BY <3>2 DEF TypeOK
    <3>6. /\ \A r \in Reasons : Said(s, r)' <=> (Said(s, r) \/ r = "dropped")
          /\ \A i, j \in 1 .. Len(told'[s]) : told'[s][i] = told'[s][j] => i = j
      BY <3>3, <3>4, <3>5, AppendSays DEF Reasons
    <3>7. \A q \in Sids : q # s => told'[q] = told[q] /\ task'[q] = task[q]
      BY <3>1, <3>2 DEF TypeOK
    <3>8. task'[s] = "done" /\ task[s] # "none"
      BY <3>1 DEF TypeOK
    <3>9. Said(s, "closed")' <=> Said(s, "closed")
      BY <3>6 DEF Reasons
    <3> QED BY SMTT(40), <3>1, <3>6, <3>7, <3>8, <3>9 DEF IInv, ToldInv, ToldOnce, Said
  <2>2. CASE ~TellDropped(s)
    <3>1. told' = told
      BY <2>2, OthersSayNothing
    <3>2. sessions' = sessions
      BY <1>2 DEF TaskOnly
    <3>3. \A q \in Sids : (task'[q] = "none" <=> task[q] = "none") /\ (task[q] = "done" => task'[q] = "done")
      BY <1>2 DEF TypeOK
    <3> QED BY <3>1, <3>2, <3>3 DEF IInv, ToldInv, ToldOnce, Said
  <2> QED BY <2>1, <2>2
<1> QED BY <1>1, <1>3, <1>4 DEF IInv

-----------------------------------------------------------------------------
(* The theorems.                                                           *)

LEMMA InitHolds == Init => TypeOK /\ IInv
<1> SUFFICES ASSUME Init PROVE TypeOK /\ IInv
  OBVIOUS
<1>1. TypeOK
  BY RingAssumption DEF Init, TypeOK, Lease!LeaseInit
<1>2. IInv
  BY SidsAssumption DEF Init, Lease!LeaseInit, IInv, CallersInv, SessionsInv, LeaseInv, JoinInv,
     ToldInv, ToldOnce, Said, Opening, Knowing
<1> QED BY <1>1, <1>2

LEMMA StepKeeps == TypeOK /\ IInv /\ [Next]_vars => (TypeOK /\ IInv)'
<1> SUFFICES ASSUME TypeOK, IInv, [Next]_vars PROVE (TypeOK /\ IInv)'
  OBVIOUS
<1>1. ASSUME NEW c \in Callers, CallerStep(c) PROVE (TypeOK /\ IInv)'
  BY <1>1, DeviceOpensKeeps, DeviceFailsKeeps, AttachKeeps, SetJoinKeeps, UnmapKeeps,
     UnmapNothingKeeps, SignalKeeps, JoinWorkerKeeps, ReturnKeeps DEF CallerStep
<1>2. ASSUME NEW c \in Callers, Request(c) PROVE (TypeOK /\ IInv)'
  BY <1>2, OpenPtyKeeps, OpenQuietKeeps, OpenSerialKeeps, CloseKeeps, ReconnectKeeps,
     ReopenFailsKeeps DEF Request
<1>3. ASSUME NEW s \in Sids, TaskStep(s) PROVE (TypeOK /\ IInv)'
  BY <1>3, TaskStepKeeps
<1>4. ASSUME NEW s \in Sids, WorkerStep(s) PROVE (TypeOK /\ IInv)'
  BY <1>4, ProduceKeeps, PtyEofKeeps, WorkerStopsKeeps, WorkerReleasesKeeps DEF WorkerStep
<1>5. CASE UNCHANGED vars
  BY <1>5 DEF vars, TypeOK, IInv, CallersInv, SessionsInv, LeaseInv, JoinInv, ToldInv,
     ToldOnce, Said, Opening, Knowing
<1> QED BY <1>1, <1>2, <1>3, <1>4, <1>5 DEF Next

\* The type invariant holds in every behaviour of the sessions.
THEOREM SessionsTypeCorrect == Spec => []TypeOK
BY InitHolds, StepKeeps, PTL DEF Spec

\* The inductive invariant that the properties below follow from.
THEOREM SessionsInvariant == Spec => [](TypeOK /\ IInv)
BY InitHolds, StepKeeps, PTL DEF Spec

(* "closed" is said once and exactly when the session left the map, "dropped"
   at most once, whatever callers and tasks do at the same time.            *)
THEOREM ToldOnceAlways == Spec => []ToldOnce
<1>1. IInv => ToldOnce
  BY DEF IInv, ToldInv
<1> QED BY <1>1, SessionsInvariant, PTL

(* A leased serial port always has a running worker and a session, an opener
   or a closer that can still stop it.                                      *)
THEOREM LeaseIsKept == Spec => []LeaseHasKeeper
<1>1. IInv => LeaseHasKeeper
  <2> SUFFICES ASSUME IInv, NEW p \in Ports, NEW s \in Sids, owner[p] = s
               PROVE  /\ worker[s] \in {"opening", "running", "releasing"}
                      /\ \/ s \in sessions
                         \/ closeSig[s]
                         \/ \E c \in Callers : csid[c] = s /\ cpc[c] \in {"device", "attach", "signal"}
    BY DEF LeaseHasKeeper
  <2>1. kind[s] = "serial" /\ worker[s] \in {"opening", "running", "releasing"}
    BY DEF IInv, LeaseInv
  <2> QED BY <2>1 DEF IInv, SessionsInv, Opening
<1> QED BY <1>1, SessionsInvariant, PTL

(* A close or reconnect that joins the serial worker finds the port free when
   it goes on.                                                              *)
THEOREM JoinAlwaysFreesPort == Spec => []JoinFreesPort
<1>1. TypeOK /\ IInv => JoinFreesPort
  <2> SUFFICES ASSUME TypeOK, IInv, NEW c \in Callers, cjoins[c], cpc[c] \in {"open", "returned"},
                      NEW p \in Ports
               PROVE  owner[p] # csid[c]
    BY DEF JoinFreesPort
  <2>1. csid[c] \in Sids /\ worker[csid[c]] = "ended"
    BY DEF IInv, CallersInv, JoinInv, Knowing
  <2> QED BY <2>1 DEF IInv, LeaseInv
<1> QED BY <1>1, SessionsInvariant, PTL

(* Clients are told what is in the map, in a state of its type, whoever
   closes or reconnects at the same time (close_session, emit_dropped).     *)
THEOREM EventsAlwaysAgree == Spec => []EventsAgree
<1>1. TypeOK /\ ToldOnce => EventsAgree
  BY DEF EventsAgree
<1> QED BY <1>1, SessionsTypeCorrect, ToldOnceAlways, PTL

(* No serial port is lost to an open that failed, a close that came early or
   a reconnect (open_serial, close_session).                                *)
THEOREM PortsAlwaysKept == Spec => []PortsAreKept
<1>1. LeaseHasKeeper /\ JoinFreesPort => PortsAreKept
  BY DEF PortsAreKept
<1> QED BY <1>1, LeaseIsKept, JoinAlwaysFreesPort, PTL
-----------------------------------------------------------------------------
(* Output.                                                                 *)

\* Appending to the second of two sequences appends to both.
LEMMA ConcatAppend ==
    ASSUME NEW S, NEW a \in Seq(S), NEW b \in Seq(S), NEW x \in S
    PROVE  a \o Append(b, x) = Append(a \o b, x)
<1>1. Append(b, x) = b \o <<x>> /\ <<x>> \in Seq(S)
  BY AppendIsConcat
<1>2. a \o b \in Seq(S)
  BY ConcatProperties
<1>3. Append(a \o b, x) = (a \o b) \o <<x>>
  BY <1>2, AppendIsConcat
<1> QED BY <1>1, <1>3, ConcatAssociative

\* A sequence that increases goes on increasing with a new largest element.
LEMMA IncreasingAppend ==
    ASSUME NEW old \in Seq(Nat), NEW x \in Nat,
           \A i, j \in 1 .. Len(old) : i < j => old[i] < old[j],
           \A i \in 1 .. Len(old) : old[i] < x
    PROVE  LET new == Append(old, x)
           IN  /\ \A i, j \in 1 .. Len(new) : i < j => new[i] < new[j]
               /\ \A i \in 1 .. Len(new) : new[i] <= x
<1> DEFINE new == Append(old, x)
<1>1. /\ Len(new) = Len(old) + 1 /\ Len(old) \in Nat
      /\ \A i \in 1 .. Len(old) : new[i] = old[i]
      /\ new[Len(old) + 1] = x
  BY AppendProperties, LenProperties
<1>2. \A i \in 1 .. Len(old) : old[i] \in Nat
  BY ElementOfSeq
<1> HIDE DEF new
<1>3. ASSUME NEW i \in 1 .. Len(new) PROVE new[i] <= x
  BY <1>1, <1>2, <1>3
<1>4. ASSUME NEW i \in 1 .. Len(new), NEW j \in 1 .. Len(new), i < j PROVE new[i] < new[j]
  <2>1. i \in 1 .. Len(old)
    BY <1>1, <1>4
  <2>2. CASE j = Len(old) + 1
    BY <1>1, <2>1, <2>2
  <2>3. CASE j \in 1 .. Len(old)
    BY <1>1, <1>4, <2>1, <2>3
  <2> QED BY <1>1, <2>2, <2>3
<1> QED BY <1>3, <1>4 DEF new

\* What clients were shown, and will be shown next.
Out(s) == shown[s] \o pending[s]

\* The order of the output follows from its being behind the receiver.
OutInv ==
    /\ OutputOrdered
    /\ \A s \in Sids : \A i \in 1 .. Len(Out(s)) : Out(s)[i] <= pos[s]

\* What one step can do to the output of a session.
Same(s) == Out(s)' = Out(s) /\ pos'[s] >= pos[s]
More(s) == Out(s)' = Append(Out(s), pos[s] + 1) /\ pos'[s] = pos[s] + 1

LEMMA OutTypes ==
    ASSUME TypeOK, NEW s \in Sids
    PROVE  /\ shown[s] \in Seq(Nat) /\ pending[s] \in Seq(Nat) /\ Out(s) \in Seq(Nat)
           /\ pos[s] \in Nat /\ sent[s] \in Nat
<1>1. shown[s] \in Seq(1 .. MaxChunks) /\ pending[s] \in Seq(1 .. MaxChunks)
  BY DEF TypeOK
<1>2. pos[s] \in Nat /\ sent[s] \in Nat
  BY RingAssumption DEF TypeOK
<1>3. 1 .. MaxChunks \subseteq Nat
  BY RingAssumption
<1>4. shown[s] \in Seq(Nat) /\ pending[s] \in Seq(Nat)
  BY <1>1, <1>3, SeqMonotonic
<1> QED BY <1>2, <1>4, ConcatProperties DEF Out

LEMMA FlushSame ==
    ASSUME TypeOK, NEW s \in Sids, Flush(s)
    PROVE  \A q \in Sids : Out(q)' = Out(q)
<1>1. shown'[s] = shown[s] \o pending[s] /\ pending'[s] = << >>
  BY DEF Flush, TypeOK
<1>2. Out(s)' = Out(s)
  BY <1>1, OutTypes, ConcatEmptySeq DEF Out
<1>3. \A q \in Sids : q # s => shown'[q] = shown[q] /\ pending'[q] = pending[q]
  BY DEF Flush, TypeOK
<1> QED BY <1>2, <1>3 DEF Out

LEMMA IngestMore ==
    ASSUME TypeOK, NEW s \in Sids, NEW next, Ingest(s, next)
    PROVE  \A q \in Sids : Same(q) \/ More(q)
<1>1. /\ pos' = [pos EXCEPT ![s] = @ + 1] /\ shown' = shown
      /\ pending' = [pending EXCEPT ![s] = Append(@, pos[s] + 1)] \/ pending' = pending
  BY DEF Ingest
<1>2. ASSUME NEW q \in Sids, q # s PROVE Same(q)
  <2>1. pos'[q] = pos[q] /\ pending'[q] = pending[q] /\ shown'[q] = shown[q]
    BY <1>1, <1>2 DEF TypeOK
  <2>2. Out(q)' = Out(q)
    BY <2>1 DEF Out
  <2> QED BY <2>1, <2>2, OutTypes DEF Same
<1>3. CASE pending' = pending
  <2>1. pos'[s] = pos[s] + 1 /\ Out(s)' = Out(s)
    BY <1>1, <1>3 DEF TypeOK, Out
  <2> QED BY <1>2, <2>1, OutTypes DEF Same
<1>4. CASE pending' = [pending EXCEPT ![s] = Append(@, pos[s] + 1)]
  <2>1. pos'[s] = pos[s] + 1 /\ pending'[s] = Append(pending[s], pos[s] + 1) /\ shown'[s] = shown[s]
    BY <1>1, <1>4 DEF TypeOK
  <2>2. shown[s] \in Seq(Nat) /\ pending[s] \in Seq(Nat) /\ Out(s) \in Seq(Nat) /\ pos[s] + 1 \in Nat
    BY OutTypes
  <2>3. Out(s)' = shown[s] \o Append(pending[s], pos[s] + 1)
    BY <2>1 DEF Out
  <2>4. shown[s] \o Append(pending[s], pos[s] + 1) = Append(shown[s] \o pending[s], pos[s] + 1)
    <3> DEFINE old == shown[s]
               more == pending[s]
               chunk == pos[s] + 1
    <3>1. old \in Seq(Nat) /\ more \in Seq(Nat) /\ chunk \in Nat
      BY <2>2
    <3> HIDE DEF old, more, chunk
    <3>2. old \o Append(more, chunk) = Append(old \o more, chunk)
      BY SMTT(40), <3>1, ConcatAppend
    <3> QED BY <3>2 DEF old, more, chunk
  <2>5. Out(s)' = Append(Out(s), pos[s] + 1)
    BY <2>3, <2>4 DEF Out
  <2> QED BY <1>2, <2>1, <2>5 DEF More
<1> QED BY <1>1, <1>3, <1>4

LEMMA OutMoves ==
    ASSUME TypeOK, [Next]_vars
    PROVE  \A q \in Sids : Same(q) \/ More(q)
<1>1. CASE UNCHANGED <<pos, pending, shown>>
  BY <1>1, OutTypes DEF Same, Out
<1>2. ASSUME NEW s \in Sids, TaskStep(s) PROVE \A q \in Sids : Same(q) \/ More(q)
  <2>1. CASE Recv(s) \/ Drain(s)
    BY <2>1, IngestMore DEF Recv, Drain
  <2>2. CASE RecvErr(s) \/ DecideDropped(s) \/ TellDropped(s)
    BY <2>2, <1>1 DEF RecvErr, DecideDropped, TellDropped, KeepOutput
  <2>3. CASE Tick(s) \/ FinalFlush(s)
    BY <2>3, FlushSame, OutTypes DEF Tick, FinalFlush, Same
  <2>4. CASE DrainEnd(s)
    <3>1. \A q \in Sids : Out(q)' = Out(q)
      BY <2>4, FlushSame DEF DrainEnd, FlushOrKeep, KeepOutput, Out
    <3>2. \A q \in Sids : pos'[q] >= pos[q]
      <4>1. CASE UNCHANGED pos
        BY <4>1, OutTypes
      <4>2. CASE Lagged(s) /\ pos' = [pos EXCEPT ![s] = sent[s] - RingCap]
        BY SMTT(40), <4>2, OutTypes, RingAssumption DEF Lagged, TypeOK
      <4> QED BY <2>4, <4>1, <4>2 DEF DrainEnd
    <3> QED BY <3>1, <3>2 DEF Same
  <2> QED BY <1>2, <2>1, <2>2, <2>3, <2>4 DEF TaskStep
<1>3. ASSUME NEW c \in Callers, CallerStep(c) PROVE UNCHANGED <<pos, pending, shown>>
  BY <1>3 DEF CallerStep, DeviceOpens, DeviceFails, Attach, SetJoin, Unmap, UnmapNothing, Signal,
              JoinWorker, Return, taskVars
<1>4. ASSUME NEW c \in Callers, Request(c) PROVE UNCHANGED <<pos, pending, shown>>
  BY <1>4 DEF Request, OpenPty, OpenQuiet, OpenSerial, Begin, Close, Reconnect, ReopenFails, taskVars
<1>5. ASSUME NEW s \in Sids, WorkerStep(s) PROVE UNCHANGED <<pos, pending, shown>>
  BY <1>5 DEF WorkerStep, Produce, PtyEof, WorkerStops, WorkerReleases, taskVars
<1>6. UNCHANGED vars => UNCHANGED <<pos, pending, shown>>
  BY DEF vars
<1> QED BY <1>1, <1>2, <1>3, <1>4, <1>5, <1>6 DEF Next

LEMMA OutStep == TypeOK /\ TypeOK' /\ OutInv /\ [Next]_vars => OutInv'
<1> SUFFICES ASSUME TypeOK, TypeOK', OutInv, [Next]_vars, NEW s \in Sids
             PROVE  /\ \A i, j \in 1 .. Len(Out(s)') : i < j => Out(s)'[i] < Out(s)'[j]
                    /\ \A i \in 1 .. Len(Out(s)') : Out(s)'[i] <= pos'[s]
  BY DEF OutInv, OutputOrdered, Out
<1>1. /\ \A i, j \in 1 .. Len(Out(s)) : i < j => Out(s)[i] < Out(s)[j]
      /\ \A i \in 1 .. Len(Out(s)) : Out(s)[i] <= pos[s]
  BY DEF OutInv, OutputOrdered, Out
<1>2. Out(s) \in Seq(Nat) /\ pos[s] \in Nat
  BY OutTypes
<1>3. pos'[s] \in Nat
  BY RingAssumption DEF TypeOK
<1>4. \A i \in 1 .. Len(Out(s)) : Out(s)[i] \in Nat
  BY <1>2, ElementOfSeq
<1>5. CASE Same(s)
  BY <1>1, <1>2, <1>3, <1>4, <1>5 DEF Same
<1>6. CASE More(s)
  <2>1. \A i \in 1 .. Len(Out(s)) : Out(s)[i] < pos[s] + 1
    BY <1>1, <1>2, <1>4
  <2>2. pos[s] + 1 \in Nat
    BY <1>2
  <2>3. LET new == Append(Out(s), pos[s] + 1)
        IN  /\ \A i, j \in 1 .. Len(new) : i < j => new[i] < new[j]
            /\ \A i \in 1 .. Len(new) : new[i] <= pos[s] + 1
    BY <1>1, <1>2, <2>1, <2>2, IncreasingAppend
  <2> QED BY <1>6, <2>3 DEF More
<1> QED BY <1>5, <1>6, OutMoves

(* Output is shown in the order it was sent and never twice, for any channel
   capacity, any thresholds of coalescing and any number of chunks.          *)
THEOREM OutputAlwaysOrdered == Spec => []OutputOrdered
<1>1. Init => OutInv
  <2> SUFFICES ASSUME Init PROVE OutInv
    OBVIOUS
  <2>1. \A s \in Sids : Out(s) = << >> /\ Len(Out(s)) = 0
    BY ConcatEmptySeq, EmptySeq DEF Init, Out
  <2>2. ASSUME NEW s \in Sids PROVE 1 .. Len(Out(s)) = {}
    <3>1. Len(Out(s)) = 0
      BY <2>1
    <3> QED BY <3>1
  <2> QED BY <2>2 DEF OutInv, OutputOrdered, Out
<1>2. OutInv => OutputOrdered
  BY DEF OutInv
<1> QED BY <1>1, <1>2, OutStep, SessionsTypeCorrect, PTL DEF Spec
==============================================================================
