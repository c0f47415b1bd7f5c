------------------------- MODULE ContextFiles_proofs -------------------------
(***************************************************************************)
(* For any number of calls and any timeout: the lock of the pending file   *)
(* is exclusive, and no update is lost, as long as nothing goes wrong and  *)
(* there are no more calls than the timeout has seconds, and one; answers  *)
(* are true; and an activation that ends well has made active what was     *)
(* pending.                                                                *)
(***************************************************************************)
EXTENDS ContextFiles, ListLemmas

(* text is a function; what a call is going to write can be anything.      *)
TextOK == text = [ p \in Process |-> text[p] ]

Finished == { u \in Updater : pc[u] = "done" }

(* While nothing has gone wrong the lock file tells who has the lock, so   *)
(* that nobody removes another's; every call is past its cleanup only once *)
(* it had the lock; a waiter has slept at most once for each call that has *)
(* finished; and what a call is about to write was made from the pending   *)
(* file as it still is.  ExclusiveWhenCalm says nothing of the patience of *)
(* the waiters, on which it depends.                                       *)
CalmInv ==
  /\ \A u \in Updater : u \in Holders <=> lock = u
  /\ \A u \in Updater : pc[u] \in {"load", "replace", "unlock"} => locked[u]
  /\ \A u \in Updater : pc[u] = "start" => patience[u] = Timeout
  /\ \A u \in Updater : pc[u] = "link" =>
        Timeout - patience[u] <= Cardinality(Finished)
  /\ \A u \in Updater : pc[u] = "wait" =>
        Timeout - patience[u] + 1 <= Cardinality(Finished \cup Holders)
  /\ serial = pending.lines
  /\ \A u \in Updater : pc[u] = "replace" =>
        text[u] = NewLines(pending.lines, request[u])

IInv == TypeOK /\ TextOK /\ (Calm /\ FewCalls => CalmInv)

-----------------------------------------------------------------------------
LEMMA FullPatience == Timeout \in 0 .. Timeout /\ 0 .. Timeout \subseteq Nat
  BY LimitsAssumption

LEMMA InitType == Init => TypeOK /\ TextOK
<1> SUFFICES ASSUME Init PROVE TypeOK /\ TextOK
  OBVIOUS
<1>1. TypeOK
  BY FullPatience DEF Init, TypeOK, Steps, Changes
<1>2. TextOK
  <2>1. text = [ p \in Process |-> <<>> ]
    BY DEF Init
  <2> HIDE DEF Init
  <2> QED BY <2>1 DEF TextOK
<1> QED BY <1>1, <1>2

(* The state stays typed, whatever fails.                                  *)
LEMMA NextType ==
  ASSUME TypeOK, TextOK, [Next]_vars
  PROVE  TypeOK' /\ TextOK'
<1> USE DEF TypeOK, TextOK, Goto, Answer, locals, files, history
<1>1. CASE UNCHANGED vars
  BY <1>1 DEF vars
<1>2. ASSUME NEW u \in Updater, UpdaterStep(u)
      PROVE  TypeOK' /\ TextOK'
  <2> USE DEF Process, Steps, Changes
  <2>1. CASE Begin(u)
    BY <2>1 DEF Begin
  <2>2. CASE Link(u)
    BY <2>2, FullPatience DEF Link
  <2>3. CASE Sleep(u)
    BY <2>3, LimitsAssumption DEF Sleep
  <2>4. CASE BreakLock(u)
    BY <2>4 DEF BreakLock
  <2>5. CASE Load(u)
    BY <2>5 DEF Load
  <2>6. CASE Replace(u)
    BY <2>6 DEF Replace
  <2>7. CASE Unlock(u)
    BY <2>7 DEF Unlock
  <2>8. CASE Abandon(u)
    <3>1. patience' \in [ Updater -> 0 .. Timeout ]
      BY <2>8, FullPatience DEF Abandon
    <3>2. faults' \in Nat
      BY <2>8 DEF Abandon, Fault
    <3> QED BY <2>8, <3>1, <3>2 DEF Abandon
  <2>9. CASE EndInError(u)
    BY <2>9, LimitsAssumption DEF EndInError, Fault, TroubleLeft
  <2> QED BY <1>2, <2>1, <2>2, <2>3, <2>4, <2>5, <2>6, <2>7, <2>8, <2>9
          DEF UpdaterStep
<1>3. ASSUME NEW a \in Activator, ActivatorStep(a)
      PROVE  TypeOK' /\ TextOK'
  <2> USE DEF Process, Steps, Changes
  <2>1. CASE OpenPending(a)
    BY <2>1 DEF OpenPending
  <2>2. CASE StatPending(a)
    <3>1. faults' \in Nat /\ unstamped' \subseteq Activator
      BY <2>2 DEF StatPending, Fault
    <3>2. /\ UNCHANGED << lock, patience, locked, text, answer, outslept, wrote >>
          /\ pc' = [ pc EXCEPT ![a] = "compare" ]
      BY <2>2 DEF StatPending
    <3>3. pc' \in [ Process -> Steps ]
      BY <3>2
    <3>4. TypeOK'
      BY <3>1, <3>2, <3>3
    <3>5. TextOK'
      BY <3>2
    <3> QED BY <3>4, <3>5
  <2>3. CASE Compare(a)
    BY <2>3 DEF Compare
  <2>4. CASE WriteActive(a)
    BY <2>4 DEF WriteActive
  <2>5. CASE StampActive(a)
    <3>1. faults' \in Nat /\ unstamped' \subseteq Activator
      BY <2>5 DEF StampActive, Fault
    <3>2. /\ UNCHANGED << lock, patience, locked, answer, outslept, wrote >>
          /\ pc' = [ pc EXCEPT ![a] = "done" ]
          /\ text' = [ text EXCEPT ![a] = << >> ]
      BY <2>5 DEF StampActive
    <3>3. pc' \in [ Process -> Steps ]
      BY <3>2
    <3>4. TypeOK'
      BY <3>1, <3>2, <3>3
    <3>5. TextOK'
      BY <3>2
    <3> QED BY <3>4, <3>5
  <2>6. CASE ActivateFails(a)
    BY <2>6, LimitsAssumption DEF ActivateFails, Fault, TroubleLeft
  <2> QED BY <1>3, <2>1, <2>2, <2>3, <2>4, <2>5, <2>6 DEF ActivatorStep
<1>4. ASSUME NEW u \in Updater, CrashUpdater(u)
      PROVE  TypeOK' /\ TextOK'
  BY <1>4, FullPatience DEF CrashUpdater, CrashOf, Process, Steps
<1>5. ASSUME NEW a \in Activator, CrashActivator(a)
      PROVE  TypeOK' /\ TextOK'
  BY <1>5 DEF CrashActivator, CrashOf, Process, Steps
<1> QED BY <1>1, <1>2, <1>3, <1>4, <1>5 DEF Next, Work

(* The steps, answers, patience and lock keep the values the code gives    *)
(* them, for every number of calls, crashes and failures.                  *)
THEOREM TypeCorrect == Spec => []TypeOK
<1>1. Init => TypeOK /\ TextOK
  BY InitType
<1>2. TypeOK /\ TextOK /\ [Next]_vars => TypeOK' /\ TextOK'
  BY NextType
<1> QED BY <1>1, <1>2, PTL DEF Spec

-----------------------------------------------------------------------------
(* The calls that have finished or have the lock only become more.         *)
LEMMA Grow ==
  ASSUME NEW S, NEW T, S \subseteq T, T \subseteq Updater
  PROVE  /\ Cardinality(S) \in Nat /\ Cardinality(T) \in Nat
         /\ Cardinality(S) <= Cardinality(T)
<1>1. IsFiniteSet(T)
  BY UpdaterAssumption, FS_Subset
<1>2. IsFiniteSet(S) /\ Cardinality(S) <= Cardinality(T)
  BY <1>1, FS_Subset
<1> QED BY <1>1, <1>2, FS_CardinalityType

(* A waiter, whose call is neither finished nor at work, is not among the  *)
(* calls it has waited for.                                                *)
LEMMA AllButOne ==
  ASSUME NEW u \in Updater, NEW S, S \subseteq Updater, u \notin S
  PROVE  /\ Cardinality(S) \in Nat /\ Cardinality(Updater) \in Nat
         /\ Cardinality(S) + 1 <= Cardinality(Updater)
<1>1. IsFiniteSet(S) /\ Cardinality(S) \in Nat
  BY UpdaterAssumption, FS_Subset, FS_CardinalityType
<1>2. IsFiniteSet(Updater) /\ Cardinality(Updater) \in Nat
  BY UpdaterAssumption, FS_CardinalityType
<1>3. Cardinality(S \cup {u}) = Cardinality(S) + 1
  BY <1>1, FS_AddElement
<1>4. Cardinality(S \cup {u}) <= Cardinality(Updater)
  <2>1. S \cup {u} \in SUBSET Updater
    OBVIOUS
  <2> QED BY <2>1, <1>2, FS_Subset
<1> QED BY <1>1, <1>2, <1>3, <1>4

(* What was wrong stays wrong.                                             *)
LEMMA CalmBefore ==
  ASSUME TypeOK, NEW p \in Process, NEW step, Goto(p, step),
         pc[p] # "crashed", faults' = faults, outslept => outslept', Calm'
  PROVE  Calm
<1>1. \A q \in Process : pc[q] = "crashed" => pc'[q] = "crashed"
  BY DEF Goto, TypeOK
<1> QED BY <1>1 DEF Calm, Crashed

(* A call that fails or stops ends the calm.                               *)
LEMMA TroubleEndsCalm ==
  ASSUME TypeOK, NEW p \in Process, Fault \/ CrashOf(p)
  PROVE  ~Calm'
<1>1. CASE Fault
  BY <1>1 DEF Fault, Calm, TypeOK
<1>2. CASE CrashOf(p)
  <2>1. pc'[p] = "crashed"
    BY <1>2 DEF CrashOf, Goto, TypeOK
  <2> QED BY <2>1 DEF Calm, Crashed
<1> QED BY <1>1, <1>2

LEMMA InitCalm ==
  ASSUME Init
  PROVE  CalmInv
<1>1. \A u \in Updater : pc[u] = "start" /\ patience[u] = Timeout
  BY DEF Init, Process
<1>2. Holders = {}
  BY <1>1 DEF Holders
<1>3. lock = NoOne /\ serial = pending.lines
  BY DEF Init
<1> QED BY <1>1, <1>2, <1>3, UpdaterAssumption DEF CalmInv

(* An activation does not touch what the updates depend on.                *)
LEMMA ActivatorApart ==
  ASSUME TypeOK, TextOK, NEW a \in Activator, ActivatorStep(a), Calm'
  PROVE  /\ Calm
         /\ UNCHANGED << pending, lock, request, patience, locked, serial >>
         /\ \A u \in Updater : pc'[u] = pc[u] /\ text'[u] = text[u]
<1> USE DEF files, history, locals, Goto
<1>1. a \in Process /\ a \notin Updater
  BY ActivatorAssumption DEF Process
<1>2. ~ActivateFails(a) /\ ~Fault
  BY <1>1, TroubleEndsCalm DEF ActivateFails
<1>3. /\ pc[a] # "crashed" /\ faults' = faults /\ outslept' = outslept
      /\ UNCHANGED << pending, lock, request, patience, locked, serial >>
      /\ \E step : pc' = [ pc EXCEPT ![a] = step ]
      /\ \/ text' = text
         \/ \E new : text' = [ text EXCEPT ![a] = new ]
  <2>1. CASE OpenPending(a)
    BY <2>1 DEF OpenPending
  <2>2. CASE StatPending(a)
    BY <1>2, <2>2 DEF StatPending
  <2>3. CASE Compare(a)
    BY <2>3 DEF Compare
  <2>4. CASE WriteActive(a)
    BY <2>4 DEF WriteActive
  <2>5. CASE StampActive(a)
    BY <1>2, <2>5 DEF StampActive
  <2> QED BY <1>2, <2>1, <2>2, <2>3, <2>4, <2>5 DEF ActivatorStep
<1>4. Calm
  BY <1>1, <1>3, CalmBefore
<1>5. \A u \in Updater : pc'[u] = pc[u] /\ text'[u] = text[u]
  BY <1>1, <1>3 DEF TypeOK, TextOK, Process
<1> QED BY <1>3, <1>4, <1>5

-----------------------------------------------------------------------------
(* The steps of an update while nothing goes wrong.                         *)
LEMMA BeginCalm ==
  ASSUME TypeOK, TextOK, CalmInv, NEW u \in Updater, Begin(u)
  PROVE  CalmInv'
<1> USE DEF files, history, locals, Goto
<1>1. /\ pc[u] = "start" /\ pc'[u] \in {"link", "done"}
      /\ \A v \in Updater \ {u} : pc'[v] = pc[v]
      /\ UNCHANGED << pending, lock, request, patience, locked, serial, text >>
  BY DEF Begin, TypeOK, Process
<1>2. Holders' = Holders
  BY <1>1 DEF Holders
<1>3. Finished \subseteq Finished' /\ Finished \cup Holders \subseteq Finished' \cup Holders'
  BY <1>1, <1>2 DEF Finished
<1>4. /\ Cardinality(Finished) \in Nat /\ Cardinality(Finished') \in Nat
      /\ Cardinality(Finished) <= Cardinality(Finished')
  BY <1>3, Grow DEF Finished
<1>5. /\ Cardinality(Finished \cup Holders) \in Nat
      /\ Cardinality(Finished' \cup Holders') \in Nat
      /\ Cardinality(Finished \cup Holders) <= Cardinality(Finished' \cup Holders')
  BY <1>3, Grow DEF Finished, Holders
<1>6. \A v \in Updater : v \in Holders' <=> lock' = v
  BY <1>1, <1>2 DEF CalmInv
<1>7. \A v \in Updater : pc'[v] = "link" =>
         Timeout - patience'[v] <= Cardinality(Finished')
  BY <1>1, <1>4, LimitsAssumption DEF CalmInv, TypeOK
<1>8. \A v \in Updater : pc'[v] = "wait" =>
         Timeout - patience'[v] + 1 <= Cardinality(Finished' \cup Holders')
  BY <1>1, <1>5, LimitsAssumption DEF CalmInv, TypeOK
<1>9. /\ \A v \in Updater : pc'[v] \in {"load", "replace", "unlock"} => locked'[v]
      /\ \A v \in Updater : pc'[v] = "start" => patience'[v] = Timeout
      /\ serial' = pending'.lines
      /\ \A v \in Updater : pc'[v] = "replace" =>
            text'[v] = NewLines(pending'.lines, request'[v])
  BY <1>1 DEF CalmInv
<1> QED BY <1>6, <1>7, <1>8, <1>9 DEF CalmInv

LEMMA LinkCalm ==
  ASSUME TypeOK, TextOK, CalmInv, NEW u \in Updater, Link(u)
  PROVE  CalmInv'
<1> USE DEF files, history, locals, Goto
<1>1. /\ pc[u] = "link" /\ pc'[u] \in {"load", "wait"}
      /\ \A v \in Updater \ {u} : pc'[v] = pc[v] /\ patience'[v] = patience[v]
                                     /\ locked'[v] = locked[v]
      /\ UNCHANGED << pending, request, serial, text >>
  BY DEF Link, TypeOK, Process
<1>2. Finished' = Finished
  BY <1>1 DEF Finished
<1>3. CASE lock = NoOne
  <2>1. lock' = u /\ locked'[u] /\ pc'[u] = "load"
    BY <1>3 DEF Link, TypeOK, Process
  <2>2. Holders = {}
    BY <1>3, UpdaterAssumption DEF CalmInv, Holders
  <2>3. Holders' = {u}
    BY <1>1, <2>1, <2>2 DEF Holders
  <2>4. /\ Cardinality(Finished \cup Holders) \in Nat
        /\ Cardinality(Finished' \cup Holders') \in Nat
        /\ Cardinality(Finished \cup Holders) <= Cardinality(Finished' \cup Holders')
    <3>1. Finished \cup Holders \subseteq Finished' \cup Holders'
      BY <1>2, <2>2
    <3>2. Finished' \cup Holders' \subseteq Updater
      BY <2>3 DEF Finished
    <3> QED BY <3>1, <3>2, Grow
  <2>5. \A v \in Updater : v \in Holders' <=> lock' = v
    BY <2>1, <2>3
  <2>6. \A v \in Updater : pc'[v] = "link" =>
           Timeout - patience'[v] <= Cardinality(Finished')
    BY <1>1, <1>2, <2>1 DEF CalmInv
  <2>7. \A v \in Updater : pc'[v] = "wait" =>
           Timeout - patience'[v] + 1 <= Cardinality(Finished' \cup Holders')
    BY <1>1, <2>1, <2>4, LimitsAssumption DEF CalmInv, TypeOK
  <2>8. /\ \A v \in Updater : pc'[v] \in {"load", "replace", "unlock"} => locked'[v]
        /\ \A v \in Updater : pc'[v] = "start" => patience'[v] = Timeout
        /\ serial' = pending'.lines
        /\ \A v \in Updater : pc'[v] = "replace" =>
              text'[v] = NewLines(pending'.lines, request'[v])
    BY <1>1, <2>1 DEF CalmInv
  <2> QED BY <2>5, <2>6, <2>7, <2>8 DEF CalmInv
<1>4. CASE lock # NoOne
  <2>1. pc'[u] = "wait" /\ UNCHANGED << lock, locked, patience >>
    BY <1>4 DEF Link, TypeOK, Process
  <2>2. Holders' = Holders
    BY <1>1, <2>1 DEF Holders
  <2>3. \E h \in Holders : Holders = {h} /\ h \notin Finished
    <3>1. lock \in Updater
      BY <1>4 DEF TypeOK
    <3> QED BY <3>1 DEF CalmInv, Holders, Finished
  <2>4. PICK h \in Holders : Holders = {h} /\ h \notin Finished
    BY <2>3
  <2>5. Cardinality(Finished) \in Nat /\ IsFiniteSet(Finished)
    BY UpdaterAssumption, FS_Subset, FS_CardinalityType DEF Finished
  <2>6. Cardinality(Finished \cup Holders) = Cardinality(Finished) + 1
    BY <2>4, <2>5, FS_AddElement
  <2>7. \A v \in Updater : v \in Holders' <=> lock' = v
    BY <2>1, <2>2 DEF CalmInv
  <2>8. \A v \in Updater : pc'[v] = "link" =>
           Timeout - patience'[v] <= Cardinality(Finished')
    BY <1>1, <1>2, <2>1 DEF CalmInv
  <2>9. \A v \in Updater : pc'[v] = "wait" =>
           Timeout - patience'[v] + 1 <= Cardinality(Finished' \cup Holders')
    <3>1. Finished' \cup Holders' = Finished \cup Holders
      BY <1>2, <2>2
    <3>2. Timeout - patience[u] <= Cardinality(Finished)
      BY <1>1 DEF CalmInv
    <3>3. Timeout - patience'[u] + 1 <= Cardinality(Finished \cup Holders)
      BY <3>2, <2>1, <2>5, <2>6, LimitsAssumption DEF TypeOK
    <3>4. \A v \in Updater \ {u} : pc'[v] = "wait" =>
             Timeout - patience'[v] + 1 <= Cardinality(Finished \cup Holders)
      BY <1>1 DEF CalmInv
    <3> QED BY <3>1, <3>3, <3>4
  <2>10. /\ \A v \in Updater : pc'[v] \in {"load", "replace", "unlock"} => locked'[v]
         /\ \A v \in Updater : pc'[v] = "start" => patience'[v] = Timeout
         /\ serial' = pending'.lines
         /\ \A v \in Updater : pc'[v] = "replace" =>
               text'[v] = NewLines(pending'.lines, request'[v])
    BY <1>1, <2>1 DEF CalmInv
  <2> QED BY <2>7, <2>8, <2>9, <2>10 DEF CalmInv
<1> QED BY <1>3, <1>4

(* The second that passes ends the call the waiter has waited for.         *)
LEMMA SleepCalm ==
  ASSUME TypeOK, TextOK, CalmInv, NEW u \in Updater, Sleep(u), Calm'
  PROVE  CalmInv'
<1> USE DEF files, history, locals, Goto
<1>1. /\ pc[u] = "wait" /\ pc'[u] = "link" /\ patience'[u] = patience[u] - 1
      /\ \A v \in Updater \ {u} : pc'[v] = pc[v] /\ patience'[v] = patience[v]
      /\ UNCHANGED << pending, lock, request, locked, serial, text >>
  BY DEF Sleep, TypeOK, Process
<1>2. Holders = {}
  BY DEF Sleep, Calm, TypeOK
<1>3. Finished' = Finished /\ Holders' = Holders
  BY <1>1 DEF Finished, Holders
<1>4. Timeout - patience'[u] <= Cardinality(Finished)
  <2>1. Finished \cup Holders = Finished
    BY <1>2
  <2>2. Timeout - patience[u] + 1 <= Cardinality(Finished)
    BY <1>1, <2>1 DEF CalmInv
  <2>3. Cardinality(Finished) \in Nat
    BY Grow DEF Finished
  <2> QED BY <1>1, <2>2, <2>3, LimitsAssumption DEF TypeOK
<1>5. \A v \in Updater : v \in Holders' <=> lock' = v
  BY <1>1, <1>3 DEF CalmInv
<1>6. \A v \in Updater : pc'[v] = "link" =>
         Timeout - patience'[v] <= Cardinality(Finished')
  BY <1>1, <1>3, <1>4 DEF CalmInv
<1>7. \A v \in Updater : pc'[v] = "wait" =>
         Timeout - patience'[v] + 1 <= Cardinality(Finished' \cup Holders')
  BY <1>1, <1>3 DEF CalmInv
<1>8. /\ \A v \in Updater : pc'[v] \in {"load", "replace", "unlock"} => locked'[v]
      /\ \A v \in Updater : pc'[v] = "start" => patience'[v] = Timeout
      /\ serial' = pending'.lines
      /\ \A v \in Updater : pc'[v] = "replace" =>
            text'[v] = NewLines(pending'.lines, request'[v])
  BY <1>1 DEF CalmInv
<1> QED BY <1>5, <1>6, <1>7, <1>8 DEF CalmInv

(* No waiter's patience ends: there are too few calls to wait for.         *)
LEMMA NoBreak ==
  ASSUME TypeOK, CalmInv, FewCalls, NEW u \in Updater
  PROVE  ~BreakLock(u)
<1> SUFFICES ASSUME BreakLock(u) PROVE FALSE
  OBVIOUS
<1>1. pc[u] = "wait" /\ patience[u] = 0
  BY DEF BreakLock
<1>2. u \notin Finished \cup Holders
  BY <1>1 DEF Finished, Holders
<1>3. /\ Cardinality(Finished \cup Holders) \in Nat /\ Cardinality(Updater) \in Nat
      /\ Cardinality(Finished \cup Holders) + 1 <= Cardinality(Updater)
  <2>1. Finished \cup Holders \subseteq Updater
    BY DEF Finished, Holders
  <2> QED BY <2>1, <1>2, AllButOne
<1>4. Timeout + 1 <= Cardinality(Finished \cup Holders)
  <2>1. Timeout - patience[u] + 1 <= Cardinality(Finished \cup Holders)
    BY <1>1 DEF CalmInv
  <2> QED BY <1>1, <2>1, LimitsAssumption
<1> QED BY <1>3, <1>4, LimitsAssumption DEF FewCalls

(* Steps of the call that has the lock: the waiters are not concerned.     *)
LEMMA LoadCalm ==
  ASSUME TypeOK, TextOK, CalmInv, NEW u \in Updater, Load(u)
  PROVE  CalmInv'
<1> USE DEF files, history, locals, Goto
<1>1. /\ pc[u] = "load" /\ pc'[u] \in {"replace", "unlock"}
      /\ \A v \in Updater \ {u} : pc'[v] = pc[v] /\ text'[v] = text[v]
      /\ UNCHANGED << pending, lock, request, locked, patience, serial >>
      /\ pc'[u] = "replace" => text'[u] = NewLines(pending.lines, request[u])
  BY DEF Load, TypeOK, TextOK, Process
<1>2. Finished' = Finished /\ Holders' = Holders
  BY <1>1 DEF Finished, Holders
<1> QED BY <1>1, <1>2 DEF CalmInv

LEMMA ReplaceCalm ==
  ASSUME TypeOK, TextOK, CalmInv, NEW u \in Updater, Replace(u)
  PROVE  CalmInv'
<1> USE DEF files, history, locals, Goto
<1>1. /\ pc[u] = "replace" /\ pc'[u] = "unlock"
      /\ \A v \in Updater \ {u} : pc'[v] = pc[v] /\ text'[v] = text[v]
      /\ UNCHANGED << lock, request, locked, patience >>
      /\ pending'.lines = text[u] /\ serial' = NewLines(serial, request[u])
  BY DEF Replace, TypeOK, TextOK, Process
<1>2. Finished' = Finished /\ Holders' = Holders
  BY <1>1 DEF Finished, Holders
<1>3. u \in Holders
  BY <1>1 DEF CalmInv, Holders
<1>4. \A v \in Updater \ {u} : pc'[v] # "replace"
  BY <1>1, <1>3 DEF CalmInv, Holders
<1>5. serial' = pending'.lines
  BY <1>1 DEF CalmInv
<1>6. /\ \A v \in Updater : v \in Holders' <=> lock' = v
      /\ \A v \in Updater : pc'[v] \in {"load", "replace", "unlock"} => locked'[v]
      /\ \A v \in Updater : pc'[v] = "start" => patience'[v] = Timeout
  BY <1>1, <1>2 DEF CalmInv
<1>7. /\ \A v \in Updater : pc'[v] = "link" =>
            Timeout - patience'[v] <= Cardinality(Finished')
      /\ \A v \in Updater : pc'[v] = "wait" =>
            Timeout - patience'[v] + 1 <= Cardinality(Finished' \cup Holders')
  BY <1>1, <1>2 DEF CalmInv
<1> QED BY <1>1, <1>4, <1>5, <1>6, <1>7 DEF CalmInv

LEMMA UnlockCalm ==
  ASSUME TypeOK, TextOK, CalmInv, NEW u \in Updater, Unlock(u)
  PROVE  CalmInv'
<1> USE DEF files, history, locals, Goto
<1>1. /\ pc[u] = "unlock" /\ pc'[u] = "done" /\ lock' = NoOne
      /\ \A v \in Updater \ {u} : pc'[v] = pc[v]
      /\ UNCHANGED << pending, request, locked, patience, serial, text >>
  BY DEF Unlock, TypeOK, Process
<1>2. u \in Holders
  BY <1>1 DEF CalmInv, Holders
<1>3. Holders = {u}
  BY <1>2 DEF CalmInv, Holders
<1>4. Holders' = {}
  BY <1>1, <1>3 DEF Holders
<1>5. Finished' = Finished \cup {u}
  BY <1>1 DEF Finished
<1>6. /\ Cardinality(Finished) \in Nat /\ Cardinality(Finished') \in Nat
      /\ Cardinality(Finished) <= Cardinality(Finished')
  <2>1. Finished' \subseteq Updater
    BY DEF Finished
  <2> QED BY <2>1, <1>5, Grow
<1>7. Finished' \cup Holders' = Finished \cup Holders
  BY <1>3, <1>4, <1>5
<1>8. \A v \in Updater : v \in Holders' <=> lock' = v
  BY <1>1, <1>4, UpdaterAssumption
<1>9. \A v \in Updater : pc'[v] = "link" =>
         Timeout - patience'[v] <= Cardinality(Finished')
  BY <1>1, <1>6, LimitsAssumption DEF CalmInv, TypeOK
<1>10. \A v \in Updater : pc'[v] = "wait" =>
          Timeout - patience'[v] + 1 <= Cardinality(Finished' \cup Holders')
  BY <1>1, <1>7 DEF CalmInv
<1>11. /\ \A v \in Updater : pc'[v] \in {"load", "replace", "unlock"} => locked'[v]
       /\ \A v \in Updater : pc'[v] = "start" => patience'[v] = Timeout
       /\ serial' = pending'.lines
       /\ \A v \in Updater : pc'[v] = "replace" =>
             text'[v] = NewLines(pending'.lines, request'[v])
  BY <1>1 DEF CalmInv
<1> QED BY <1>8, <1>9, <1>10, <1>11 DEF CalmInv

LEMMA UpdaterCalm ==
  ASSUME IInv, FewCalls, NEW u \in Updater, UpdaterStep(u), Calm'
  PROVE  CalmInv'
<1> USE DEF files, history, locals
<1>1. u \in Process
  BY DEF Process
<1>2. ~Abandon(u) /\ ~EndInError(u)
  BY <1>1, TroubleEndsCalm DEF Abandon, EndInError, IInv
<1>3. Calm
  <2>1. /\ pc[u] # "crashed" /\ faults' = faults /\ (outslept => outslept')
        /\ \E step : Goto(u, step)
    <3>1. CASE Begin(u)
      BY <3>1 DEF Begin
    <3>2. CASE Link(u)
      BY <3>2 DEF Link
    <3>3. CASE Sleep(u)
      BY <3>3 DEF Sleep
    <3>4. CASE BreakLock(u)
      BY <3>4 DEF BreakLock
    <3>5. CASE Load(u)
      BY <3>5 DEF Load
    <3>6. CASE Replace(u)
      BY <3>6 DEF Replace
    <3>7. CASE Unlock(u)
      BY <3>7 DEF Unlock
    <3> QED BY <1>2, <3>1, <3>2, <3>3, <3>4, <3>5, <3>6, <3>7 DEF UpdaterStep
  <2> QED BY <1>1, <2>1, CalmBefore DEF IInv
<1>4. CalmInv
  BY <1>3 DEF IInv
<1> QED BY <1>2, <1>4, BeginCalm, LinkCalm, SleepCalm, NoBreak, LoadCalm,
           ReplaceCalm, UnlockCalm DEF UpdaterStep, IInv

LEMMA NextInvariant ==
  ASSUME IInv, [Next]_vars
  PROVE  IInv'
<1>1. TypeOK' /\ TextOK'
  BY NextType DEF IInv
<1>2. ASSUME Calm', FewCalls
      PROVE  CalmInv'
  <2>1. CASE UNCHANGED vars
    <3>1. Calm /\ CalmInv
      BY <1>2, <2>1 DEF vars, files, locals, history, Calm, Crashed, IInv
    <3> QED BY <3>1, <2>1
            DEF vars, files, locals, history, CalmInv, Holders, Finished
  <2>2. ASSUME NEW u \in Updater, UpdaterStep(u)
        PROVE  CalmInv'
    BY <1>2, <2>2, UpdaterCalm
  <2>3. ASSUME NEW a \in Activator, ActivatorStep(a)
        PROVE  CalmInv'
    <3>1. /\ Calm
          /\ UNCHANGED << pending, lock, request, patience, locked, serial >>
          /\ \A u \in Updater : pc'[u] = pc[u] /\ text'[u] = text[u]
      BY <1>2, <2>3, ActivatorApart DEF IInv
    <3>2. CalmInv
      BY <1>2, <3>1 DEF IInv
    <3>3. Finished' = Finished /\ Holders' = Holders
      BY <3>1 DEF Finished, Holders
    <3> QED BY <3>1, <3>2, <3>3 DEF CalmInv
  <2>4. ASSUME NEW p \in Process, CrashOf(p)
        PROVE  FALSE
    BY <1>2, <2>4, TroubleEndsCalm DEF IInv
  <2>5. ~(\E u \in Updater : CrashUpdater(u)) /\ ~(\E a \in Activator : CrashActivator(a))
    BY <2>4 DEF CrashUpdater, CrashActivator, Process
  <2> QED BY <2>1, <2>2, <2>3, <2>5 DEF Next, Work
<1>3. FewCalls' <=> FewCalls
  BY DEF FewCalls
<1> QED BY <1>1, <1>2, <1>3 DEF IInv

LEMMA Invariance == Spec => []IInv
<1>1. Init => IInv
  BY InitType, InitCalm DEF IInv
<1>2. IInv /\ [Next]_vars => IInv'
  BY NextInvariant
<1> QED BY <1>1, <1>2, PTL DEF Spec

(* The lock of lcfgcontext_update_pending is exclusive: with a timeout of  *)
(* T seconds for up to T + 1 calls, as long as none fails, stops or takes  *)
(* a second.                                                               *)
THEOREM Exclusive == Spec => []ExclusiveWhenCalm
<1>1. IInv => ExclusiveWhenCalm
  BY DEF IInv, ExclusiveWhenCalm, CalmInv, Updating, Holders
<1> QED BY <1>1, Invariance, PTL

(* Under the same conditions no update is lost.                            *)
THEOREM NothingLost == Spec => []NoLostUpdate
<1>1. IInv => NoLostUpdate
  BY DEF IInv, NoLostUpdate, CalmInv
<1> QED BY <1>1, Invariance, PTL

-----------------------------------------------------------------------------
(* A call answers before its cleanup, and only one that has renamed its    *)
(* file answers MODIFIED; a failed cleanup turns any answer into an error. *)
AnswerInv ==
  \A u \in Updater :
    /\ pc[u] \in {"start", "link", "wait", "load", "replace"} => u \notin wrote
    /\ pc[u] \in {"unlock", "done"} =>
         /\ answer[u] = "MODIFIED" => u \in wrote
         /\ answer[u] = "NONE" => u \notin wrote

LEMMA NextAnswer ==
  ASSUME TypeOK, AnswerInv, [Next]_vars
  PROVE  AnswerInv'
<1> USE DEF files, locals, history, Goto, Answer, TypeOK, AnswerInv
<1>1. CASE UNCHANGED vars
  BY <1>1 DEF vars
<1>2. ASSUME NEW u \in Updater, UpdaterStep(u)
      PROVE  AnswerInv'
  <2> USE DEF Process
  <2>1. CASE Begin(u)
    BY <2>1 DEF Begin
  <2>2. CASE Link(u)
    BY <2>2 DEF Link
  <2>3. CASE Sleep(u)
    BY <2>3 DEF Sleep
  <2>4. CASE BreakLock(u)
    BY <2>4 DEF BreakLock
  <2>5. CASE Load(u)
    BY <2>5 DEF Load
  <2>6. CASE Replace(u)
    BY <2>6 DEF Replace
  <2>7. CASE Unlock(u)
    BY <2>7 DEF Unlock
  <2>8. CASE Abandon(u)
    BY <2>8 DEF Abandon
  <2>9. CASE EndInError(u)
    BY <2>9 DEF EndInError
  <2> QED BY <1>2, <2>1, <2>2, <2>3, <2>4, <2>5, <2>6, <2>7, <2>8, <2>9
          DEF UpdaterStep
<1>3. ASSUME NEW a \in Activator, ActivatorStep(a)
      PROVE  AnswerInv'
  <2>1. /\ wrote' = wrote
        /\ \E step : pc' = [ pc EXCEPT ![a] = step ]
        /\ answer' = answer \/ \E c : answer' = [ answer EXCEPT ![a] = c ]
    BY <1>3 DEF ActivatorStep, OpenPending, StatPending, Compare, WriteActive,
                StampActive, ActivateFails
  <2>2. \A u \in Updater : pc'[u] = pc[u] /\ answer'[u] = answer[u]
    BY <2>1, ActivatorAssumption DEF Process
  <2> QED BY <2>1, <2>2
<1>4. ASSUME NEW p \in Process, CrashOf(p)
      PROVE  AnswerInv'
  BY <1>4 DEF CrashOf, Process
<1> QED BY <1>1, <1>2, <1>3, <1>4 DEF Next, Work, CrashUpdater, CrashActivator, Process

(* Whatever fails or stops, and however many calls there are, MODIFIED and *)
(* NONE tell the caller truly whether the pending file was replaced.       *)
THEOREM HonestAnswers == Spec => []AnswersHonest
<1>1. Init => AnswerInv
  BY DEF Init, AnswerInv, Process
<1>2. TypeOK /\ AnswerInv /\ [Next]_vars => AnswerInv'
  BY NextAnswer
<1>3. AnswerInv => AnswersHonest
  BY DEF AnswerInv, AnswersHonest
<1> QED BY <1>1, <1>2, <1>3, TypeCorrect, PTL DEF Spec

(* For any calls everything is of its kind, and the lock is exclusive      *)
(* while they are few and nothing goes wrong (lcfgcontext_lock).           *)
THEOREM LockCorrect == Spec => []LockSound
<1>1. TypeOK /\ ExclusiveWhenCalm => LockSound
  BY DEF LockSound
<1> QED BY <1>1, TypeCorrect, Exclusive, PTL

-----------------------------------------------------------------------------
(***************************************************************************)
(* What the lists of contexts that are read, compared and printed hold.    *)
(* UpdateAll goes through the lines one by one; what it does is shown by   *)
(* induction over their number.                                            *)
(***************************************************************************)

(* The state after each of the lines.                                      *)
Runs(state, list, priority, lines, n) ==
  /\ state[0] = [ list |-> list, priority |-> priority ]
  /\ \A i \in 1 .. n : state[i] = AddLine(state[i - 1], lines[i])

IsOn(state, n) == state = [ i \in 0 .. n |-> state[i] ]

LEMMA RunExists ==
  ASSUME NEW list, NEW priority, NEW lines, NEW n \in Nat
  PROVE  \E state : /\ IsOn(state, n)
                    /\ Runs(state, list, priority, lines, n)
<1> DEFINE S == { m \in Nat : \E state : /\ IsOn(state, m)
                                         /\ Runs(state, list, priority, lines, m) }
<1>1. 0 \in S
  <2> DEFINE state == [ i \in 0 .. 0 |-> [ list |-> list, priority |-> priority ] ]
  <2>1. IsOn(state, 0) /\ Runs(state, list, priority, lines, 0)
    BY DEF Runs, IsOn
  <2> QED BY <2>1
<1>2. ASSUME NEW m \in 1 .. n, m - 1 \in S
      PROVE  m \in S
  <2>1. PICK before : /\ IsOn(before, m - 1)
                      /\ Runs(before, list, priority, lines, m - 1)
    BY <1>2
  <2> DEFINE state == [ i \in 0 .. m |-> IF i = m THEN AddLine(before[m - 1], lines[m])
                                         ELSE before[i] ]
  <2>2. /\ IsOn(state, m)
        /\ \A i \in 0 .. m - 1 : state[i] = before[i]
        /\ state[m] = AddLine(before[m - 1], lines[m])
    BY DEF IsOn
  <2> HIDE DEF state
  <2>3. state[0] = [ list |-> list, priority |-> priority ]
    BY <2>1, <2>2 DEF Runs
  <2>4. ASSUME NEW i \in 1 .. m
        PROVE  state[i] = AddLine(state[i - 1], lines[i])
    <3>1. CASE i = m
      <4>1. state[m - 1] = before[m - 1]
        BY <2>2
      <4> QED BY <2>2, <3>1, <4>1
    <3>2. CASE i # m
      <4>1. i \in 1 .. m - 1 /\ i \in 0 .. m - 1 /\ i - 1 \in 0 .. m - 1
        BY <3>2
      <4> QED BY <2>1, <2>2, <4>1 DEF Runs
    <3> QED BY <3>1, <3>2
  <2>5. Runs(state, list, priority, lines, m)
    BY <2>3, <2>4 DEF Runs
  <2> QED BY <2>2, <2>5
<1> HIDE DEF S
<1>3. \A m \in 0 .. n : m \in S
  BY <1>1, <1>2, UpTo
<1> QED BY <1>3 DEF S

LEMMA UpdateAllRuns ==
  ASSUME NEW list, NEW priority, NEW lines, Len(lines) \in Nat
  PROVE  \E state : /\ Runs(state, list, priority, lines, Len(lines))
                    /\ UpdateAll(list, priority, lines) = state[Len(lines)].list
<1> DEFINE n == Len(lines)
           base == [ list |-> list, priority |-> priority ]
           Step(f) == [ i \in 0 .. n |->
                          IF i = 0 THEN base
                          ELSE CHOOSE after \in { AddLine(before, lines[i]) :
                                                  before \in { f[i - 1] } } : TRUE ]
           upTo == CHOOSE f : f = Step(f)
<1>1. UpdateAll(list, priority, lines) = upTo[n].list
  BY DEF UpdateAll
<1>2. \A before, i : (CHOOSE after \in { AddLine(b, lines[i]) : b \in {before} } : TRUE)
                       = AddLine(before, lines[i])
  OBVIOUS
<1>3. \E f : f = Step(f)
  <2>1. PICK f : IsOn(f, n) /\ Runs(f, list, priority, lines, n)
    BY RunExists
  <2>2. ASSUME NEW i \in 0 .. n
        PROVE  f[i] = Step(f)[i]
    <3>1. i # 0 => i \in 1 .. n
      OBVIOUS
    <3>2. i # 0 => f[i] = AddLine(f[i - 1], lines[i])
      BY <2>1, <3>1 DEF Runs
    <3>3. f[0] = base
      BY <2>1 DEF Runs
    <3>4. Step(f)[i] = IF i = 0 THEN base
                       ELSE CHOOSE after \in { AddLine(before, lines[i]) :
                                               before \in { f[i - 1] } } : TRUE
      OBVIOUS
    <3> HIDE DEF Step, base
    <3> QED BY <1>2, <3>2, <3>3, <3>4
  <2>3. f = [ i \in 0 .. n |-> Step(f)[i] ]
    BY <2>1, <2>2 DEF IsOn
  <2> QED BY <2>3
<1>4. upTo = Step(upTo)
  BY <1>3
<1> HIDE DEF upTo
<1>5. \A i \in 0 .. n : upTo[i] = Step(upTo)[i]
  BY <1>4
<1>6. Runs(upTo, list, priority, lines, n)
  <2>1. upTo[0] = base
    BY <1>5
  <2>2. ASSUME NEW i \in 1 .. n
        PROVE  upTo[i] = AddLine(upTo[i - 1], lines[i])
    BY <1>2, <1>5
  <2> QED BY <2>1, <2>2 DEF Runs
<1> QED BY <1>1, <1>6

(* A list with one entry more.                                             *)
LEMMA AppendList ==
  ASSUME NEW list, IsList(list), NEW e
  PROVE  /\ IsList(Append(list, e)) /\ Len(Append(list, e)) = Len(list) + 1
         /\ \A i \in 1 .. Len(list) : Append(list, e)[i] = list[i]
         /\ Append(list, e)[Len(list) + 1] = e
<1> DEFINE n == Len(list)
           new == Append(list, e)
           T == ToSet(list) \cup {e}
<1>1. DOMAIN list = 1 .. n /\ n \in Nat
  BY ListProperties
<1>2. list \in Seq(T)
  <2>1. list \in [1 .. n -> T]
    BY <1>1 DEF IsList, ToSet
  <2> QED BY <1>1, <2>1, SeqDef
<1>3. /\ new \in Seq(T) /\ Len(new) = n + 1
      /\ \A i \in 1 .. n : new[i] = list[i]
      /\ new[n + 1] = e
  <2>1. e \in T
    OBVIOUS
  <2> HIDE DEF T
  <2> QED BY <1>2, <2>1, AppendProperties
<1>4. DOMAIN new = 1 .. n + 1
  BY <1>3, LenProperties
<1>5. IsList(new)
  <2> HIDE DEF new
  <2>1. new = [i \in 1 .. n + 1 |-> new[i]]
    BY <1>3, <1>4, SeqDef
  <2>2. n + 1 \in Nat
    BY <1>1
  <2> HIDE DEF n
  <2> QED BY <2>1, <2>2, FunctionIsList
<1> QED BY <1>3, <1>5

(* One context more, in its place or at the end: a name is there once.     *)
LEMMA UpdateSound ==
  ASSUME NEW list, IsList(list), NamedOnce(list), NEW ctx
  PROVE  LET new == Update(list, ctx)
         IN /\ IsList(new) /\ NamedOnce(new)
            /\ \A k \in DOMAIN new :
                 new[k] = ctx \/ \E j \in DOMAIN list : new[k] = list[j]
<1> DEFINE n == Len(list)
           new == Update(list, ctx)
<1>1. DOMAIN list = 1 .. n /\ n \in Nat
  BY ListProperties
<1>2. CASE Named(list, ctx.name) = {}
  <2>1. new = Append(list, ctx)
    BY <1>2 DEF Update
  <2>2. \A i \in 1 .. n : list[i].name # ctx.name
    BY <1>1, <1>2 DEF Named
  <2>3. /\ IsList(new) /\ DOMAIN new = 1 .. n + 1
        /\ \A i \in 1 .. n : new[i] = list[i]
        /\ new[n + 1] = ctx
    <3>1. DOMAIN new = 1 .. Len(new)
      BY <2>1, AppendList, ListProperties
    <3> QED BY <1>1, <2>1, <3>1, AppendList
  <2> HIDE DEF new, n
  <2>4. \A i \in 1 .. n + 1 : i \in 1 .. n \/ i = n + 1
    BY <1>1
  <2>5. NamedOnce(new)
    BY <1>1, <2>2, <2>3, <2>4 DEF NamedOnce
  <2> QED BY <1>1, <2>3, <2>4, <2>5 DEF new
<1>3. CASE Named(list, ctx.name) # {}
  <2> DEFINE k == CHOOSE j \in Named(list, ctx.name) : TRUE
  <2>1. k \in 1 .. n /\ list[k].name = ctx.name
    <3>1. k \in Named(list, ctx.name)
      BY <1>3
    <3> HIDE DEF k
    <3> QED BY <1>1, <3>1 DEF Named
  <2>2. new = IF list[k].value = ctx.value THEN list ELSE [ list EXCEPT ![k] = ctx ]
    BY <1>3 DEF Update
  <2> HIDE DEF k, new
  <2>3. CASE list[k].value = ctx.value
    BY <2>2, <2>3 DEF new
  <2>4. CASE list[k].value # ctx.value
    <3>1. /\ DOMAIN new = 1 .. n
          /\ \A i \in 1 .. n : new[i] = IF i = k THEN ctx ELSE list[i]
      <4>1. list = [i \in 1 .. n |-> list[i]]
        BY <1>1, SeqDef DEF IsList
      <4> QED BY <2>1, <2>2, <2>4, <4>1
    <3>2. IsList(new)
      <4>1. new = [i \in 1 .. n |-> new[i]]
        <5>1. new = [ list EXCEPT ![k] = ctx ]
          BY <2>2, <2>4
        <5> QED BY <1>1, <5>1
      <4> HIDE DEF n
      <4> QED BY <1>1, <4>1, FunctionIsList
    <3> HIDE DEF n
    <3>3. NamedOnce(new)
      <4>1. \A i \in 1 .. n : new[i].name = list[i].name
        BY <2>1, <3>1
      <4> QED BY <1>1, <3>1, <4>1 DEF NamedOnce
    <3> QED BY <1>1, <3>1, <3>2, <3>3 DEF new
  <2> QED BY <2>3, <2>4
<1> QED BY <1>2, <1>3

(* A list with each name once, and no contexts but those that are known.   *)
Sound(list, known) ==
  /\ IsList(list) /\ NamedOnce(list)
  /\ \A k \in DOMAIN list : << list[k].name, list[k].value >> \in known

Said(lines) ==
  { << lines[i].name, lines[i].value >> : i \in { k \in DOMAIN lines : lines[k] # Comment } }

LEMMA UpdateAllSound ==
  ASSUME NEW known, NEW list, Sound(list, known), NEW priority,
         NEW lines, IsList(lines), Said(lines) \subseteq known
  PROVE  Sound(UpdateAll(list, priority, lines), known)
<1> DEFINE n == Len(lines)
<1>1. n \in Nat /\ DOMAIN lines = 1 .. n
  BY ListProperties
<1>2. PICK state : /\ Runs(state, list, priority, lines, n)
                   /\ UpdateAll(list, priority, lines) = state[n].list
  BY <1>1, UpdateAllRuns
<1> DEFINE S == { i \in Nat : Sound(state[i].list, known) }
<1> HIDE DEF n
<1>3. 0 \in S
  BY <1>2 DEF Runs
<1>4. ASSUME NEW i \in 1 .. n, i - 1 \in S
      PROVE  i \in S
  <2> DEFINE before == state[i - 1]
             ctx == FromString(lines[i], before.priority + 1)
             new == Update(before.list, ctx)
  <2>1. Sound(before.list, known)
    BY <1>4
  <2>2. state[i].list = IF lines[i] = Comment THEN before.list ELSE new
    <3>1. state[i] = AddLine(before, lines[i])
      BY <1>2 DEF Runs
    <3> HIDE DEF before
    <3> QED BY <3>1 DEF AddLine
  <2>3. ctx.name = lines[i].name /\ ctx.value = lines[i].value
    BY DEF FromString
  <2> HIDE DEF S, before, ctx
  <2>4. CASE lines[i] = Comment
    BY <2>1, <2>2, <2>4 DEF S
  <2>5. CASE lines[i] # Comment
    <3>1. << ctx.name, ctx.value >> \in known
      <4>1. << lines[i].name, lines[i].value >> \in Said(lines)
        BY <1>1, <2>5 DEF Said
      <4> QED BY <2>3, <4>1
    <3>2. /\ IsList(new) /\ NamedOnce(new)
          /\ \A k \in DOMAIN new :
               new[k] = ctx \/ \E j \in DOMAIN before.list : new[k] = before.list[j]
      BY <2>1, UpdateSound DEF Sound
    <3> HIDE DEF new
    <3>3. Sound(new, known)
      BY <2>1, <3>1, <3>2 DEF Sound
    <3> QED BY <2>2, <2>5, <3>3 DEF S
  <2> QED BY <2>4, <2>5
<1>5. n \in S
  <2> HIDE DEF S
  <2> QED BY <1>1, <1>3, <1>4, UpTo
<1> QED BY <1>2, <1>5

(* The list of a file has contexts of its lines, each name once.           *)
LEMMA ReadSound ==
  ASSUME NEW lines, IsList(lines)
  PROVE  Sound(FromFile(lines), Said(lines))
<1>1. IsList(<< >>) /\ DOMAIN << >> = {}
  BY EmptySeq DEF IsList
<1>2. Sound(<< >>, Said(lines))
  BY <1>1 DEF Sound, NamedOnce
<1> QED BY <1>2, UpdateAllSound DEF FromFile

(* What is printed are the contexts that have a value, each name once.     *)
LEMMA PrintedSound ==
  ASSUME NEW list, IsList(list)
  PROVE  LET made == Printed(list)
         IN /\ IsList(made)
            /\ NamedOnce(list) => NamedOnce(made)
            /\ \A k \in DOMAIN made : \E i \in DOMAIN list :
                 /\ made[k] = [ name |-> list[i].name, value |-> list[i].value ]
                 /\ list[i].value # NoValue
            /\ \A i \in DOMAIN list : list[i].value # NoValue => \E k \in DOMAIN made :
                 made[k] = [ name |-> list[i].name, value |-> list[i].value ]
<1> DEFINE pair == [ i \in DOMAIN list |-> [ name |-> list[i].name, value |-> list[i].value ] ]
           places == { i \in DOMAIN list : list[i].value # NoValue }
           made == Printed(list)
<1>1. made = AtPlaces(pair, places)
  BY DEF Printed
<1>2. places \in SUBSET Nat /\ IsFiniteSet(places)
  <2>1. DOMAIN list = 1 .. Len(list) /\ Len(list) \in Nat /\ IsFiniteSet(DOMAIN list)
    BY ListProperties
  <2> QED BY <2>1, FS_Subset
<1>3. /\ \A i \in places : /\ i \in DOMAIN list /\ list[i].value # NoValue
                           /\ pair[i] = [ name |-> list[i].name, value |-> list[i].value ]
                           /\ pair[i].name = list[i].name
      /\ \A i \in DOMAIN list : list[i].value # NoValue => i \in places
  OBVIOUS
<1> HIDE DEF pair, places, made
<1>4. Takes(made, pair, places)
  BY <1>1, <1>2, AtPlacesSound
<1>5. /\ IsList(made)
      /\ \A k \in DOMAIN made : \E i \in places : made[k] = pair[i]
      /\ \A i \in places : \E k \in DOMAIN made : made[k] = pair[i]
      /\ (\A i, j \in places : pair[i].name = pair[j].name => i = j) => NamedOnce(made)
  BY <1>4, TakesContents
<1>6. NamedOnce(list) => NamedOnce(made)
  BY <1>3, <1>5 DEF NamedOnce
<1>7. ASSUME NEW k \in DOMAIN made
      PROVE  \E i \in DOMAIN list :
               /\ made[k] = [ name |-> list[i].name, value |-> list[i].value ]
               /\ list[i].value # NoValue
  <2>1. PICK i \in places : made[k] = pair[i]
    BY <1>5, <1>7
  <2>2. i \in DOMAIN list /\ list[i].value # NoValue
    BY <1>3, <2>1
  <2>3. pair[i] = [ name |-> list[i].name, value |-> list[i].value ]
    BY <1>3, <2>1
  <2> QED BY <2>1, <2>2, <2>3
<1>8. ASSUME NEW i \in DOMAIN list, list[i].value # NoValue
      PROVE  \E k \in DOMAIN made :
               made[k] = [ name |-> list[i].name, value |-> list[i].value ]
  <2>1. i \in places /\ pair[i] = [ name |-> list[i].name, value |-> list[i].value ]
    BY <1>3, <1>8
  <2>2. PICK k \in DOMAIN made : made[k] = pair[i]
    BY <1>5, <2>1
  <2> QED BY <2>1, <2>2
<1> QED BY <1>5, <1>6, <1>7, <1>8 DEF made

(* Reading what has been printed gives every line its own place.           *)
LEMMA ReadBack ==
  ASSUME NEW lines, IsList(lines), NamedOnce(lines),
         \A i \in DOMAIN lines : lines[i] # Comment
  PROVE  /\ DOMAIN FromFile(lines) = DOMAIN lines
         /\ \A k \in DOMAIN lines : FromFile(lines)[k] = FromString(lines[k], k)
<1> DEFINE n == Len(lines)
           Upto(list, i) == /\ IsList(list) /\ Len(list) = i
                            /\ \A k \in 1 .. i : list[k] = FromString(lines[k], k)
<1>1. n \in Nat /\ DOMAIN lines = 1 .. n
  BY ListProperties
<1>2. PICK state : /\ Runs(state, << >>, 0, lines, n)
                   /\ FromFile(lines) = state[n].list
  BY <1>1, UpdateAllRuns DEF FromFile
<1> DEFINE S == { i \in Nat : state[i].priority = i /\ Upto(state[i].list, i) }
<1> HIDE DEF n
<1>3. 0 \in S
  <2>1. IsList(<< >>) /\ Len(<< >>) = 0
    BY EmptySeq DEF IsList
  <2>2. state[0].list = << >> /\ state[0].priority = 0
    BY <1>2 DEF Runs
  <2> QED BY <2>1, <2>2
<1>4. ASSUME NEW i \in 1 .. n, i - 1 \in S
      PROVE  i \in S
  <2> DEFINE before == state[i - 1]
             ctx == FromString(lines[i], i)
  <2>1. before.priority = i - 1 /\ Upto(before.list, i - 1)
    BY <1>4
  <2>2. i \in DOMAIN lines /\ lines[i] # Comment /\ i \in Nat /\ i - 1 \in Nat
    BY <1>1
  <2>3. state[i] = AddLine(before, lines[i])
    BY <1>2 DEF Runs
  <2>4. before.priority + 1 = i
    BY <2>1
  <2> HIDE DEF before, S
  <2>5. state[i].list = Update(before.list, ctx) /\ state[i].priority = i
    BY <2>2, <2>3, <2>4 DEF AddLine
  <2>6. \A k \in 1 .. i - 1 : before.list[k].name # ctx.name
    <3> SUFFICES ASSUME NEW k \in 1 .. i - 1, before.list[k].name = ctx.name
                 PROVE  FALSE
      OBVIOUS
    <3>1. before.list[k] = FromString(lines[k], k)
      BY <2>1
    <3>2. lines[k].name = lines[i].name
      BY <3>1 DEF FromString
    <3>3. k \in DOMAIN lines /\ k # i
      BY <1>1
    <3> QED BY <2>2, <3>2, <3>3 DEF NamedOnce
  <2>7. DOMAIN before.list = 1 .. i - 1
    BY <2>1, ListProperties
  <2>8. Update(before.list, ctx) = Append(before.list, ctx)
    <3>1. Named(before.list, ctx.name) = {}
      BY <2>6, <2>7 DEF Named
    <3> QED BY <3>1 DEF Update
  <2> HIDE DEF ctx
  <2>9. /\ IsList(Append(before.list, ctx)) /\ Len(Append(before.list, ctx)) = i
        /\ \A k \in 1 .. i - 1 : Append(before.list, ctx)[k] = before.list[k]
        /\ Append(before.list, ctx)[i] = ctx
    <3>1. IsList(before.list) /\ Len(before.list) = i - 1
      BY <2>1
    <3> QED BY <3>1, <2>2, AppendList
  <2>10. Upto(state[i].list, i)
    <3>1. ASSUME NEW k \in 1 .. i
          PROVE  state[i].list[k] = FromString(lines[k], k)
      <4>1. k = i \/ k \in 1 .. i - 1
        OBVIOUS
      <4> QED BY <2>1, <2>5, <2>8, <2>9, <4>1 DEF ctx
    <3> QED BY <2>5, <2>8, <2>9, <3>1
  <2> QED BY <2>2, <2>5, <2>10 DEF S
<1>5. n \in S
  <2> HIDE DEF S
  <2> QED BY <1>1, <1>3, <1>4, UpTo
<1>6. Upto(FromFile(lines), n)
  BY <1>2, <1>5
<1>7. DOMAIN FromFile(lines) = 1 .. n
  BY <1>6, ListProperties
<1> QED BY <1>1, <1>6, <1>7

(* The contexts of a file, entry by entry.                                 *)
LEMMA ContextsOf ==
  ASSUME NEW lines, NEW list, list = FromFile(lines)
  PROVE  Contexts(lines) =
           { << list[i].name, list[i].value >> : i \in { j \in DOMAIN list : list[j].value # NoValue } }
<1>1. Contexts(lines) = { << c.name, c.value >> : c \in { d \in Range(list) : d.value # NoValue } }
  BY DEF Contexts
<1>2. Range(list) = { list[i] : i \in DOMAIN list }
  BY DEF Range
<1> QED BY <1>1, <1>2

(* Lists that lcfgctxlist_diff finds equal have the same contexts, although *)
(* it looks at the first list for whole contexts and at the second one for *)
(* names only: a name is there once.                                       *)
LEMMA EqualContexts ==
  ASSUME NEW a, NEW b, IsList(b), ~Diff(FromFile(a), FromFile(b))
  PROVE  Contexts(a) = Contexts(b)
<1> DEFINE list1 == FromFile(a)
           list2 == FromFile(b)
<1>1. NamedOnce(list2)
  BY ReadSound DEF Sound
<1>2. /\ \A i \in DOMAIN list1 : \E j \in DOMAIN list2 : list1[i] = list2[j]
      /\ \A j \in DOMAIN list2 : \E i \in DOMAIN list1 : list1[i].name = list2[j].name
  BY DEF Diff, Named
<1>3. /\ Contexts(a) = { << list1[i].name, list1[i].value >> :
                           i \in { j \in DOMAIN list1 : list1[j].value # NoValue } }
      /\ Contexts(b) = { << list2[i].name, list2[i].value >> :
                           i \in { j \in DOMAIN list2 : list2[j].value # NoValue } }
  BY ContextsOf
<1> HIDE DEF list1, list2
<1>4. \A j \in DOMAIN list2 : \E i \in DOMAIN list1 : list1[i] = list2[j]
  BY <1>1, <1>2 DEF NamedOnce
<1> QED BY <1>2, <1>3, <1>4

(* An entry of a list read from a text without malformed lines is printed  *)
(* as one of these lines, and so is not taken for a comment.               *)
Clean(lines) == IsText(lines) /\ Malformed \notin Range(lines)

LEMMA PrintedLines ==
  ASSUME NEW lines, Clean(lines), NEW i \in DOMAIN FromFile(lines)
  PROVE  LET c == FromFile(lines)[i]
         IN  \E k \in DOMAIN lines :
               /\ lines[k] = [ name |-> c.name, value |-> c.value ]
               /\ lines[k] # Comment /\ lines[k] # Malformed
<1> DEFINE c == FromFile(lines)[i]
<1>1. IsList(lines)
  BY DEF Clean, IsText, IsList
<1>2. << c.name, c.value >> \in Said(lines)
  BY <1>1, ReadSound DEF Sound
<1> HIDE DEF c
<1>3. PICK k \in DOMAIN lines : /\ lines[k] # Comment
                                /\ << c.name, c.value >> = << lines[k].name, lines[k].value >>
  BY <1>2 DEF Said
<1>4. lines[k] # Malformed
  BY DEF Clean, Range
<1>5. lines[k] = [ name |-> lines[k].name, value |-> lines[k].value ]
  BY <1>3, <1>4 DEF Clean, IsText
<1> QED BY <1>3, <1>4, <1>5 DEF c

(* What an activation prints has the contexts it has read.                 *)
LEMMA PrintedContexts ==
  ASSUME NEW lines, Clean(lines)
  PROVE  Contexts(Printed(FromFile(lines))) = Contexts(lines)
<1> DEFINE list == FromFile(lines)
           made == Printed(list)
           again == FromFile(made)
<1>1. IsList(list) /\ NamedOnce(list)
  BY ReadSound DEF Sound, Clean, IsText, IsList
<1>2. \A i \in DOMAIN list : [ name |-> list[i].name, value |-> list[i].value ] # Comment
  BY PrintedLines
<1>3. Contexts(lines) = { << list[i].name, list[i].value >> :
                            i \in { j \in DOMAIN list : list[j].value # NoValue } }
  BY ContextsOf
<1> HIDE DEF list
<1>4. /\ IsList(made) /\ NamedOnce(made)
      /\ \A k \in DOMAIN made : \E i \in DOMAIN list :
           /\ made[k] = [ name |-> list[i].name, value |-> list[i].value ]
           /\ list[i].value # NoValue
      /\ \A i \in DOMAIN list : list[i].value # NoValue => \E k \in DOMAIN made :
           made[k] = [ name |-> list[i].name, value |-> list[i].value ]
  BY <1>1, PrintedSound
<1> HIDE DEF made
<1>5. \A k \in DOMAIN made : made[k] # Comment
  BY <1>2, <1>4
<1>6. /\ DOMAIN again = DOMAIN made
      /\ \A k \in DOMAIN made : again[k] = FromString(made[k], k)
  BY <1>4, <1>5, ReadBack
<1>7. \A k \in DOMAIN made : again[k].name = made[k].name /\ again[k].value = made[k].value
  BY <1>6 DEF FromString
<1>8. Contexts(made) = { << again[i].name, again[i].value >> :
                           i \in { j \in DOMAIN again : again[j].value # NoValue } }
  BY ContextsOf
<1> HIDE DEF again
<1>9. \A k \in DOMAIN again : \E i \in DOMAIN list :
        /\ again[k].name = list[i].name /\ again[k].value = list[i].value
        /\ list[i].value # NoValue
  BY <1>4, <1>6, <1>7
<1>10. \A i \in DOMAIN list : list[i].value # NoValue => \E k \in DOMAIN again :
         again[k].name = list[i].name /\ again[k].value = list[i].value
  BY <1>4, <1>6, <1>7
<1>11. Contexts(made) \subseteq Contexts(lines)
  BY <1>3, <1>8, <1>9
<1>12. Contexts(lines) \subseteq Contexts(made)
  BY <1>3, <1>8, <1>10
<1> QED BY <1>11, <1>12 DEF made, list

(* What an update writes is a text.                                        *)
LEMMA NewLinesText ==
  ASSUME NEW lines, IsText(lines), NEW changes, IsText(changes)
  PROVE  IsText(NewLines(lines, changes))
<1> DEFINE list == NewList(FromFile(lines), changes)
           sorted == SortByPriority(list)
           made == Printed(sorted)
<1>1. NewLines(lines, changes) = made
  BY DEF NewLines
<1>2. IsList(lines) /\ IsList(changes)
  BY DEF IsText, IsList
<1>3. IsList(list)
  <2> DEFINE read == FromFile(lines)
             known == Said(lines) \cup Said(changes)
  <2>1. Sound(read, known)
    BY <1>2, ReadSound DEF Sound
  <2> HIDE DEF read
  <2>2. Said(changes) \subseteq known
    OBVIOUS
  <2> HIDE DEF known
  <2>3. Sound(NewList(read, changes), known)
    BY <1>2, <2>1, <2>2, UpdateAllSound DEF NewList
  <2> QED BY <2>3 DEF read, Sound
<1>4. IsList(sorted)
  <2> DEFINE n == Len(list)
  <2>1. n \in Nat /\ DOMAIN list = 1 .. n
    BY <1>3, ListProperties
  <2> HIDE DEF list, n
  <2>2. sorted = [ k \in 1 .. n |-> sorted[k] ]
    BY <2>1 DEF SortByPriority, SortedByKey
  <2> HIDE DEF sorted
  <2> QED BY <2>1, <2>2, FunctionIsList
<1> HIDE DEF sorted
<1>5. /\ IsList(made)
      /\ \A k \in DOMAIN made : \E i \in DOMAIN sorted :
           made[k] = [ name |-> sorted[i].name, value |-> sorted[i].value ]
  BY <1>4, PrintedSound
<1> HIDE DEF made
<1>6. \A k \in DOMAIN made : made[k] = [ name |-> made[k].name, value |-> made[k].value ]
  BY <1>5
<1> QED BY <1>1, <1>5, <1>6 DEF IsText, IsList

-----------------------------------------------------------------------------
(***************************************************************************)
(* One activation at a time.                                               *)
(***************************************************************************)

(* What is in the files can be read, and only a file that is not there has *)
(* no time.                                                                *)
IsFile(file) == file = [ lines |-> file.lines, mtime |-> file.mtime ]

FilesOK ==
  /\ IsText(pending.lines) /\ IsFile(pending) /\ pending.mtime \in Nat
  /\ pending.mtime = 0 => pending = NoFile
  /\ IsFile(active)
  /\ \A u \in Updater : IsText(request[u]) /\ (pc[u] = "replace" => IsText(text[u]))
  /\ mtime = [ a \in Activator |-> mtime[a] ]
  /\ seen = [ a \in Activator |-> seen[a] ]

(* The oldest and the newest of some files.                                *)
Span(S, old, new) ==
  /\ old \in S /\ new \in S
  /\ \A h \in S : h.mtime \in Nat /\ old.mtime <= h.mtime /\ h.mtime <= new.mtime

(* The active file is as it should be, once stamped if it can be.          *)
Stamped(a, old, new) ==
  IF a \in unstamped \/ old = NoFile \/ active = NoFile
  THEN answer[a] = "MODIFIED" => active.mtime = Now
  ELSE active.mtime = new.mtime

(* The time an activation is going to set: none if nobody knows it.        *)
Asked(a, old, new) ==
  IF a \in unstamped \/ old = NoFile
  THEN mtime[a] = 0
  ELSE mtime[a] = new.mtime /\ mtime[a] # 0

(* What an activation has read and asked for: the text is that of the      *)
(* oldest file it could have seen, the time that of the newest.            *)
(* ActivationFresh speaks of the calls that have ended, which depend on    *)
(* all this.                                                               *)
ActInv(a) ==
  /\ pc[a] \in {"start", "stat"} => mtime[a] = 0 /\ a \notin unstamped
  /\ pc[a] = "stat" =>
       /\ pending # NoFile /\ Clean(text[a])
       /\ \E old \in seen[a] :
            Span(seen[a], old, pending) /\ old.lines = text[a] /\ old # NoFile
  /\ pc[a] \in {"compare", "write", "stamp"} =>
       /\ Clean(text[a])
       /\ \E old, new \in seen[a] :
            Span(seen[a], old, new) /\ old.lines = text[a] /\ Asked(a, old, new)
  /\ pc[a] = "stamp" =>
       /\ Contexts(active.lines) = Contexts(text[a])
       /\ answer[a] = "MODIFIED" => active.mtime = Now
  /\ pc[a] = "done" /\ answer[a] # "ERROR" =>
       \E old, new \in seen[a] :
         /\ Span(seen[a], old, new)
         /\ Contexts(active.lines) = Contexts(old.lines)
         /\ Stamped(a, old, new)

OneActivation == \A a, b \in Activator : a = b

FreshInv == FilesOK /\ (OneActivation => \A a \in Activator : ActInv(a))

LEMMA InitFresh ==
  ASSUME Init
  PROVE  FreshInv
<1>1. PICK d \in Directories : pending = d[1] /\ active = d[2]
  BY DEF Init
<1>2. /\ IsText(pending.lines) /\ IsFile(pending) /\ pending.mtime \in Nat
      /\ pending.mtime = 0 => pending.lines = << >>
      /\ IsFile(active)
  BY <1>1, FilesAssumption DEF IsFile
<1>3. pending.mtime = 0 => pending = NoFile
  BY <1>2 DEF IsFile, NoFile
<1>4. /\ \A p \in Process : pc[p] = "start"
      /\ \A a \in Activator : mtime[a] = 0
      /\ unstamped = {}
      /\ mtime = [ a \in Activator |-> mtime[a] ]
      /\ seen = [ a \in Activator |-> seen[a] ]
  BY DEF Init
<1>5. \A u \in Updater : IsText(request[u])
  BY FilesAssumption DEF Init
<1>6. FilesOK
  BY <1>2, <1>3, <1>4, <1>5 DEF FilesOK, Process
<1>7. \A a \in Activator : ActInv(a)
  BY <1>4 DEF ActInv, Process
<1> QED BY <1>6, <1>7 DEF FreshInv

(* A step of an update, seen from an activation: the pending file stays or *)
(* is replaced by a later one, which counts until the time is asked for.   *)
LEMMA UpdaterFiles ==
  ASSUME TypeOK, TextOK, FilesOK, NEW u \in Updater, UpdaterStep(u)
  PROVE  /\ FilesOK'
         /\ active' = active /\ mtime' = mtime /\ unstamped' = unstamped
         /\ \A a \in Activator : /\ pc'[a] = pc[a] /\ text'[a] = text[a]
                                 /\ answer'[a] = answer[a]
                                 /\ pc[a] # "stat" => seen'[a] = seen[a]
         /\ \/ pending' = pending /\ seen' = seen
            \/ /\ pending'.mtime = pending.mtime + 1
               /\ \A a \in Activator :
                    pc[a] = "stat" => seen'[a] = seen[a] \cup {pending'}
<1> USE DEF files, history, locals, Goto, Answer
<1>1. u \in Process /\ \A a \in Activator : a \in Process /\ a # u
  BY ActivatorAssumption DEF Process
<1>2. /\ request' = request /\ mtime' = mtime /\ active' = active
      /\ unstamped' = unstamped
      /\ \E step : pc' = [ pc EXCEPT ![u] = step ]
      /\ text' = text \/ \E t : text' = [ text EXCEPT ![u] = t ]
      /\ answer' = answer \/ \E c : answer' = [ answer EXCEPT ![u] = c ]
  <2>1. CASE Begin(u)
    BY <2>1 DEF Begin
  <2>2. CASE Link(u)
    BY <2>2 DEF Link
  <2>3. CASE Sleep(u)
    BY <2>3 DEF Sleep
  <2>4. CASE BreakLock(u)
    BY <2>4 DEF BreakLock
  <2>5. CASE Load(u)
    BY <2>5 DEF Load
  <2>6. CASE Replace(u)
    BY <2>6 DEF Replace
  <2>7. CASE Unlock(u)
    BY <2>7 DEF Unlock
  <2>8. CASE Abandon(u)
    BY <2>8 DEF Abandon
  <2>9. CASE EndInError(u)
    BY <2>9 DEF EndInError
  <2> QED BY <2>1, <2>2, <2>3, <2>4, <2>5, <2>6, <2>7, <2>8, <2>9
          DEF UpdaterStep
<1>3. \A p \in Process \ {u} : pc'[p] = pc[p] /\ text'[p] = text[p] /\ answer'[p] = answer[p]
  BY <1>2 DEF TypeOK, TextOK
<1>4. pc'[u] = "replace" => IsText(text'[u])
  <2>1. CASE Load(u)
    <3>1. pc'[u] = "replace" => text'[u] = NewLines(pending.lines, request[u])
      BY <1>1, <2>1 DEF Load, TypeOK, TextOK
    <3> QED BY <3>1, NewLinesText DEF FilesOK
  <2>2. CASE ~Load(u)
    <3>1. pc'[u] # "replace"
      BY <1>1, <2>2 DEF UpdaterStep, Begin, Link, Sleep, BreakLock, Replace, Unlock,
                  Abandon, EndInError, TypeOK
    <3> QED BY <3>1
  <2> QED BY <2>1, <2>2
<1>5. CASE Replace(u)
  <2>1. /\ pc[u] = "replace"
        /\ pending' = [ lines |-> text[u], mtime |-> pending.mtime + 1 ]
        /\ seen' = [ a \in Activator |->
                       IF pc[a] = "stat" THEN seen[a] \cup {pending'} ELSE seen[a] ]
    BY <1>5 DEF Replace
  <2>2. \A a \in Activator :
          seen'[a] = IF pc[a] = "stat" THEN seen[a] \cup {pending'} ELSE seen[a]
    BY <2>1
  <2>3. seen' = [ a \in Activator |-> seen'[a] ]
    BY <2>1
  <2>4. /\ IsText(pending'.lines) /\ IsFile(pending') /\ pending'.mtime \in Nat
        /\ pending'.mtime # 0 /\ pending'.mtime = pending.mtime + 1
    <3>1. IsText(text[u]) /\ pending.mtime \in Nat
      BY <2>1 DEF FilesOK
    <3>2. pending'.lines = text[u] /\ pending'.mtime = pending.mtime + 1 /\ IsFile(pending')
      BY <2>1 DEF IsFile
    <3> QED BY <3>1, <3>2
  <2>5. /\ \A v \in Updater : IsText(request'[v]) /\ (pc'[v] = "replace" => IsText(text'[v]))
        /\ mtime' = [ a \in Activator |-> mtime'[a] ]
        /\ IsFile(active')
    BY <1>2, <1>3, <1>4 DEF FilesOK, Process
  <2>6. FilesOK'
    BY <2>3, <2>4, <2>5 DEF FilesOK, IsFile, IsText
  <2> QED BY <1>1, <1>2, <1>3, <2>2, <2>4, <2>6
<1>6. CASE ~Replace(u)
  <2>1. pending' = pending /\ seen' = seen
    BY <1>6 DEF UpdaterStep, Begin, Link, Sleep, BreakLock, Load, Unlock, Abandon, EndInError
  <2>2. \A v \in Updater : IsText(request'[v]) /\ (pc'[v] = "replace" => IsText(text'[v]))
    BY <1>2, <1>3, <1>4 DEF FilesOK, Process
  <2>3. FilesOK'
    BY <1>2, <2>1, <2>2 DEF FilesOK
  <2> QED BY <1>1, <1>2, <1>3, <2>1, <2>3
<1> QED BY <1>5, <1>6

LEMMA UpdaterFresh ==
  ASSUME TypeOK, TextOK, FilesOK, NEW u \in Updater, UpdaterStep(u),
         NEW a \in Activator, ActInv(a)
  PROVE  ActInv(a)'
<1>1. /\ FilesOK'
      /\ active' = active /\ mtime' = mtime /\ unstamped' = unstamped
      /\ pc'[a] = pc[a] /\ text'[a] = text[a] /\ answer'[a] = answer[a]
      /\ pc[a] # "stat" => seen'[a] = seen[a]
      /\ \/ pending' = pending /\ seen' = seen
         \/ /\ pending'.mtime = pending.mtime + 1
            /\ pc[a] = "stat" => seen'[a] = seen[a] \cup {pending'}
  BY UpdaterFiles
<1>2. Clean(text[a]) => Clean(text[a])'
  BY <1>1 DEF Clean, IsText
<1>3. CASE pc[a] = "stat"
  <2>1. PICK old \in seen[a] :
          Span(seen[a], old, pending) /\ old.lines = text[a] /\ old # NoFile
    BY <1>3 DEF ActInv
  <2>2. CASE pending' = pending /\ seen' = seen
    <3>1. old \in seen'[a] /\ Span(seen'[a], old, pending') /\ pending' # NoFile
      BY <1>3, <2>1, <2>2 DEF ActInv, Span
    <3> QED BY <1>1, <1>2, <1>3, <2>1, <3>1 DEF ActInv
  <2>3. CASE /\ pending'.mtime = pending.mtime + 1
             /\ seen'[a] = seen[a] \cup {pending'}
    <3>1. pending.mtime \in Nat /\ old.mtime \in Nat /\ old.mtime <= pending.mtime
      BY <2>1 DEF FilesOK, Span
    <3>2. pending' # NoFile
      BY <2>3, <3>1 DEF NoFile
    <3>3. /\ old \in seen'[a] /\ pending' \in seen'[a]
          /\ pending'.mtime \in Nat /\ old.mtime <= pending'.mtime
          /\ \A h \in seen[a] : /\ h.mtime \in Nat /\ old.mtime <= h.mtime
                                /\ h.mtime <= pending'.mtime
      BY <2>1, <2>3, <3>1 DEF Span
    <3>4. Span(seen'[a], old, pending')
      BY <2>3, <3>3 DEF Span
    <3> QED BY <1>1, <1>2, <1>3, <2>1, <3>2, <3>3, <3>4 DEF ActInv
  <2> QED BY <1>1, <1>3, <2>2, <2>3
<1>4. CASE pc[a] # "stat"
  BY <1>1, <1>2, <1>4 DEF ActInv, Asked, Stamped, Span
<1> QED BY <1>3, <1>4

(* A step of an activation leaves the files as they must be ...            *)
LEMMA ActivatorFiles ==
  ASSUME TypeOK, TextOK, FilesOK, NEW a \in Activator, ActivatorStep(a)
  PROVE  FilesOK'
<1> USE DEF files, history, locals, Goto, Answer
<1>1. /\ pending' = pending /\ request' = request
      /\ mtime' = mtime \/ \E m : mtime' = [ mtime EXCEPT ![a] = m ]
      /\ seen' = seen \/ \E s : seen' = [ seen EXCEPT ![a] = s ]
      /\ \E step : pc' = [ pc EXCEPT ![a] = step ]
      /\ text' = text \/ \E t : text' = [ text EXCEPT ![a] = t ]
      /\ \/ active' = active
         \/ \E l : active' = [ lines |-> l, mtime |-> Now ]
         \/ \E m : active' = [ active EXCEPT !.mtime = m ]
  <2>1. CASE OpenPending(a)
    BY <2>1 DEF OpenPending
  <2>2. CASE StatPending(a)
    BY <2>2 DEF StatPending
  <2>3. CASE Compare(a)
    BY <2>3 DEF Compare
  <2>4. CASE WriteActive(a)
    BY <2>4 DEF WriteActive
  <2>5. CASE StampActive(a)
    BY <2>5 DEF StampActive
  <2>6. CASE ActivateFails(a)
    BY <2>6 DEF ActivateFails
  <2> QED BY <2>1, <2>2, <2>3, <2>4, <2>5, <2>6 DEF ActivatorStep
<1>2. \A u \in Updater : pc'[u] = pc[u] /\ text'[u] = text[u]
  BY <1>1, ActivatorAssumption DEF TypeOK, TextOK, Process
<1>3. IsFile(active')
  BY <1>1 DEF FilesOK, IsFile
<1>4. mtime' = [ b \in Activator |-> mtime'[b] ]
  BY <1>1 DEF FilesOK
<1>5. seen' = [ b \in Activator |-> seen'[b] ]
  BY <1>1 DEF FilesOK
<1>6. \A u \in Updater : IsText(request'[u]) /\ (pc'[u] = "replace" => IsText(text'[u]))
  BY <1>1, <1>2 DEF FilesOK
<1>7. /\ IsText(pending'.lines) /\ IsFile(pending') /\ pending'.mtime \in Nat
      /\ pending'.mtime = 0 => pending' = NoFile
  BY <1>1 DEF FilesOK
<1> QED BY <1>3, <1>4, <1>5, <1>6, <1>7 DEF FilesOK, IsFile, IsText

(* ... and leads to an active file that is fresh.                          *)
LEMMA ActivatorFresh ==
  ASSUME TypeOK, TextOK, FilesOK, NEW a \in Activator, ActivatorStep(a), ActInv(a)
  PROVE  ActInv(a)'
<1> USE DEF files, history, locals, Goto, Answer
<1>1. /\ a \in Process
      /\ \A step : pc' = [ pc EXCEPT ![a] = step ] => pc'[a] = step
      /\ \A t : text' = [ text EXCEPT ![a] = t ] => text'[a] = t
      /\ \A m : mtime' = [ mtime EXCEPT ![a] = m ] => mtime'[a] = m
      /\ \A s : seen' = [ seen EXCEPT ![a] = s ] => seen'[a] = s
      /\ \A c : answer' = [ answer EXCEPT ![a] = c ] => answer'[a] = c
  BY DEF TypeOK, TextOK, FilesOK, Process
<1>2. CASE OpenPending(a)
  <2>1. /\ pc[a] = "start" /\ mtime[a] = 0 /\ a \notin unstamped
        /\ text'[a] = pending.lines /\ seen'[a] = {pending}
        /\ pending' = pending /\ mtime' = mtime /\ unstamped' = unstamped
    BY <1>1, <1>2 DEF OpenPending, ActInv
  <2>2. CASE Malformed \in Range(pending.lines)
    <3>1. pc'[a] = "done" /\ answer'[a] = "ERROR"
      BY <1>1, <1>2, <2>2 DEF OpenPending
    <3> QED BY <3>1 DEF ActInv
  <2>3. CASE Malformed \notin Range(pending.lines)
    <3>1. pc'[a] = IF pending = NoFile THEN "compare" ELSE "stat"
      BY <1>1, <1>2, <2>3 DEF OpenPending
    <3>2. Clean(text[a])'
      BY <2>1, <2>3 DEF Clean, FilesOK, IsText
    <3>3. pending \in seen'[a] /\ Span(seen'[a], pending, pending)
      BY <2>1 DEF Span, FilesOK
    <3>4. CASE pending # NoFile
      <4>1. pc'[a] = "stat" /\ pending' # NoFile /\ pending.lines = text'[a]
        BY <2>1, <3>1, <3>4
      <4> QED BY <2>1, <3>2, <3>3, <3>4, <4>1 DEF ActInv
    <3>5. CASE pending = NoFile
      <4>1. pc'[a] = "compare" /\ pending.lines = text'[a]
        BY <2>1, <3>1, <3>5
      <4>2. pending = NoFile /\ mtime'[a] = 0
        BY <2>1, <3>5
      <4> QED BY <3>2, <3>3, <4>1, <4>2 DEF ActInv, Asked
    <3> QED BY <3>4, <3>5
  <2> QED BY <2>2, <2>3
<1>3. CASE StatPending(a)
  <2>1. /\ pc[a] = "stat" /\ pc'[a] = "compare"
        /\ \/ mtime'[a] = pending.mtime /\ unstamped' = unstamped
           \/ mtime' = mtime /\ unstamped' = unstamped \cup {a}
        /\ pending' = pending /\ seen' = seen /\ text' = text
    BY <1>1, <1>3 DEF StatPending
  <2>2. /\ mtime[a] = 0 /\ a \notin unstamped /\ pending # NoFile /\ Clean(text[a])
    BY <2>1 DEF ActInv
  <2>3. PICK old \in seen[a] :
          Span(seen[a], old, pending) /\ old.lines = text[a] /\ old # NoFile
    BY <2>1 DEF ActInv
  <2>4. Clean(text[a])'
    BY <2>1, <2>2 DEF Clean, IsText
  <2>5. IF a \in unstamped' \/ old = NoFile
        THEN mtime'[a] = 0 ELSE mtime'[a] = pending.mtime /\ mtime'[a] # 0
    <3>1. pending.mtime # 0
      BY <2>2 DEF FilesOK
    <3> QED BY <2>1, <2>2, <2>3, <3>1
  <2>6. old \in seen'[a] /\ pending \in seen'[a] /\ Span(seen'[a], old, pending)
    BY <2>1, <2>3 DEF Span
  <2>7. old.lines = text'[a]
    BY <2>1, <2>3
  <2> QED BY <2>1, <2>4, <2>5, <2>6, <2>7 DEF ActInv, Asked
<1>4. CASE Compare(a)
  <2>1. /\ pc[a] = "compare" /\ active' = active /\ unstamped' = unstamped
        /\ pending' = pending /\ seen' = seen /\ text' = text /\ mtime' = mtime
    BY <1>4 DEF Compare
  <2>2. PICK old \in seen[a], new \in seen[a] :
          Span(seen[a], old, new) /\ old.lines = text[a] /\ Asked(a, old, new)
    BY <2>1 DEF ActInv
  <2>3. IsList(text[a]) /\ Clean(text[a])
    BY <2>1 DEF ActInv, Clean, IsText, IsList
  <2>4. Clean(text[a])'
    BY <2>1, <2>3 DEF Clean, IsText
  <2>5. \/ pc'[a] = "done" /\ answer'[a] = "ERROR"
        \/ pc'[a] = "write"
        \/ /\ pc'[a] = "stamp" /\ answer'[a] = "NONE"
           /\ ~Diff(FromFile(active.lines), FromFile(text[a]))
    BY <1>1, <1>4 DEF Compare
  <2>6. pc'[a] = "stamp" => Contexts(active'.lines) = Contexts(text'[a])
    BY <2>1, <2>3, <2>5, EqualContexts
  <2>7. /\ old \in seen'[a] /\ new \in seen'[a] /\ Span(seen'[a], old, new)
        /\ old.lines = text'[a] /\ Asked(a, old, new)'
    BY <2>1, <2>2 DEF Asked
  <2> QED BY <2>4, <2>5, <2>6, <2>7 DEF ActInv, Asked
<1>5. CASE WriteActive(a)
  <2>1. /\ pc[a] = "write" /\ pc'[a] = "stamp" /\ unstamped' = unstamped
        /\ active'.lines = Printed(FromFile(text[a])) /\ active'.mtime = Now
        /\ pending' = pending /\ seen' = seen /\ text' = text /\ mtime' = mtime
    BY <1>1, <1>5 DEF WriteActive
  <2>2. PICK old \in seen[a], new \in seen[a] :
          Span(seen[a], old, new) /\ old.lines = text[a] /\ Asked(a, old, new)
    BY <2>1 DEF ActInv
  <2>3. Clean(text[a])
    BY <2>1 DEF ActInv
  <2>4. Clean(text[a])'
    BY <2>1, <2>3 DEF Clean, IsText
  <2>5. Contexts(active'.lines) = Contexts(text'[a])
    BY <2>1, <2>3, PrintedContexts
  <2>6. /\ old \in seen'[a] /\ new \in seen'[a] /\ Span(seen'[a], old, new)
        /\ old.lines = text'[a] /\ Asked(a, old, new)'
    BY <2>1, <2>2 DEF Asked
  <2> QED BY <2>1, <2>4, <2>5, <2>6 DEF ActInv, Asked
<1>6. CASE StampActive(a)
  <2>1. /\ pc[a] = "stamp" /\ pc'[a] = "done" /\ seen' = seen /\ answer' = answer
        /\ \/ /\ active' = IF mtime[a] # 0 /\ active # NoFile
                           THEN [ active EXCEPT !.mtime = mtime[a] ] ELSE active
              /\ unstamped' = unstamped
           \/ active' = active /\ unstamped' = unstamped \cup {a}
    BY <1>1, <1>6 DEF StampActive
  <2>2. PICK old \in seen[a], new \in seen[a] :
          Span(seen[a], old, new) /\ old.lines = text[a] /\ Asked(a, old, new)
    BY <2>1 DEF ActInv
  <2>3. /\ Contexts(active.lines) = Contexts(text[a])
        /\ answer[a] = "MODIFIED" => active.mtime = Now
    BY <2>1 DEF ActInv
  <2>4. active'.lines = active.lines
    BY <2>1 DEF FilesOK, IsFile
  <2>5. Stamped(a, old, new)'
    <3>1. CASE active' = active /\ unstamped' = unstamped \cup {a}
      BY <2>1, <2>3, <3>1 DEF Stamped
    <3>2. CASE /\ active' = IF mtime[a] # 0 /\ active # NoFile
                           THEN [ active EXCEPT !.mtime = mtime[a] ] ELSE active
               /\ unstamped' = unstamped
      <4>1. CASE a \in unstamped \/ old = NoFile
        <5>1. active' = active
          BY <2>2, <3>2, <4>1 DEF Asked
        <5> QED BY <2>1, <2>3, <3>2, <4>1, <5>1 DEF Stamped
      <4>2. CASE ~(a \in unstamped \/ old = NoFile)
        <5>1. mtime[a] = new.mtime /\ mtime[a] # 0
          BY <2>2, <4>2 DEF Asked
        <5>2. CASE active = NoFile
          BY <2>1, <2>3, <3>2, <5>2 DEF Stamped
        <5>3. CASE active # NoFile
          <6>1. active'.mtime = new.mtime
            BY <3>2, <5>1, <5>3 DEF FilesOK, IsFile
          <6>2. active' # NoFile
            BY <5>1, <6>1 DEF NoFile
          <6> QED BY <3>2, <4>2, <6>1, <6>2 DEF Stamped
        <5> QED BY <5>2, <5>3
      <4> QED BY <4>1, <4>2
    <3> QED BY <2>1, <3>1, <3>2
  <2>6. /\ old \in seen'[a] /\ new \in seen'[a] /\ Span(seen'[a], old, new)
        /\ Contexts(active'.lines) = Contexts(old.lines)
    BY <2>1, <2>2, <2>3, <2>4
  <2> QED BY <2>1, <2>5, <2>6 DEF ActInv, Stamped
<1>7. CASE ActivateFails(a)
  <2>1. pc'[a] = "done" /\ answer'[a] = "ERROR"
    BY <1>1, <1>7 DEF ActivateFails
  <2> QED BY <2>1 DEF ActInv
<1> QED BY <1>2, <1>3, <1>4, <1>5, <1>6, <1>7 DEF ActivatorStep

LEMMA CrashFresh ==
  ASSUME TypeOK, TextOK, FreshInv,
         \/ \E u \in Updater : CrashUpdater(u)
         \/ \E a \in Activator : CrashActivator(a)
  PROVE  FreshInv'
<1> USE DEF files, history, Goto
<1>1. ASSUME NEW u \in Updater, CrashUpdater(u)
      PROVE  FreshInv'
  <2>1. /\ pending' = pending /\ active' = active /\ request' = request
        /\ mtime' = mtime /\ seen' = seen /\ answer' = answer
        /\ unstamped' = unstamped
        /\ \A v \in Updater : pc'[v] = "replace" => pc[v] = "replace" /\ text'[v] = text[v]
    BY <1>1 DEF CrashUpdater, CrashOf, TypeOK, TextOK, Process
  <2>2. \A a \in Activator : pc'[a] = pc[a] /\ text'[a] = text[a]
    BY <1>1, ActivatorAssumption DEF CrashUpdater, CrashOf, TypeOK, TextOK, Process
  <2>3. FilesOK'
    BY <2>1 DEF FreshInv, FilesOK
  <2>4. \A a \in Activator : ActInv(a) => ActInv(a)'
    BY <2>1, <2>2 DEF ActInv, Asked, Stamped, Clean, IsText
  <2> QED BY <2>3, <2>4 DEF FreshInv, OneActivation
<1>2. ASSUME NEW a \in Activator, CrashActivator(a)
      PROVE  FreshInv'
  <2>1. /\ pending' = pending /\ active' = active /\ request' = request
        /\ pc'[a] = "crashed"
        /\ \A u \in Updater : pc'[u] = pc[u] /\ text'[u] = text[u]
    BY <1>2, ActivatorAssumption DEF CrashActivator, CrashOf, TypeOK, TextOK, Process
  <2>2. /\ mtime' = [ b \in Activator |-> mtime'[b] ]
        /\ seen' = [ b \in Activator |-> seen'[b] ]
    BY <1>2 DEF CrashActivator, FreshInv, FilesOK
  <2>3. FilesOK'
    BY <2>1, <2>2 DEF FreshInv, FilesOK
  <2>4. ActInv(a)'
    BY <2>1 DEF ActInv
  <2> QED BY <2>3, <2>4 DEF FreshInv, OneActivation
<1> QED BY <1>1, <1>2

LEMMA NextFresh ==
  ASSUME TypeOK, TextOK, FreshInv, [Next]_vars
  PROVE  FreshInv'
<1>1. CASE UNCHANGED vars
  <2>1. /\ pending' = pending /\ active' = active /\ request' = request /\ pc' = pc
        /\ text' = text /\ mtime' = mtime /\ seen' = seen /\ answer' = answer
        /\ unstamped' = unstamped
    BY <1>1 DEF vars, files, locals, history
  <2>2. FilesOK'
    BY <2>1 DEF FreshInv, FilesOK
  <2>3. \A a \in Activator : ActInv(a) => ActInv(a)'
    BY <2>1 DEF ActInv, Asked, Stamped, Clean, IsText
  <2> QED BY <2>2, <2>3 DEF FreshInv, OneActivation
<1>2. ASSUME NEW u \in Updater, UpdaterStep(u)
      PROVE  FreshInv'
  BY <1>2, UpdaterFiles, UpdaterFresh DEF FreshInv, OneActivation
<1>3. ASSUME NEW a \in Activator, ActivatorStep(a)
      PROVE  FreshInv'
  BY <1>3, ActivatorFiles, ActivatorFresh DEF FreshInv, OneActivation
<1> QED BY <1>1, <1>2, <1>3, CrashFresh DEF Next, Work

(* Whatever the updates do meanwhile, and whatever fails or stops: when an *)
(* activation, the only one of its directory, ends well, the active file   *)
(* has the contexts of the pending file that was opened, and the time of   *)
(* the newest that took its place before the time was asked for, unless    *)
(* there was none or stat or utime failed (lcfgcontext_pending_to_active). *)
THEOREM ActivationsAreFresh == Spec => []ActivationFresh
<1>1. Init => TypeOK /\ TextOK /\ FreshInv
  BY InitType, InitFresh
<1>2. TypeOK /\ TextOK /\ FreshInv /\ [Next]_vars => TypeOK' /\ TextOK' /\ FreshInv'
  BY NextType, NextFresh
<1>3. FreshInv => ActivationFresh
  <2> SUFFICES ASSUME FreshInv, OneActivation, NEW a \in Activator,
                      pc[a] = "done", answer[a] # "ERROR"
               PROVE  \E opened, asked \in seen[a] :
                        /\ \A f \in seen[a] : opened.mtime <= f.mtime /\ f.mtime <= asked.mtime
                        /\ Contexts(active.lines) = Contexts(opened.lines)
                        /\ Stamped(a, opened, asked)
    BY DEF OneActivation, ActivationFresh, Stamped
  <2> QED BY DEF FreshInv, ActInv, Span
<1> QED BY <1>1, <1>2, <1>3, PTL DEF Spec
=============================================================================
