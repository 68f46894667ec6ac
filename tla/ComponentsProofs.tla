--------------------------- MODULE ComponentsProofs ---------------------------
(***************************************************************************)
(* Proofs about the components that MCComponents runs: the SAML logouts,   *)
(* the signing keys, the enrollment, the lifecycle runs, the updates and   *)
(* the state file, and, from the invariants that modules of their own      *)
(* prove, the start-up, the tunnel supervisor and the fault scenarios.     *)
(*                                                                         *)
(* MCComponents gives every component the variables x1 .. x15 and its sets *)
(* of model values.  Each section begins by giving them the names they     *)
(* have in the component, ends with the inductive invariant's two steps,   *)
(* and the last section concludes from them what holds of AllSpec.         *)
(***************************************************************************)
EXTENDS MCComponents, FaultScenariosProofs, SequencesExt, WellFoundedInduction

-----------------------------------------------------------------------------
(* SAML logouts: a step shows the answer to its own LogoutRequest.         *)

live == x1
log == x2
steps == x3
browser == x4     \* tab, there
carried == x5
sent == x6
first == x7
Sessions == Things
NoSession == None
NoRequest == None
Tabs == Actors
USE DEF live, log, steps, browser, carried, sent, first, Sessions, NoSession, NoRequest, Tabs

\* Follows from ComponentsAssumption.
LogoutLimits == LogSize \in Nat /\ MaxRequests \in Nat
Entry == [request : Logouts!LogoutIds, outcome : Logouts!Outcome \union {"pending"}]

\* The log has one entry of each LogoutRequest, and only of ones that were sent.
EntriesAreSent ==
    /\ \A i \in 1 .. Len(log) : log[i].request <= sent
    /\ \A i, j \in 1 .. Len(log) : log[i].request = log[j].request => i = j
\* An entry tells the first answer, or that there is none.
LogTellsFirst ==
    /\ \A i \in 1 .. Len(log) :
          first[log[i].request] = IF log[i].outcome = "pending" THEN "none" ELSE log[i].outcome
    /\ \A r \in Logouts!LogoutIds : r > sent => first[r] = "none"
\* A step that was given an outcome was given its own request's first answer.
StepsAreTold ==
    \A s \in Sessions : steps[s].status \in Logouts!Outcome =>
        steps[s].request \in Logouts!LogoutIds /\ steps[s].status = first[steps[s].request]
\* A tab in the middle of a logout has a session, and a request once it is sent.
TabsHaveTheirs ==
    \A t \in Tabs :
        /\ browser[t].at # "idle" => browser[t].session \in Sessions
        /\ browser[t].at = "sent" => browser[t].request \in Logouts!LogoutIds

\* The inductive invariant.
LogoutsInv ==
    Logouts!TypeOK /\ EntriesAreSent /\ LogTellsFirst /\ StepsAreTold /\ TabsHaveTheirs

\* The log is a sequence of entries.
LEMMA EntriesTyped ==
    ASSUME LogoutsInv PROVE log \in Seq(Entry) /\ \A i \in 1 .. Len(log) : log[i] \in Entry
<1>1. log \in Seq(Entry)
  BY DEF LogoutsInv, Logouts!TypeOK, Entry
<1> QED BY <1>1

\* A new request is put before the log, which loses what is beyond its size.
LEMMA RememberedIs ==
    ASSUME LogoutLimits, log \in Seq(Entry), NEW r \in Logouts!LogoutIds
    PROVE  LET after == Logouts!Remembered(r)
           IN  /\ after \in Seq(Entry) /\ Len(after) <= LogSize
               /\ Len(after) <= Len(log) + 1
               /\ \A i \in 1 .. Len(after) :
                     after[i] = IF i = 1 THEN [request |-> r, outcome |-> "pending"]
                                ELSE log[i - 1]
<1> DEFINE new == [request |-> r, outcome |-> "pending"]
           entries == <<new>> \o log
           n == Logouts!Min({LogSize, Len(entries)})
<1>1. new \in Entry
  BY DEF Entry
<1>2. entries \in Seq(Entry) /\ Len(entries) = Len(log) + 1
  BY <1>1
<1>3. \A i \in 1 .. Len(entries) : entries[i] = IF i = 1 THEN new ELSE log[i - 1]
  BY <1>1
<1>4. n \in Nat /\ n <= LogSize /\ n <= Len(entries)
  <2> DEFINE S == {LogSize, Len(entries)}
  <2>1. LogSize \in Nat /\ Len(entries) \in Nat
    BY <1>2 DEF LogoutLimits
  <2> HIDE DEF entries
  <2>2. \E m \in S : \A k \in S : m <= k
    BY <2>1
  <2>3. n \in S /\ \A k \in S : n <= k
    BY <2>2 DEF Logouts!Min
  <2> QED BY <2>1, <2>3
<1>5. Logouts!Remembered(r) = SubSeq(entries, 1, n)
  BY DEF Logouts!Remembered
<1> HIDE DEF entries, n, new
<1>6. /\ SubSeq(entries, 1, n) \in Seq(Entry) /\ Len(SubSeq(entries, 1, n)) = n
      /\ \A i \in 1 .. n : SubSeq(entries, 1, n)[i] = entries[i]
  BY <1>2, <1>4
<1> QED BY <1>2, <1>3, <1>4, <1>5, <1>6 DEF new, LogoutLimits

\* A step whose request is still in the log shows what its entry tells.
LEMMA ShownIs ==
    ASSUME LogoutsInv, NEW s \in Sessions, steps[s].request # NoRequest,
           Logouts!Entries(steps[s].request) # {}
    PROVE  \E i \in 1 .. Len(log) :
              /\ log[i].request = steps[s].request
              /\ Logouts!Shown(steps[s]) =
                    IF log[i].outcome = "pending" THEN "waiting" ELSE log[i].outcome
<1>1. PICK i \in 1 .. Len(log) : log[i].request = steps[s].request
  BY DEF Logouts!Entries
<1>2. Logouts!Entries(steps[s].request) = {i}
  BY <1>1 DEF Logouts!Entries, LogoutsInv, EntriesAreSent
<1>3. Logouts!Max({i}) = i
  <2>1. i \in Int
    OBVIOUS
  <2> QED BY <2>1 DEF Logouts!Max
<1> QED BY <1>1, <1>2, <1>3 DEF Logouts!Shown

\* The invariant implies the property.
LEMMA LogoutsImply == ASSUME LogoutsInv PROVE Logouts!StepsShowTheirAnswer
<1> SUFFICES ASSUME NEW s \in Sessions, steps[s].request # NoRequest,
                    Logouts!Entries(steps[s].request) # {}, first[steps[s].request] # "none"
             PROVE  Logouts!Shown(steps[s]) = first[steps[s].request]
  BY DEF Logouts!StepsShowTheirAnswer, LogoutsInv, StepsAreTold
<1> QED BY ShownIs DEF LogoutsInv, LogTellsFirst

\* The invariant holds initially ...
LEMMA LogoutsInit == ASSUME LogoutLimits, Logouts!Init PROVE LogoutsInv
  BY DEF LogoutLimits, Logouts!Init, LogoutsInv, Logouts!TypeOK, EntriesAreSent, LogTellsFirst,
         StepsAreTold, TabsHaveTheirs,
         Logouts!Idle, Logouts!NoStep, Logouts!Outcome, Logouts!LogoutIds

\* What Logouts!StartSAMLLogout keeps.
LEMMA StartStep ==
    ASSUME LogoutLimits, LogoutsInv, Logouts!StartSAMLLogout, UNCHANGED first
    PROVE  /\ log' \in Seq(Entry) /\ Len(log') <= LogSize
           /\ sent' \in Logouts!LogoutIds /\ sent' = sent + 1 /\ sent' \in 0 .. MaxRequests
           /\ EntriesAreSent' /\ LogTellsFirst'
<1>1. sent' = sent + 1 /\ sent' \in Logouts!LogoutIds /\ sent \in 0 .. MaxRequests
      /\ sent' \in 0 .. MaxRequests
  BY DEF Logouts!StartSAMLLogout, LogoutsInv, Logouts!TypeOK, LogoutLimits, Logouts!LogoutIds
<1>2. log \in Seq(Entry)
  BY DEF LogoutsInv, Logouts!TypeOK, Entry
<1>3. log' = Logouts!Remembered(sent')
  BY <1>1 DEF Logouts!StartSAMLLogout
<1>4. /\ log' \in Seq(Entry) /\ Len(log') <= LogSize /\ Len(log') <= Len(log) + 1
      /\ \A i \in 1 .. Len(log') :
            log'[i] = IF i = 1 THEN [request |-> sent', outcome |-> "pending"] ELSE log[i - 1]
  BY <1>1, <1>2, <1>3, RememberedIs
<1>5. \A i \in 1 .. Len(log') : i # 1 => i - 1 \in 1 .. Len(log) /\ log'[i] = log[i - 1]
  BY <1>2, <1>4
<1>6. \A i \in 1 .. Len(log) : log[i].request \in Logouts!LogoutIds /\ log[i].request <= sent
  BY EntriesTyped DEF LogoutsInv, EntriesAreSent, Entry
<1>7. EntriesAreSent'
  <2>1. ASSUME NEW i \in 1 .. Len(log') PROVE log'[i].request <= sent'
    <3>1. CASE i = 1
      <4>1. log'[i].request = sent'
        BY <1>4, <3>1
      <4> QED BY <1>1, <4>1 DEF Logouts!LogoutIds
    <3>2. CASE i # 1
      <4>1. log'[i].request <= sent /\ log'[i].request \in Logouts!LogoutIds
        BY <1>5, <1>6, <3>2
      <4> QED BY <1>1, <4>1 DEF Logouts!LogoutIds
    <3> QED BY <3>1, <3>2
  <2>2. ASSUME NEW i \in 1 .. Len(log'), NEW j \in 1 .. Len(log'), log'[i].request = log'[j].request
        PROVE  i = j
    <3>1. CASE i = 1 /\ j # 1
      <4>1. log'[j].request <= sent /\ log'[i].request = sent + 1
        BY <1>1, <1>4, <1>5, <1>6, <3>1
      <4> QED BY <1>1, <1>5, <1>6, <2>2, <3>1, <4>1 DEF Logouts!LogoutIds
    <3>2. CASE i # 1 /\ j = 1
      <4>1. log'[i].request <= sent /\ log'[j].request = sent + 1
        BY <1>1, <1>4, <1>5, <1>6, <3>2
      <4> QED BY <1>1, <1>5, <1>6, <2>2, <3>2, <4>1 DEF Logouts!LogoutIds
    <3>3. CASE i # 1 /\ j # 1
      <4>1. i - 1 = j - 1
        BY <1>5, <2>2, <3>3 DEF LogoutsInv, EntriesAreSent
      <4> QED BY <4>1
    <3> QED BY <3>1, <3>2, <3>3
  <2> QED BY <2>1, <2>2 DEF EntriesAreSent
<1>8. LogTellsFirst'
  <2>1. first[sent'] = "none"
    BY <1>1 DEF LogoutsInv, LogTellsFirst
  <2>2. ASSUME NEW i \in 1 .. Len(log')
        PROVE  first[log'[i].request] =
                  IF log'[i].outcome = "pending" THEN "none" ELSE log'[i].outcome
    <3>1. CASE i = 1
      BY <1>4, <2>1, <3>1
    <3>2. CASE i # 1
      BY <1>5, <3>2 DEF LogoutsInv, LogTellsFirst
    <3> QED BY <3>1, <3>2
  <2>3. \A r \in Logouts!LogoutIds : r > sent' => first[r] = "none"
    BY <1>1 DEF LogoutsInv, LogTellsFirst, Logouts!LogoutIds
  <2> QED BY <2>2, <2>3 DEF LogTellsFirst
<1> QED BY <1>1, <1>4, <1>7, <1>8

\* An answer changes one entry, and is the first if that was pending.
LEMMA AnswerStep ==
    ASSUME LogoutsInv, NEW r \in Logouts!LogoutIds, NEW outcome \in Logouts!Outcome,
           Logouts!AnswerLogout(r, outcome)
    PROVE  LogoutsInv'
<1>1. PICK p \in 1 .. Len(log) : log[p].request = r /\ log[p].outcome = "pending"
  BY DEF Logouts!AnswerLogout, Logouts!Pending, Logouts!Entries
<1>2. Logouts!Pending(r) = {p}
  BY <1>1 DEF Logouts!Pending, Logouts!Entries, LogoutsInv, EntriesAreSent
<1>3. log \in Seq(Entry) /\ first \in [Logouts!LogoutIds -> Logouts!Outcome \union {"none"}]
  BY DEF LogoutsInv, Logouts!TypeOK, Entry
<1>4. first[r] = "none"
  BY <1>1 DEF LogoutsInv, LogTellsFirst
<1>5. log' = [i \in 1 .. Len(log) |->
                IF i = p THEN [log[i] EXCEPT !.outcome = outcome] ELSE log[i]]
  BY <1>2 DEF Logouts!AnswerLogout
<1>6. first' = [first EXCEPT ![r] = outcome]
  BY <1>4 DEF Logouts!AnswerLogout
<1>7. /\ log' \in Seq(Entry) /\ Len(log') = Len(log)
      /\ \A i \in 1 .. Len(log) :
            /\ log'[i].request = log[i].request
            /\ log'[i].outcome = IF i = p THEN outcome ELSE log[i].outcome
  <2>1. \A i \in 1 .. Len(log) : log[i] \in Entry
    BY <1>3
  <2>2. [log[p] EXCEPT !.outcome = outcome] \in Entry
    BY <2>1 DEF Entry
  <2>3. \A i \in 1 .. Len(log) : log'[i] \in Entry
    BY <1>5, <2>1, <2>2
  <2>4. Len(log) \in Nat
    BY <1>3
  <2>5. log' \in Seq(Entry) /\ Len(log') = Len(log)
    BY <1>5, <2>3, <2>4
  <2> QED BY <1>5, <2>1, <2>5 DEF Entry
<1>u. UNCHANGED <<live, steps, browser, carried, sent>>
  BY DEF Logouts!AnswerLogout
<1>8. Logouts!TypeOK'
  <2>1. first' \in [Logouts!LogoutIds -> Logouts!Outcome \union {"none"}]
    BY <1>3, <1>6
  <2> QED BY <1>7, <1>u, <2>1 DEF LogoutsInv, Logouts!TypeOK, Entry
<1>9. EntriesAreSent'
  BY <1>7, <1>u DEF LogoutsInv, EntriesAreSent
<1>10. LogTellsFirst'
  <2>1. r <= sent
    BY <1>1 DEF LogoutsInv, EntriesAreSent
  <2>2. \A q \in Logouts!LogoutIds : first'[q] = IF q = r THEN outcome ELSE first[q]
    BY <1>3, <1>6
  <2>3. \A i \in 1 .. Len(log) : log[i].request \in Logouts!LogoutIds
        /\ (log[i].request = r <=> i = p)
    BY <1>1, EntriesTyped DEF LogoutsInv, EntriesAreSent, Entry
  <2>4. \A q \in Logouts!LogoutIds : q > sent' => first'[q] = "none"
    BY <1>u, <2>1, <2>2 DEF LogoutsInv, LogTellsFirst, Logouts!TypeOK, Logouts!LogoutIds
  <2>5. outcome # "pending"
    BY DEF Logouts!Outcome
  <2> QED BY <1>7, <2>2, <2>3, <2>4, <2>5 DEF LogoutsInv, LogTellsFirst
<1>11. StepsAreTold'
  BY <1>3, <1>4, <1>6, <1>u DEF LogoutsInv, StepsAreTold, Logouts!Outcome
<1>12. TabsHaveTheirs'
  BY <1>u DEF LogoutsInv, TabsHaveTheirs
<1> QED BY <1>8, <1>9, <1>10, <1>11, <1>12 DEF LogoutsInv

\* What is typed about the checklist and the requests in progress.
StepRecord == [status : Logouts!Outcome \union {"none", "needs_browser", "waiting"},
               request : Logouts!LogoutIds \union {NoRequest}]
TabRecord == [at : {"idle", "live", "offered", "sent"}, session : Sessions \union {NoSession},
              request : Logouts!LogoutIds \union {NoRequest}]

\* ... and every step keeps it.
LEMMA LogoutsStep ==
    ASSUME LogoutLimits, LogoutsInv, [Logouts!Next]_Logouts!vars
    PROVE  LogoutsInv'
<1>t. /\ steps \in [Sessions -> StepRecord] /\ browser \in [Tabs -> TabRecord]
      /\ Logouts!NoStep \in StepRecord /\ Logouts!Idle \in TabRecord
  BY DEF LogoutsInv, Logouts!TypeOK, StepRecord, TabRecord, Logouts!NoStep, Logouts!Idle
<1>a. ASSUME UNCHANGED <<log, sent, first>> PROVE EntriesAreSent' /\ LogTellsFirst'
  BY <1>a DEF LogoutsInv, EntriesAreSent, LogTellsFirst
<1>b. ASSUME UNCHANGED <<log, carried, sent, first>>, live' \subseteq live,
             steps' \in [Sessions -> StepRecord], browser' \in [Tabs -> TabRecord]
      PROVE  Logouts!TypeOK'
  BY <1>b DEF LogoutsInv, Logouts!TypeOK, StepRecord, TabRecord
<1>c. ASSUME NEW t \in Tabs, NEW q \in TabRecord, browser' = [browser EXCEPT ![t] = q],
             q.at # "idle" => q.session \in Sessions,
             q.at = "sent" => q.request \in Logouts!LogoutIds
      PROVE  TabsHaveTheirs' /\ browser' \in [Tabs -> TabRecord]
  BY <1>c, <1>t DEF LogoutsInv, TabsHaveTheirs
<1>d. ASSUME UNCHANGED <<steps, first>> PROVE StepsAreTold'
  BY <1>d DEF LogoutsInv, StepsAreTold
<1>1. CASE Logouts!EndSessions
  <2>1. \A s \in Sessions :
            steps'[s] \in {[Logouts!NoStep EXCEPT !.status = "needs_browser"], steps[s]}
    BY <1>1 DEF Logouts!EndSessions
  <2>2. steps' \in [Sessions -> StepRecord]
    BY <1>1, <1>t DEF Logouts!EndSessions, StepRecord
  <2>3. StepsAreTold'
    BY <1>1, <2>1 DEF Logouts!EndSessions, LogoutsInv, StepsAreTold, Logouts!NoStep,
           Logouts!Outcome
  <2>4. TabsHaveTheirs'
    BY <1>1 DEF Logouts!EndSessions, LogoutsInv, TabsHaveTheirs
  <2> QED BY <1>1, <1>a, <1>b, <1>t, <2>2, <2>3, <2>4 DEF Logouts!EndSessions, LogoutsInv
<1>2. CASE Logouts!View
  <2>1. \A s \in Sessions : steps'[s] = [steps[s] EXCEPT !.status = Logouts!Shown(steps[s])]
    BY <1>2 DEF Logouts!View
  <2>2. ASSUME NEW s \in Sessions
        PROVE  /\ steps'[s] \in StepRecord /\ steps'[s].request = steps[s].request
               /\ steps'[s].status \in Logouts!Outcome =>
                     steps[s].request \in Logouts!LogoutIds /\ steps'[s].status = first[steps[s].request]
    <3>1. steps[s] \in StepRecord
      BY <1>t
    <3>2. CASE steps[s].request = NoRequest \/ Logouts!Entries(steps[s].request) = {}
      <4>1. Logouts!Shown(steps[s]) = steps[s].status
        BY <3>2 DEF Logouts!Shown
      <4>2. steps'[s] = steps[s]
        BY <2>1, <3>1, <4>1 DEF StepRecord
      <4> QED BY <3>1, <4>2 DEF LogoutsInv, StepsAreTold
    <3>3. CASE steps[s].request # NoRequest /\ Logouts!Entries(steps[s].request) # {}
      <4>1. PICK i \in 1 .. Len(log) :
              /\ log[i].request = steps[s].request
              /\ Logouts!Shown(steps[s]) =
                    IF log[i].outcome = "pending" THEN "waiting" ELSE log[i].outcome
        BY <3>3, ShownIs
      <4>2. log[i] \in Entry
        BY EntriesTyped
      <4>3. first[log[i].request] = IF log[i].outcome = "pending" THEN "none" ELSE log[i].outcome
        BY DEF LogoutsInv, LogTellsFirst
      <4> QED BY <2>1, <3>1, <4>1, <4>2, <4>3 DEF StepRecord, Entry, Logouts!Outcome
    <3> QED BY <3>2, <3>3
  <2>3. steps' \in [Sessions -> StepRecord]
    BY <1>2, <2>2 DEF Logouts!View
  <2>4. StepsAreTold'
    BY <1>2, <2>2 DEF Logouts!View, StepsAreTold
  <2>5. TabsHaveTheirs'
    BY <1>2 DEF Logouts!View, LogoutsInv, TabsHaveTheirs
  <2> QED BY <1>2, <1>a, <1>b, <1>t, <2>3, <2>4, <2>5 DEF Logouts!View, LogoutsInv
<1>3. ASSUME NEW t \in Tabs, Logouts!LogOutSAMLSession(t) PROVE LogoutsInv'
  <2>1. Logouts!Idle \in TabRecord /\ Logouts!Idle.at = "idle"
    BY <1>t DEF Logouts!Idle
  <2>2. TabsHaveTheirs' /\ browser' \in [Tabs -> TabRecord]
    BY <1>3, <1>c, <2>1 DEF Logouts!LogOutSAMLSession
  <2>3. Logouts!StartSAMLLogout /\ UNCHANGED first /\ carried' = carried \union {sent'}
        /\ live' \subseteq live /\ UNCHANGED steps
    BY <1>3 DEF Logouts!LogOutSAMLSession
  <2> QED BY <1>d, <1>t, <2>2, <2>3, StartStep DEF LogoutsInv, Logouts!TypeOK, Entry,
                 StepRecord, TabRecord
<1>4. ASSUME NEW t \in Tabs, Logouts!SendLogout(t) PROVE LogoutsInv'
  <2>1. /\ Logouts!StartSAMLLogout /\ UNCHANGED <<live, steps, carried, first>>
           /\ browser[t].at = "offered"
        /\ browser' = [browser EXCEPT ![t].at = "sent", ![t].request = sent']
    BY <1>4 DEF Logouts!SendLogout
  <2>2. sent' \in Logouts!LogoutIds
    BY <2>1, StartStep
  <2> DEFINE q == [browser[t] EXCEPT !.at = "sent", !.request = sent']
  <2>3. browser' = [browser EXCEPT ![t] = q]
    BY <2>1, <1>t
  <2>4. browser[t] \in TabRecord /\ browser[t].session \in Sessions
    BY <2>1, <1>t DEF LogoutsInv, TabsHaveTheirs
  <2>5. q \in TabRecord /\ q.at = "sent" /\ q.session \in Sessions
        /\ q.request \in Logouts!LogoutIds
    BY <2>2, <2>4 DEF TabRecord
  <2>6. TabsHaveTheirs' /\ browser' \in [Tabs -> TabRecord]
    BY <1>c, <2>3, <2>5
  <2> QED BY <1>d, <1>t, <2>1, <2>6, StartStep DEF LogoutsInv, Logouts!TypeOK, Entry,
                 StepRecord, TabRecord
<1>5. ASSUME NEW t \in Tabs, Logouts!NoteSent(t) PROVE LogoutsInv'
  <2> DEFINE q == [status |-> "waiting", request |-> browser[t].request]
  <2>1. /\ browser[t].at = "sent" /\ steps' = [steps EXCEPT ![browser[t].session] = q]
        /\ carried' = carried \union {browser[t].request}
           /\ browser' = [browser EXCEPT ![t] = Logouts!Idle]
        /\ UNCHANGED <<live, log, sent, first>>
    BY <1>5 DEF Logouts!NoteSent
  <2>2. browser[t].request \in Logouts!LogoutIds /\ q \in StepRecord
        /\ q.status \notin Logouts!Outcome
    BY <2>1 DEF LogoutsInv, TabsHaveTheirs, StepRecord, Logouts!Outcome
  <2>3. steps' \in [Sessions -> StepRecord] /\ StepsAreTold'
    BY <1>t, <2>1, <2>2 DEF LogoutsInv, StepsAreTold
  <2>4. TabsHaveTheirs' /\ browser' \in [Tabs -> TabRecord]
    BY <1>c, <1>t, <2>1 DEF Logouts!Idle
  <2>5. Logouts!TypeOK'
    BY <2>1, <2>2, <2>3, <2>4 DEF LogoutsInv, Logouts!TypeOK, StepRecord, TabRecord
  <2> QED BY <1>a, <2>1, <2>3, <2>4, <2>5 DEF LogoutsInv
<1>6. ASSUME NEW t \in Tabs, NEW s \in Sessions, Logouts!CheckLive(t, s)
      \/ Logouts!CheckOffered(t, s) PROVE LogoutsInv'
  <2>1. PICK q \in {[Logouts!Idle EXCEPT !.at = a, !.session = s] : a \in {"live", "offered"}} :
          browser' = [browser EXCEPT ![t] = q]
    BY <1>6 DEF Logouts!CheckLive, Logouts!CheckOffered
  <2>2. UNCHANGED <<live, log, steps, carried, sent, first>>
    BY <1>6 DEF Logouts!CheckLive, Logouts!CheckOffered
  <2>3. q \in TabRecord /\ q.session \in Sessions /\ q.at # "sent"
    BY DEF TabRecord, Logouts!Idle
  <2>4. TabsHaveTheirs' /\ browser' \in [Tabs -> TabRecord]
    BY <1>c, <2>1, <2>3
  <2> QED BY <1>a, <1>b, <1>d, <1>t, <2>2, <2>4 DEF LogoutsInv
<1>7. ASSUME NEW r \in Logouts!LogoutIds, NEW outcome \in Logouts!Outcome,
             Logouts!AnswerLogout(r, outcome)
      PROVE  LogoutsInv'
  BY <1>7, AnswerStep
<1>8. CASE UNCHANGED Logouts!vars
  <2>1. TabsHaveTheirs'
    BY <1>8 DEF Logouts!vars, LogoutsInv, TabsHaveTheirs
  <2> QED BY <1>8, <1>a, <1>b, <1>d, <1>t, <2>1 DEF Logouts!vars, LogoutsInv
<1> QED BY <1>1, <1>2, <1>3, <1>4, <1>5, <1>6, <1>7, <1>8 DEF Logouts!Next

-----------------------------------------------------------------------------
(* Induction over the naturals, with a set for the predicate: the library's*)
(* induction theorems take an operator.                                    *)

\* A set of naturals that is not empty has a least element.
LEMMA Least == ASSUME NEW T \in SUBSET Nat, T # {} PROVE \E x \in T : \A y \in T : x <= y
<1>0. PICK a \in T : TRUE
  OBVIOUS
<1> DEFINE S == 0 .. a
           U == {0 .. x : x \in T \cap S}
<1>1. IsWellFoundedOn(StrictSubsetOrdering(S), FiniteSubsetsOf(S))
  BY FS_StrictSubsetOrderingWellFounded
<1>2. ASSUME NEW x \in T \cap S PROVE 0 .. x \in FiniteSubsetsOf(S)
  <2>1. x \in Int /\ 0 \in Int
    OBVIOUS
  <2>2. IsFiniteSet(0 .. x)
    BY <2>1, FS_Interval
  <2> QED BY <2>2 DEF FiniteSubsetsOf
<1>3. U \subseteq FiniteSubsetsOf(S) /\ U # {}
  <2>1. a \in T \cap S
    OBVIOUS
  <2> QED BY <1>2, <2>1
<1>4. PICK u \in U : \A v \in U : ~ (<<v, u>> \in StrictSubsetOrdering(S))
  <2> HIDE DEF U, S
  <2> QED BY <1>1, <1>3, WFMin
<1>5. PICK x \in T \cap S : u = 0 .. x
  OBVIOUS
<1>6. ASSUME NEW y \in T, y < x PROVE FALSE
  <2>1. y \in T \cap S /\ 0 .. y \in U
    BY <1>6
  <2>2. 0 .. y \subseteq 0 .. x /\ 0 .. y # 0 .. x /\ 0 .. x \subseteq S
    <3>1. x \in 0 .. x /\ x \notin 0 .. y
      BY <1>6
    <3> QED BY <3>1, <1>6
  <2>3. <<0 .. y, u>> \in StrictSubsetOrdering(S)
    BY <1>5, <2>2 DEF StrictSubsetOrdering
  <2> QED BY <1>4, <2>1, <2>3
<1> QED BY <1>6

\* What holds of zero, and of m + 1 when it holds of m, holds up to n.
LEMMA Induction ==
    ASSUME NEW n \in Nat, NEW S, 0 \in S, \A m \in 0 .. n - 1 : m \in S => m + 1 \in S
    PROVE  0 .. n \subseteq S
<1> DEFINE Bad == (0 .. n) \ S
<1>1. ASSUME NEW m \in Bad, \A k \in Bad : m <= k PROVE FALSE
  <2>1. m - 1 \in 0 .. n - 1 /\ m - 1 \in S
    BY <1>1
  <2> QED BY <1>1, <2>1
<1>2. Bad \in SUBSET Nat
  OBVIOUS
<1>3. Bad = {}
  <2> HIDE DEF Bad
  <2> QED BY <1>1, <1>2, Least
<1> QED BY <1>3

-----------------------------------------------------------------------------
(* Signing keys: what is published is what a rotation promised.            *)

ring == x1
next == x2
rotating == x3
backup == x4
clock == x5       \* now, there
promise == x6
Handlers == Actors
USE DEF ring, next, rotating, backup, clock, promise, Handlers

\* The recursive function of Unexpired, as an equation that it satisfies.
FilterBody(f, r, t, n) ==
  IF n = 0 THEN <<>> ELSE IF t < r[n].until THEN Append(f[n - 1], r[n]) ELSE f[n - 1]
Filtering(f, r, t) == f = [n \in 0 .. Len(r) |-> FilterBody(f, r, t, n)]

\* There is a function that satisfies it, by induction on its domain.
LEMMA FilterExists ==
    ASSUME NEW r \in Seq(Signing!Entries), NEW t \in Nat PROVE \E f : Filtering(f, r, t)
<1> DEFINE UpTo(m, f) == \A n \in 0 .. m : f[n] = FilterBody(f, r, t, n)
           S == {m \in Nat : \E f : UpTo(m, f)}
<1>1. 0 \in S
  <2>1. UpTo(0, [n \in {0} |-> <<>>])
    BY DEF FilterBody
  <2> QED BY <2>1
<1>2. ASSUME NEW m \in 0 .. Len(r) - 1, m \in S PROVE m + 1 \in S
  <2>1. PICK f : UpTo(m, f)
    BY <1>2
  <2> DEFINE g == [n \in 0 .. m + 1 |-> IF n = m + 1 THEN FilterBody(f, r, t, n) ELSE f[n]]
  <2>2. ASSUME NEW n \in 0 .. m + 1 PROVE g[n] = FilterBody(g, r, t, n)
    <3>1. n # 0 => g[n - 1] = f[n - 1]
      OBVIOUS
    <3>2. FilterBody(g, r, t, n) = FilterBody(f, r, t, n)
      BY <3>1 DEF FilterBody
    <3> QED BY <2>1, <3>2
  <2>3. UpTo(m + 1, g)
    BY <2>2
  <2>4. \E h : UpTo(m + 1, h)
    <3> HIDE DEF g
    <3> QED BY <2>3
  <2> QED BY <2>4
<1>3. Len(r) \in Nat
  OBVIOUS
<1>4. Len(r) \in S
  <2> HIDE DEF S
  <2>1. 0 .. Len(r) \subseteq S
    BY <1>1, <1>2, <1>3, Induction
  <2> QED BY <1>3, <2>1
<1>5. PICK f : UpTo(Len(r), f)
  BY <1>4
<1> DEFINE g == [n \in 0 .. Len(r) |-> f[n]]
<1>6. ASSUME NEW n \in 0 .. Len(r) PROVE g[n] = FilterBody(g, r, t, n)
  <2>1. n # 0 => g[n - 1] = f[n - 1]
    OBVIOUS
  <2>2. FilterBody(g, r, t, n) = FilterBody(f, r, t, n)
    BY <2>1 DEF FilterBody
  <2> QED BY <1>5, <2>2
<1>7. g = [n \in 0 .. Len(r) |-> FilterBody(g, r, t, n)]
  BY <1>6
<1> HIDE DEF g
<1> QED BY <1>7 DEF Filtering

\* A sequence holds the unexpired entries among the first n of a ring.
Filtered(kept, r, t, n) ==
    /\ kept \in Seq(Signing!Entries)
    /\ \A i \in 1 .. Len(kept) : \E j \in 1 .. n : t < r[j].until /\ kept[i] = r[j]
    /\ \A j \in 1 .. n : t < r[j].until => \E i \in 1 .. Len(kept) : kept[i] = r[j]

\* Unexpired keeps the unexpired entries of a ring and no others.
LEMMA UnexpiredIs ==
    ASSUME NEW r \in Seq(Signing!Entries), NEW t \in Nat
    PROVE  Filtered(Signing!Unexpired(r, t), r, t, Len(r))
<1> DEFINE f == CHOOSE f : Filtering(f, r, t)
           S == {n \in Nat : Filtered(f[n], r, t, n)}
<1>1. Signing!Unexpired(r, t) = f[Len(r)]
  BY DEF Signing!Unexpired, Filtering, FilterBody
<1>2. Filtering(f, r, t)
  BY FilterExists
<1> HIDE DEF f
<1>3. f[0] = <<>>
  BY <1>2 DEF Filtering, FilterBody
<1>4. \A n \in 1 .. Len(r) : f[n] = IF t < r[n].until THEN Append(f[n - 1], r[n]) ELSE f[n - 1]
  <2>1. \A n \in 0 .. Len(r) : f[n] = FilterBody(f, r, t, n)
    BY <1>2 DEF Filtering
  <2>2. \A n \in 1 .. Len(r) : n \in 0 .. Len(r) /\ n # 0
    OBVIOUS
  <2> QED BY <2>1, <2>2 DEF FilterBody
<1>5. 0 \in S
  <2>1. <<>> \in Seq(Signing!Entries) /\ Len(<<>>) = 0
    OBVIOUS
  <2>2. Filtered(<<>>, r, t, 0)
    BY <2>1 DEF Filtered
  <2> QED BY <1>3, <2>2
<1>6. ASSUME NEW m \in 0 .. Len(r) - 1, m \in S PROVE m + 1 \in S
  <2> DEFINE k == f[m]
             e == r[m + 1]
  <2>1. Filtered(k, r, t, m) /\ m \in Nat /\ m + 1 \in 1 .. Len(r) /\ e \in Signing!Entries
    BY <1>6
  <2>2. f[m + 1] = IF t < e.until THEN Append(k, e) ELSE k
    BY <1>4, <2>1
  <2>3. ASSUME NEW j \in 1 .. m + 1 PROVE j \in 1 .. m \/ j = m + 1
    BY <2>1
  <2> HIDE DEF k, e
  <2>4. CASE ~(t < e.until)
    <3>1. Filtered(k, r, t, m + 1)
      BY <2>1, <2>3, <2>4 DEF Filtered, e
    <3> QED BY <2>1, <2>2, <2>4, <3>1
  <2>5. CASE t < e.until
    <3> DEFINE a == Append(k, e)
    <3>1. k \in Seq(Signing!Entries)
      BY <2>1 DEF Filtered
    <3>2. /\ a \in Seq(Signing!Entries) /\ Len(a) = Len(k) + 1 /\ a[Len(k) + 1] = e
          /\ Len(k) \in Nat /\ \A i \in 1 .. Len(k) : a[i] = k[i]
      BY <2>1, <3>1
    <3> HIDE DEF a
    <3>3. ASSUME NEW i \in 1 .. Len(a) PROVE \E j \in 1 .. m + 1 : t < r[j].until /\ a[i] = r[j]
      <4>1. CASE i = Len(k) + 1
        <5>1. a[i] = r[m + 1] /\ t < r[m + 1].until
          BY <2>5, <3>2, <4>1 DEF e
        <5> QED BY <2>1, <5>1
      <4>2. CASE i # Len(k) + 1
        <5>1. i \in 1 .. Len(k) /\ a[i] = k[i]
          BY <3>2, <4>2
        <5>2. PICK j \in 1 .. m : t < r[j].until /\ k[i] = r[j]
          BY <2>1, <5>1 DEF Filtered
        <5>3. j \in 1 .. m + 1
          BY <2>1
        <5> QED BY <5>1, <5>2, <5>3
      <4> QED BY <4>1, <4>2
    <3>4. ASSUME NEW j \in 1 .. m + 1, t < r[j].until PROVE \E i \in 1 .. Len(a) : a[i] = r[j]
      <4>1. CASE j = m + 1
        <5>1. Len(k) + 1 \in 1 .. Len(a) /\ a[Len(k) + 1] = r[j]
          BY <3>2, <4>1 DEF e
        <5> QED BY <5>1
      <4>2. CASE j # m + 1
        <5>1. PICK i \in 1 .. Len(k) : k[i] = r[j]
          BY <2>1, <2>3, <3>4, <4>2 DEF Filtered
        <5>2. i \in 1 .. Len(a) /\ a[i] = k[i]
          BY <3>2
        <5> QED BY <5>1, <5>2
      <4> QED BY <4>1, <4>2
    <3>5. Filtered(a, r, t, m + 1)
      BY <3>2, <3>3, <3>4 DEF Filtered
    <3>6. f[m + 1] = a /\ m + 1 \in Nat
      BY <2>1, <2>2, <2>5 DEF a
    <3> QED BY <3>5, <3>6
  <2> QED BY <2>4, <2>5
<1>7. Len(r) \in Nat
  OBVIOUS
<1>8. Len(r) \in S
  <2> HIDE DEF S
  <2>1. 0 .. Len(r) \subseteq S
    BY <1>5, <1>6, <1>7, Induction
  <2> QED BY <1>7, <2>1
<1> QED BY <1>1, <1>8

\* Follows from ComponentsAssumption.
SigningBounds == MaxKeys \in Nat /\ MaxGrace \in Nat /\ MaxNow \in Nat

\* A ring ends in the active key, the others expire, and a key has one expiry.
WellFormed(r) ==
    /\ r # <<>> => r[Len(r)].until = Signing!Never
    /\ \A i \in 1 .. Len(r) - 1 : r[i].until < Signing!Never
    /\ \A i, j \in 1 .. Len(r) : r[i].id = r[j].id => r[i].until = r[j].until
    /\ \A i \in 1 .. Len(r) : r[i].id < next
\* The ring and what a backup may restore are well-formed.
RingsAreWellFormed == WellFormed(ring) /\ WellFormed(backup)
\* The ring has the keys until the time that was promised; the promise of one
\* that is not in it has passed.
RingIsPromised ==
    LET r == Signing!FromShared(ring)
    IN  /\ \A i \in 1 .. Len(r) : promise[r[i].id] = r[i].until
        /\ \A k \in Signing!Keys : (\A i \in 1 .. Len(r) : r[i].id # k) => promise[k] <= clock
\* A rotation took its time from the past.
RequestsArePast == \A h \in Handlers : rotating[h] # Signing!Idle => rotating[h].at <= clock

\* The inductive invariant.
SigningInv == Signing!TypeOK /\ RingsAreWellFormed /\ RingIsPromised /\ RequestsArePast

\* A ring that is empty begins with the shared key.
LEMMA SharedStarts ==
    ASSUME SigningBounds, next \in 1 .. MaxKeys + 1, NEW r \in Seq(Signing!Entries),
           WellFormed(r)
    PROVE  /\ Signing!FromShared(r) \in Seq(Signing!Entries) /\ WellFormed(Signing!FromShared(r))
           /\ Len(Signing!FromShared(r)) \in Nat \ {0}
           /\ Signing!FromShared(r)[Len(Signing!FromShared(r))].until = Signing!Never
<1> DEFINE e == [id |-> Signing!Shared, until |-> Signing!Never]
<1>1. CASE r = <<>>
  <2>1. Signing!FromShared(r) = <<e>>
    BY <1>1 DEF Signing!FromShared
  <2>2. e \in Signing!Entries /\ e.until = Signing!Never /\ e.id < next
    BY DEF SigningBounds, Signing!Entries, Signing!Keys, Signing!Shared, Signing!Never
  <2> HIDE DEF e
  <2>3. <<e>> \in Seq(Signing!Entries) /\ Len(<<e>>) = 1 /\ <<e>>[1] = e
    BY <2>2
  <2> QED BY <2>1, <2>2, <2>3 DEF WellFormed
<1>2. CASE r # <<>>
  <2>1. Signing!FromShared(r) = r /\ Len(r) \in Nat \ {0}
    BY <1>2 DEF Signing!FromShared
  <2> QED BY <1>2, <2>1 DEF WellFormed
<1> QED BY <1>1, <1>2

\* The invariant implies the property.
LEMMA SigningImplies == ASSUME SigningBounds, SigningInv PROVE Signing!PublishedAsPromised
<1> DEFINE r == Signing!FromShared(ring)
<1>1. /\ r \in Seq(Signing!Entries) /\ WellFormed(r) /\ Len(r) \in Nat \ {0}
         /\ r[Len(r)].until = Signing!Never
      /\ DOMAIN r = 1 .. Len(r)
  BY SharedStarts DEF SigningInv, Signing!TypeOK, RingsAreWellFormed
<1>2. /\ \A i \in 1 .. Len(r) : promise[r[i].id] = r[i].until
      /\ \A k \in Signing!Keys : (\A i \in 1 .. Len(r) : r[i].id # k) => promise[k] <= clock
      /\ clock \in 0 .. MaxNow /\ promise \in [Signing!Keys -> 0 .. Signing!Never]
  BY DEF SigningInv, Signing!TypeOK, RingIsPromised
<1>3. clock < Signing!Never
  BY <1>2 DEF SigningBounds, Signing!Never
<1>4. Signing!Published = {r[i].id : i \in {j \in DOMAIN r : j = Len(r) \/ clock < r[j].until}}
  BY DEF Signing!Published
<1>5. Signing!Active = r[Len(r)].id
  BY DEF Signing!Active, Signing!Last
<1> HIDE DEF r
<1>a. \A i \in 1 .. Len(r) : r[i] \in Signing!Entries
  BY <1>1
<1>6. ASSUME NEW k \in Signing!Published PROVE k \in Signing!Keys /\ clock < promise[k]
  <2>1. PICK i \in 1 .. Len(r) : k = r[i].id /\ (i = Len(r) \/ clock < r[i].until)
    BY <1>1, <1>4
  <2>2. k \in Signing!Keys /\ clock < r[i].until
    BY <1>1, <1>3, <1>a, <2>1 DEF Signing!Entries
  <2> QED BY <1>2, <2>1, <2>2
<1>7. ASSUME NEW k \in Signing!Keys, clock < promise[k] PROVE k \in Signing!Published
  <2>1. PICK i \in 1 .. Len(r) : r[i].id = k
    <3>1. ~(promise[k] <= clock)
      BY <1>2, <1>7 DEF Signing!Never, SigningBounds
    <3> QED BY <1>2, <3>1
  <2>2. clock < r[i].until
    BY <1>2, <1>7, <2>1
  <2> QED BY <1>1, <1>4, <2>1, <2>2
<1>8. Signing!Active \in Signing!Published
  BY <1>1, <1>4, <1>5
<1> QED BY <1>6, <1>7, <1>8 DEF Signing!PublishedAsPromised

\* The invariant holds initially ...
LEMMA SigningInit == ASSUME SigningBounds, Signing!Init PROVE SigningInv
<1>1. Signing!FromShared(ring) = <<[id |-> Signing!Shared, until |-> Signing!Never]>>
  BY DEF Signing!Init, Signing!FromShared
<1>2. Signing!TypeOK /\ RequestsArePast
  BY DEF SigningBounds, Signing!Init, Signing!TypeOK, RequestsArePast, Signing!Idle,
         Signing!Never, Signing!Keys, Signing!Entries
<1>3. RingsAreWellFormed
  BY DEF Signing!Init, RingsAreWellFormed, WellFormed
<1>4. RingIsPromised
  <2>1. \A i \in 1 .. Len(Signing!FromShared(ring)) :
           Signing!FromShared(ring)[i] = [id |-> Signing!Shared, until |-> Signing!Never]
    BY <1>1
  <2>2. Len(Signing!FromShared(ring)) = 1
    BY <1>1
  <2>3. Signing!Shared \in Signing!Keys
    BY DEF SigningBounds, Signing!Keys, Signing!Shared
  <2> QED BY <2>1, <2>2, <2>3 DEF Signing!Init, RingIsPromised
<1> QED BY <1>2, <1>3, <1>4 DEF SigningInv

\* ... a rotation keeps it ...
LEMMA RotateStep ==
    ASSUME SigningBounds, SigningInv, NEW h \in Handlers, Signing!Rotate(h)
    PROVE  SigningInv'
<1> DEFINE r == Signing!FromShared(ring)
           n == Len(r)
           t == rotating[h].at
           g == rotating[h].grace
           retired == [r EXCEPT ![n].until = t + g]
           kept == Signing!Unexpired(retired, t)
           new == [id |-> next, until |-> Signing!Never]
<1>1. /\ t <= clock /\ next <= MaxKeys
      /\ ring' = Append(kept, new)
      /\ promise' = [promise EXCEPT ![Signing!Active] = t + g, ![next] = Signing!Never]
      /\ next' = next + 1
      /\ rotating' = [rotating EXCEPT ![h] = Signing!Idle]
      /\ UNCHANGED <<backup, clock>>
  BY DEF Signing!Rotate, Signing!Rotated, SigningInv, RequestsArePast
<1>2. /\ ring \in Seq(Signing!Entries) /\ backup \in Seq(Signing!Entries)
         /\ next \in 1 .. MaxKeys + 1
      /\ rotating \in [Handlers -> [at : 0 .. Signing!Never, grace : 0 .. MaxGrace]]
      /\ clock \in 0 .. MaxNow /\ promise \in [Signing!Keys -> 0 .. Signing!Never]
  BY DEF SigningInv, Signing!TypeOK
<1>3. /\ r \in Seq(Signing!Entries) /\ WellFormed(r) /\ n \in Nat \ {0}
         /\ r[n].until = Signing!Never
  BY <1>2, SharedStarts DEF SigningInv, RingsAreWellFormed
<1>4. t \in Nat /\ g \in Nat /\ t + g \in 0 .. Signing!Never - 1 /\ t <= clock
  BY <1>1, <1>2 DEF SigningBounds, Signing!Never
<1>5. Signing!Active = r[n].id
  BY DEF Signing!Active, Signing!Last
<1>6. /\ \A i \in 1 .. n : promise[r[i].id] = r[i].until
      /\ \A k \in Signing!Keys : (\A i \in 1 .. n : r[i].id # k) => promise[k] <= clock
  BY DEF SigningInv, RingIsPromised
<1>n. next \in Signing!Keys /\ new \in Signing!Entries /\ Signing!Never \in Nat
  BY <1>1, <1>2 DEF SigningBounds, Signing!Keys, Signing!Entries, Signing!Never
<1> HIDE DEF r
<1>a. \A i \in 1 .. n : r[i] \in Signing!Entries /\ r[i].id \in Signing!Keys
      /\ r[i].until \in 0 .. Signing!Never
  <2>1. \A i \in 1 .. n : r[i] \in Signing!Entries
    BY <1>3
  <2> QED BY <2>1 DEF Signing!Entries
<1>7. /\ retired \in Seq(Signing!Entries) /\ Len(retired) = n
      /\ \A i \in 1 .. n : retired[i].id = r[i].id
      /\ \A i \in 1 .. n - 1 : retired[i] = r[i]
      /\ retired[n].until = t + g
  <2>1. [r[n] EXCEPT !.until = t + g] \in Signing!Entries
    <3>1. t + g \in 0 .. Signing!Never
      BY <1>4, <1>n
    <3>2. r[n] \in Signing!Entries
      BY <1>3, <1>a
    <3> HIDE DEF t, g
    <3> QED BY <3>1, <3>2 DEF Signing!Entries
  <2>2. retired = [r EXCEPT ![n] = [r[n] EXCEPT !.until = t + g]]
    BY <1>3
  <2>3. DOMAIN r = 1 .. n
    BY <1>3
  <2>4. \A i \in 1 .. n : retired[i] = IF i = n THEN [r[n] EXCEPT !.until = t + g] ELSE r[i]
    BY <2>2, <2>3
  <2>5. retired \in Seq(Signing!Entries) /\ Len(retired) = n
    BY <1>3, <2>1, <2>2
  <2>6. [r[n] EXCEPT !.until = t + g].id = r[n].id
        /\ [r[n] EXCEPT !.until = t + g].until = t + g
    BY <1>3, <1>a DEF Signing!Entries
  <2>7. n \in 1 .. n /\ \A i \in 1 .. n - 1 : i \in 1 .. n /\ i # n
    BY <1>3
  <2> HIDE DEF retired
  <2> QED BY <2>4, <2>5, <2>6, <2>7
<1>8. \A i \in 1 .. n - 1 : r[i].until < Signing!Never /\ r[i].id # r[n].id
  BY <1>3, <1>a DEF WellFormed
<1>9. Filtered(kept, retired, t, n)
  <2> HIDE DEF retired, t, n
  <2>1. Filtered(kept, retired, t, Len(retired))
    BY <1>4, <1>7, UnexpiredIs
  <2> QED BY <1>7, <2>1
<1>10. /\ kept \in Seq(Signing!Entries) /\ Len(kept) \in Nat
       /\ ring' \in Seq(Signing!Entries) /\ Len(ring') = Len(kept) + 1
          /\ ring'[Len(kept) + 1] = new
       /\ \A i \in 1 .. Len(kept) : ring'[i] = kept[i]
  <2>1. kept \in Seq(Signing!Entries)
    BY <1>9 DEF Filtered
  <2> HIDE DEF kept, new
  <2> QED BY <1>1, <1>n, <2>1
<1> HIDE DEF retired, kept
<1>11. \A i \in 1 .. Len(kept) : \E j \in 1 .. n : t < retired[j].until /\ kept[i] = retired[j]
  BY <1>9 DEF Filtered
<1>12. \A j \in 1 .. n : t < retired[j].until => \E i \in 1 .. Len(kept) : kept[i] = retired[j]
  BY <1>9 DEF Filtered
<1>13. \A j \in 1 .. n : /\ retired[j].until < Signing!Never /\ retired[j].id \in Signing!Keys
                          /\ retired[j].id < next /\ retired[j].until \in Nat
  <2>1. \A j \in 1 .. n : j \in 1 .. n - 1 \/ j = n
    BY <1>3
  <2> QED BY <1>3, <1>4, <1>7, <1>8, <1>a, <1>n, <2>1 DEF WellFormed
<1>14. \A i, j \in 1 .. n : retired[i].id = retired[j].id => retired[i].until = retired[j].until
  <2>1. \A j \in 1 .. n : j \in 1 .. n - 1 \/ j = n
    BY <1>3
  <2> QED BY <1>3, <1>7, <1>8, <2>1 DEF WellFormed
<1>15. \A j \in 1 .. n : promise'[retired[j].id] = retired[j].until
  <2>1. \A k \in Signing!Keys : promise'[k] = IF k = next THEN Signing!Never ELSE IF k = r[n].id THEN t + g
                                                             ELSE promise[k]
    BY <1>1, <1>2, <1>5, <1>a
  <2>2. \A j \in 1 .. n : retired[j].id # next
    <3>1. \A x \in Signing!Keys : x < next => x # next
      BY <1>2 DEF Signing!Keys
    <3> QED BY <1>13, <3>1
  <2>3. ASSUME NEW j \in 1 .. n - 1 PROVE promise'[retired[j].id] = retired[j].until
    <3>1. j \in 1 .. n /\ retired[j].id = r[j].id /\ r[j].id # r[n].id
      BY <1>3, <1>7, <1>8
    <3> QED BY <1>6, <1>7, <1>a, <2>1, <2>2, <3>1
  <2>4. promise'[retired[n].id] = retired[n].until
    BY <1>3, <1>7, <1>a, <2>1, <2>2
  <2>5. \A j \in 1 .. n : j \in 1 .. n - 1 \/ j = n
    BY <1>3
  <2> QED BY <2>3, <2>4, <2>5
<1>16. promise' \in [Signing!Keys -> 0 .. Signing!Never]
  <2>1. t + g \in 0 .. Signing!Never /\ Signing!Never \in 0 .. Signing!Never
    BY <1>4, <1>n
  <2> QED BY <1>1, <1>2, <2>1
<1>17. Signing!TypeOK'
  <2>1. next' \in 1 .. MaxKeys + 1
    BY <1>1, <1>2 DEF SigningBounds
  <2>2. Signing!Idle \in [at : 0 .. Signing!Never, grace : 0 .. MaxGrace]
    BY <1>n DEF Signing!Idle, SigningBounds
  <2> QED BY <1>1, <1>2, <1>10, <1>16, <2>1, <2>2 DEF Signing!TypeOK
<1>l. \A i \in 1 .. Len(ring') : i \in 1 .. Len(kept) \/ i = Len(kept) + 1
  BY <1>10
<1>k. /\ \A i \in 1 .. Len(kept) :
            ring'[i].until < Signing!Never /\ ring'[i].id < next /\ ring'[i].id \in Signing!Keys
      /\ ring'[Len(kept) + 1].id = next /\ ring'[Len(kept) + 1].until = Signing!Never
  BY <1>10, <1>11, <1>13
<1>18. WellFormed(ring)'
  <2>1. \A i, j \in 1 .. Len(ring') : ring'[i].id = ring'[j].id
        => ring'[i].until = ring'[j].until
    <3>1. ASSUME NEW i \in 1 .. Len(kept), NEW j \in 1 .. Len(kept), ring'[i].id = ring'[j].id
          PROVE  ring'[i].until = ring'[j].until
      <4>1. ring'[i] = kept[i] /\ ring'[j] = kept[j]
        BY <1>10
      <4>2. PICK a \in 1 .. n : kept[i] = retired[a]
        BY <1>11
      <4>3. PICK b \in 1 .. n : kept[j] = retired[b]
        BY <1>11
      <4> QED BY <1>14, <3>1, <4>1, <4>2, <4>3
    <3>2. \A i \in 1 .. Len(kept) : ring'[i].id # ring'[Len(kept) + 1].id
      BY <1>2, <1>k DEF Signing!Keys
    <3> QED BY <1>l, <3>1, <3>2
  <2>2. \A i \in 1 .. Len(ring') : ring'[i].id < next'
    BY <1>1, <1>2, <1>k, <1>l DEF Signing!Keys
  <2>3. ring'[Len(ring')].until = Signing!Never
    BY <1>10, <1>k
  <2>4. \A i \in 1 .. Len(ring') - 1 : ring'[i].until < Signing!Never
    BY <1>10, <1>k
  <2> QED BY <2>1, <2>2, <2>3, <2>4 DEF WellFormed, Signing!Never
<1>19. WellFormed(backup)'
  <2>1. WellFormed(backup)
    BY DEF SigningInv, RingsAreWellFormed
  <2>2. \A i \in 1 .. Len(backup) : backup[i] \in Signing!Entries
    BY <1>2
  <2>3. \A i \in 1 .. Len(backup) : backup[i].id < next'
    <3>1. \A i \in 1 .. Len(backup) : backup[i].id < next
      BY <2>1 DEF WellFormed
    <3>2. \A i \in 1 .. Len(backup) : backup[i].id \in Nat
      BY <2>2 DEF Signing!Entries, Signing!Keys
    <3>3. next \in Nat /\ next' = next + 1
      BY <1>1, <1>2 DEF Signing!Keys
    <3> QED BY <3>1, <3>2, <3>3
  <2> QED BY <1>1, <2>1, <2>3 DEF WellFormed, Signing!Never
<1>20. RingIsPromised'
  <2>1. Signing!FromShared(ring') = ring'
    BY <1>10 DEF Signing!FromShared
  <2>2. \A i \in 1 .. Len(ring') : promise'[ring'[i].id] = ring'[i].until
    <3>1. promise'[next] = Signing!Never
      BY <1>1, <1>2, <1>n
    <3> QED BY <1>10, <1>11, <1>15, <1>k, <1>l, <3>1
  <2>3. ASSUME NEW k \in Signing!Keys, \A i \in 1 .. Len(ring') : ring'[i].id # k
        PROVE  promise'[k] <= clock'
    <3>1. k # next
      BY <1>10, <1>k, <2>3
    <3>2. \A i \in 1 .. Len(kept) : kept[i].id # k
      BY <1>10, <2>3
    <3>3. CASE \E j \in 1 .. n : retired[j].id = k
      <4>1. PICK j \in 1 .. n : retired[j].id = k
        BY <3>3
      <4>2. ~(t < retired[j].until)
        BY <1>12, <3>2, <4>1
      <4>3. promise'[k] = retired[j].until
        BY <1>15, <4>1
      <4>4. retired[j].until \in Nat /\ t \in Nat /\ clock \in Nat /\ t <= clock
            /\ clock' = clock
        BY <1>1, <1>2, <1>4, <1>13, <4>1
      <4> QED BY <4>2, <4>3, <4>4
    <3>4. CASE \A j \in 1 .. n : retired[j].id # k
      <4>1. \A j \in 1 .. n : r[j].id # k
        BY <1>7, <3>4
      <4>2. promise'[k] = promise[k]
        BY <1>1, <1>2, <1>3, <1>5, <1>a, <3>1, <4>1
      <4> QED BY <1>1, <1>6, <4>1, <4>2
    <3> QED BY <3>3, <3>4
  <2> QED BY <2>1, <2>2, <2>3 DEF RingIsPromised
<1>21. RequestsArePast'
  BY <1>1, <1>2 DEF SigningInv, RequestsArePast, Signing!Idle
<1> QED BY <1>17, <1>18, <1>19, <1>20, <1>21 DEF SigningInv, RingsAreWellFormed

\* ... a restored state file keeps it ...
LEMMA RestoreStep == ASSUME SigningBounds, SigningInv, Signing!Restore PROVE SigningInv'
<1> DEFINE r == Signing!FromShared(backup)
           Found(k) == {i \in DOMAIN r : r[i].id = k}
<1>1. ring' = backup /\ UNCHANGED <<next, rotating, backup, clock>>
  BY DEF Signing!Restore
<1>2. promise' = [k \in Signing!Keys |->
                    IF Found(k) = {} THEN 0 ELSE r[CHOOSE i \in Found(k) : TRUE].until]
  BY DEF Signing!Restore
<1>3. /\ r \in Seq(Signing!Entries) /\ WellFormed(r)
  BY SharedStarts DEF SigningInv, Signing!TypeOK, RingsAreWellFormed
<1>4. clock \in 0 .. MaxNow /\ backup \in Seq(Signing!Entries)
  BY DEF SigningInv, Signing!TypeOK
<1> HIDE DEF r
<1>a. DOMAIN r = 1 .. Len(r) /\ \A i \in 1 .. Len(r) : r[i] \in Signing!Entries
  BY <1>3
<1>5. ASSUME NEW k \in Signing!Keys
      PROVE  /\ promise'[k] \in 0 .. Signing!Never
             /\ \A i \in 1 .. Len(r) : r[i].id = k => promise'[k] = r[i].until
             /\ (\A i \in 1 .. Len(r) : r[i].id # k) => promise'[k] = 0
  <2>1. CASE Found(k) = {}
    <3>1. promise'[k] = 0
      BY <1>2, <2>1
    <3> QED BY <1>a, <2>1, <3>1 DEF Signing!Never, SigningBounds
  <2>2. CASE Found(k) # {}
    <3>1. PICK i \in Found(k) : promise'[k] = r[i].until
      BY <1>2, <2>2
    <3> QED BY <1>3, <1>a, <3>1 DEF WellFormed, Signing!Entries
  <2> QED BY <2>1, <2>2
<1>6. promise' \in [Signing!Keys -> 0 .. Signing!Never]
  BY <1>2, <1>5
<1>7. Signing!TypeOK'
  BY <1>1, <1>6 DEF SigningInv, Signing!TypeOK
<1>8. RingsAreWellFormed' /\ RequestsArePast'
  BY <1>1 DEF SigningInv, RingsAreWellFormed, WellFormed, RequestsArePast
<1>9. RingIsPromised'
  <2>1. Signing!FromShared(ring') = r
    BY <1>1 DEF r
  <2>2. \A i \in 1 .. Len(r) : promise'[r[i].id] = r[i].until
    BY <1>5, <1>a DEF Signing!Entries
  <2>3. \A k \in Signing!Keys : (\A i \in 1 .. Len(r) : r[i].id # k) => promise'[k] <= clock'
    BY <1>1, <1>4, <1>5
  <2> QED BY <2>1, <2>2, <2>3 DEF RingIsPromised
<1> QED BY <1>7, <1>8, <1>9 DEF SigningInv

\* ... and so does every step.
LEMMA SigningStep ==
    ASSUME SigningBounds, SigningInv, [Signing!Next]_Signing!vars
    PROVE  SigningInv'
<1>1. ASSUME NEW h \in Handlers, Signing!Rotate(h) PROVE SigningInv'
  BY <1>1, RotateStep
<1>2. CASE Signing!Restore
  BY <1>2, RestoreStep
<1>3. ASSUME NEW h \in Handlers, NEW g \in 0 .. MaxGrace, Signing!Request(h, g)
      PROVE  SigningInv'
  <2>1. Signing!TypeOK' /\ RequestsArePast'
    BY <1>3 DEF Signing!Request, SigningInv, Signing!TypeOK, RequestsArePast, SigningBounds,
           Signing!Never
  <2> QED BY <1>3, <2>1 DEF Signing!Request, SigningInv, RingsAreWellFormed, WellFormed,
                 RingIsPromised
<1>4. CASE Signing!Download
  BY <1>4 DEF Signing!Download, SigningInv, Signing!TypeOK, RingsAreWellFormed, WellFormed,
         RingIsPromised, RequestsArePast
<1>5. CASE Signing!Tick
  <2>1. Signing!TypeOK' /\ clock <= clock' /\ clock \in Nat /\ clock' \in Nat
    BY <1>5 DEF Signing!Tick, SigningInv, Signing!TypeOK, SigningBounds
  <2>2. UNCHANGED <<ring, next, rotating, backup, promise>>
    BY <1>5 DEF Signing!Tick
  <2>3. RequestsArePast'
    BY <2>1, <2>2 DEF SigningInv, Signing!TypeOK, RequestsArePast, Signing!Never, SigningBounds
  <2>4. RingIsPromised'
    BY <2>1, <2>2 DEF SigningInv, Signing!TypeOK, RingIsPromised, Signing!Never, SigningBounds
  <2>5. RingsAreWellFormed'
    BY <2>2 DEF SigningInv, RingsAreWellFormed, WellFormed
  <2> QED BY <2>1, <2>3, <2>4, <2>5 DEF SigningInv
<1>6. CASE UNCHANGED Signing!vars
  BY <1>6 DEF Signing!vars, SigningInv, Signing!TypeOK, RingsAreWellFormed, WellFormed,
         RingIsPromised, RequestsArePast
<1> QED BY <1>1, <1>2, <1>3, <1>4, <1>5, <1>6 DEF Signing!Next

-----------------------------------------------------------------------------
(* Enrollment: the indexes agree, grants are spent, the limit holds.       *)

Installations == Places
Codes == Things
NoInstallation == None
NoAccount == None
NoCode == None
pending == x1
byUserCode == x2
byHandoff == x3
byBinding == x4
recent == x5
intents == x6
replacing == x7
tab == x8
client == x9
instances == x10
idle == x11
drawn == x12
spent == x13
logins == x14
USE DEF Installations, Codes, NoInstallation, NoAccount, NoCode,
        pending, byUserCode, byHandoff, byBinding, recent, intents, replacing, tab, client,
        instances, idle, drawn, spent, logins

\* Follows from ComponentsAssumption.
Proper == NoAccount \notin Accounts /\ Limit \in Nat

\* A code is of one enrollment, an installation has one record.
OneEach ==
    /\ \A p, q \in pending : p.code = q.code => p = q
    /\ \A x, y \in instances : x.id = y.id => x = y
    /\ IsFiniteSet(pending) /\ IsFiniteSet(instances)
\* Codes in use were drawn, so that a new one is of nothing else.
CodesWereDrawn == {p.code : p \in pending} \union spent \subseteq drawn
\* A tab that lists or has chosen an installation is for an account that
\* GitHub named for its code.
TabsAreConfirmed ==
    \A t \in Tabs :
        /\ tab[t].at # "free" => tab[t].code \in Codes
        /\ tab[t].at \in {"listing", "chosen"} =>
              /\ tab[t].account \in Accounts
              /\ [code |-> tab[t].code, account |-> tab[t].account] \in logins

\* The inductive invariant.
EnrollingInv ==
    /\ Enrolling!TypeOK /\ Enrolling!IndexesAgree /\ Enrolling!GrantsAreSpent
    /\ OneEach /\ CodesWereDrawn /\ TabsAreConfirmed

\* What is typed about tabs and clients.
TabState == [at : {"free", "handoff", "page", "callback", "listing", "chosen"},
             code : Codes \union {NoCode}, account : Accounts \union {NoAccount},
             chosen : Installations \union {NoInstallation}]
ClientPhases == {"down", "polling", "granted", "connected", "stopped"}

\* The parts of the invariant about the enrollments.
EnrollmentTypes ==
    /\ pending \subseteq Enrolling!Enrollment
    /\ byUserCode \subseteq Codes /\ byHandoff \subseteq Codes
    /\ byBinding \in [Installations -> Codes \union {NoCode}]
    /\ recent \in Nat
    /\ replacing \subseteq [code : Codes, account : Accounts, tab : Tabs]
Enrollments ==
    /\ EnrollmentTypes /\ Enrolling!IndexesAgree /\ Enrolling!GrantsAreSpent /\ CodesWereDrawn
    /\ \A p, q \in pending : p.code = q.code => p = q
    /\ IsFiniteSet(pending)
\* The parts about the browser, the store and the rest.
Tabbed == intents \subseteq [code : Codes, tab : Tabs] /\ tab \in [Tabs -> TabState]
/\ TabsAreConfirmed
Records ==
    /\ instances \subseteq [id : Installations, account : Accounts, revoked : BOOLEAN]
    /\ idle \subseteq Installations
    /\ \A x, y \in instances : x.id = y.id => x = y
    /\ IsFiniteSet(instances)
Drawn ==
    /\ client \in [Installations -> [phase : ClientPhases, code : Codes \union {NoCode}]]
    /\ drawn \subseteq Codes /\ spent \subseteq Codes
    /\ logins \subseteq [code : Codes, account : Accounts]

\* The parts are the invariant, in this state ...
LEMMA EnrollingParts == EnrollingInv <=> Enrollments /\ Tabbed /\ Records /\ Drawn
<1>1. EnrollingInv => Enrollments /\ Tabbed /\ Records /\ Drawn
  BY DEF EnrollingInv, Enrolling!TypeOK, Enrollments, EnrollmentTypes, Tabbed, Records, Drawn,
         OneEach, TabState, ClientPhases
<1>2. Enrollments /\ Tabbed /\ Records /\ Drawn => EnrollingInv
  BY DEF EnrollingInv, Enrolling!TypeOK, Enrollments, EnrollmentTypes, Tabbed, Records, Drawn,
         OneEach, TabState, ClientPhases
<1> QED BY <1>1, <1>2

\* ... and in the next.
LEMMA EnrollingPartsNext == Enrollments' /\ Tabbed' /\ Records' /\ Drawn' => EnrollingInv'
  BY DEF EnrollingInv, Enrolling!TypeOK, Enrollments, EnrollmentTypes, Tabbed, Records, Drawn,
         OneEach, TabState, ClientPhases

\* Steps that leave the enrollments alone.
LEMMA Quiet ==
    ASSUME UNCHANGED <<pending, byUserCode, byHandoff, byBinding, recent, replacing>>,
           Enrollments, drawn \subseteq drawn', spent' = spent, logins \subseteq logins'
    PROVE  Enrollments'
  BY DEF Enrollments, EnrollmentTypes, Enrolling!IndexesAgree, Enrolling!Unapproved,
         Enrolling!Find, Enrolling!GrantsAreSpent, CodesWereDrawn

\* Fewer handoffs and offers.
LEMMA Fewer ==
    ASSUME UNCHANGED <<pending, byUserCode, byBinding, drawn, spent, logins>>,
           Enrollments, byHandoff' \subseteq byHandoff, replacing' \subseteq replacing,
           recent' \in Nat
    PROVE  Enrollments'
<1>1. EnrollmentTypes'
  BY DEF Enrollments, EnrollmentTypes
<1>2. Enrolling!IndexesAgree'
  BY DEF Enrollments, Enrolling!IndexesAgree, Enrolling!Unapproved, Enrolling!Find
<1>3. Enrolling!GrantsAreSpent' /\ CodesWereDrawn'
  BY DEF Enrollments, Enrolling!GrantsAreSpent, CodesWereDrawn
<1> QED BY <1>1, <1>2, <1>3 DEF Enrollments

\* Enrollments that are deleted leave every index.
LEMMA DeleteStep ==
    ASSUME Enrollments, NEW gone \in SUBSET pending, Enrolling!Delete(gone), recent' = recent,
           UNCHANGED <<drawn, logins>>, spent' \subseteq spent \union {p.code : p \in gone}
    PROVE  Enrollments'
<1> DEFINE codes == {p.code : p \in gone}
<1>1. /\ pending' = pending \ gone
      /\ byUserCode' = byUserCode \ codes /\ byHandoff' = byHandoff \ codes
      /\ byBinding' = [i \in Installations |->
                          IF byBinding[i] \in codes THEN NoCode ELSE byBinding[i]]
      /\ replacing' = {r \in replacing : r.code \notin codes}
  BY DEF Enrolling!Delete
<1>2. \A p \in pending' : p \in pending /\ p.code \notin codes
  BY <1>1 DEF Enrollments
<1>3. \A p \in pending : p.code \notin codes => p \in pending'
  BY <1>1
<1>t. \A p \in pending : p.instance \in Installations
  BY DEF Enrollments, EnrollmentTypes, Enrolling!Enrollment
<1> HIDE DEF codes
<1>4. EnrollmentTypes'
  BY <1>1 DEF Enrollments, EnrollmentTypes
<1>5. Enrolling!IndexesAgree'
  <2>1. byUserCode' = {p.code : p \in pending'}
    BY <1>1, <1>2, <1>3 DEF Enrollments, Enrolling!IndexesAgree
  <2>2. \A p \in pending' : byBinding'[p.instance] = p.code
    BY <1>1, <1>2, <1>t DEF Enrollments, Enrolling!IndexesAgree
  <2>3. \A c : c \notin codes /\ Enrolling!Unapproved(c) => Enrolling!Unapproved(c)'
    BY <1>3 DEF Enrolling!Unapproved, Enrolling!Find
  <2>4. (\A c \in byHandoff : Enrolling!Unapproved(c))'
        /\ (\A r \in replacing : Enrolling!Unapproved(r.code))'
    BY <1>1, <2>3 DEF Enrollments, Enrolling!IndexesAgree
  <2> QED BY <2>1, <2>2, <2>4 DEF Enrolling!IndexesAgree
<1>6. Enrolling!GrantsAreSpent' /\ CodesWereDrawn'
  BY <1>1, <1>2 DEF Enrollments, Enrolling!GrantsAreSpent, CodesWereDrawn, codes
<1>7. IsFiniteSet(pending')
  BY <1>1, FS_Subset DEF Enrollments
<1>8. \A p, q \in pending' : p.code = q.code => p = q
  BY <1>2 DEF Enrollments
<1> QED BY <1>4, <1>5, <1>6, <1>7, <1>8 DEF Enrollments

\* An approval gives the enrollment an account, and takes what is given up for
\* it out of every index.
LEMMA ApproveStep ==
    ASSUME Enrollments, NEW c \in Codes, NEW a \in Accounts,
           NEW gone \in SUBSET Enrolling!Approved(c, a),
           Enrolling!Approve(c, a, gone), Enrolling!Unapproved(c), UNCHANGED <<drawn, spent>>,
           logins \subseteq logins', [code |-> c, account |-> a] \in logins', Proper
    PROVE  /\ Enrollments'
           /\ \E p \in pending : /\ p.code = c /\ p.account = NoAccount
                                 /\ pending' = (pending \ (gone \union {p})) \union {[p EXCEPT !.account = a]}
<1> DEFINE codes == {p.code : p \in gone}
<1>1. /\ pending' = {IF p.code = c THEN [p EXCEPT !.account = a] ELSE p : p \in pending \ gone}
      /\ byUserCode' = byUserCode \ codes
      /\ byHandoff' = byHandoff \ (codes \union {c})
      /\ byBinding' = [i \in Installations |->
                          IF byBinding[i] \in codes THEN NoCode ELSE byBinding[i]]
      /\ replacing' = {r \in replacing : r.code \notin codes \union {c}}
      /\ recent' = recent + 1
  BY DEF Enrolling!Approve
<1>2. PICK p \in pending : p.code = c /\ p.account = NoAccount
  BY DEF Enrolling!Unapproved, Enrolling!Find
<1>3. p \notin gone /\ gone \subseteq pending /\ c \notin codes
  BY <1>2 DEF Enrolling!Approved
<1> DEFINE q == [p EXCEPT !.account = a]
<1>4. pending' = (pending \ (gone \union {p})) \union {q}
  BY <1>1, <1>2, <1>3 DEF Enrollments
<1>5. q \in Enrolling!Enrollment /\ q.code = c /\ q.account = a /\ q.instance = p.instance
  BY <1>2 DEF Enrollments, EnrollmentTypes, Enrolling!Enrollment
<1>6. \A x \in pending \ (gone \union {p}) : x.code \notin codes /\ x.code # c
  BY <1>2, <1>3 DEF Enrollments
<1>t. \A x \in pending : x.instance \in Installations
  BY DEF Enrollments, EnrollmentTypes, Enrolling!Enrollment
<1>7. \A x \in pending : x.code \notin codes /\ x.code # c => x \in pending'
  BY <1>2, <1>4
<1>u. \A x \in gone : x.code \in codes
  OBVIOUS
<1>v. codes \subseteq {x.code : x \in pending}
  BY <1>3
<1> HIDE DEF codes, q
<1>8. EnrollmentTypes'
  BY <1>1, <1>4, <1>5 DEF Enrollments, EnrollmentTypes
<1>9. Enrolling!IndexesAgree'
  <2>1. byUserCode' = {x.code : x \in pending'}
    <3>1. ASSUME NEW k \in byUserCode' PROVE k \in {x.code : x \in pending'}
      <4>1. PICK x \in pending : x.code = k
        BY <1>1, <3>1 DEF Enrollments, Enrolling!IndexesAgree
      <4>2. k \notin codes
        BY <1>1, <3>1
      <4>3. CASE k = c
        BY <1>4, <1>5, <4>3
      <4>4. CASE k # c
        BY <1>7, <4>1, <4>2, <4>4
      <4> QED BY <4>3, <4>4
    <3>2. ASSUME NEW x \in pending' PROVE x.code \in byUserCode'
      <4>1. CASE x = q
        BY <1>1, <1>2, <1>3, <1>5, <4>1 DEF Enrollments, Enrolling!IndexesAgree
      <4>2. CASE x # q
        BY <1>1, <1>4, <1>6, <4>2 DEF Enrollments, Enrolling!IndexesAgree
      <4> QED BY <4>1, <4>2
    <3> QED BY <3>1, <3>2
  <2>2. \A x \in pending' : byBinding'[x.instance] = x.code
    BY <1>1, <1>2, <1>3, <1>4, <1>5, <1>6, <1>t DEF Enrollments, Enrolling!IndexesAgree
  <2>3. \A k : k \notin codes /\ k # c /\ Enrolling!Unapproved(k) => Enrolling!Unapproved(k)'
    BY <1>7 DEF Enrolling!Unapproved, Enrolling!Find
  <2>4. (\A k \in byHandoff : Enrolling!Unapproved(k))'
        /\ (\A r \in replacing : Enrolling!Unapproved(r.code))'
    BY <1>1, <2>3 DEF Enrollments, Enrolling!IndexesAgree
  <2> QED BY <2>1, <2>2, <2>4 DEF Enrolling!IndexesAgree
<1>10. {x.code : x \in pending'} \subseteq {x.code : x \in pending}
  BY <1>2, <1>4, <1>5
<1>11. Enrolling!GrantsAreSpent' /\ CodesWereDrawn'
  <2>1. (spent \cap {x.code : x \in pending} = {})' /\ CodesWereDrawn'
    BY <1>10 DEF Enrollments, Enrolling!GrantsAreSpent, CodesWereDrawn
  <2>2. \A x \in pending' : x.account # NoAccount
        => [code |-> x.code, account |-> x.account] \in logins'
    BY <1>4, <1>5 DEF Enrollments, Enrolling!GrantsAreSpent
  <2>3. \A r \in replacing' : [code |-> r.code, account |-> r.account] \in logins'
    BY <1>1 DEF Enrollments, Enrolling!GrantsAreSpent
  <2> QED BY <2>1, <2>2, <2>3 DEF Enrolling!GrantsAreSpent
<1>12. IsFiniteSet(pending')
  <2>1. IsFiniteSet(pending \ (gone \union {p}))
    BY FS_Subset DEF Enrollments
  <2> QED BY <1>4, <2>1, FS_AddElement
<1>13. \A x, y \in pending' : x.code = y.code => x = y
  BY <1>4, <1>5, <1>6 DEF Enrollments
<1> QED BY <1>2, <1>4, <1>8, <1>9, <1>11, <1>12, <1>13 DEF Enrollments, q

\* A new authorization takes the place of the binding's last one.
LEMMA BeginStep ==
    ASSUME EnrollingInv, Proper, NEW i \in Installations, NEW c \in Codes, Enrolling!Begin(i,
           c) PROVE Enrollments'
<1> DEFINE others == {p \in pending : p.code # byBinding[i]}
           new == [code |-> c, instance |-> i, account |-> NoAccount]
           dropped == {byBinding[i]}
<1>e. Enrollments /\ c \notin drawn
  BY EnrollingParts DEF Enrolling!Begin
<1> DEFINE Grown(more) ==
        /\ pending' = others \union more
        /\ byUserCode' = (byUserCode \ dropped) \union {p.code : p \in more}
        /\ byHandoff' = (byHandoff \ dropped) \union {p.code : p \in more}
        /\ byBinding' = [byBinding EXCEPT ![i] = IF more = {} THEN NoCode ELSE c]
        /\ drawn' = drawn \union {p.code : p \in more}
<1>1. PICK more \in SUBSET {new} : Grown(more)
  <2>0. PICK refused \in BOOLEAN :
           /\ pending' = others \union (IF refused THEN {} ELSE {new})
           /\ byUserCode' = (byUserCode \ dropped) \union (IF refused THEN {} ELSE {c})
           /\ byHandoff' = (byHandoff \ dropped) \union (IF refused THEN {} ELSE {c})
           /\ byBinding' = [byBinding EXCEPT ![i] = IF refused THEN NoCode ELSE c]
           /\ drawn' = IF refused THEN drawn ELSE drawn \union {c}
    BY DEF Enrolling!Begin
  <2>1. CASE refused
    <3>1. /\ pending' = others \union {} /\ byUserCode' = (byUserCode \ dropped) \union {}
          /\ byHandoff' = (byHandoff \ dropped) \union {}
          /\ byBinding' = [byBinding EXCEPT ![i] = NoCode] /\ drawn' = drawn
      BY <2>0, <2>1
    <3> HIDE DEF others, new, dropped
    <3>2. Grown({})
      BY <3>1
    <3> QED BY <3>2
  <2>2. CASE ~refused
    <3>1. /\ pending' = others \union {new} /\ byUserCode' = (byUserCode \ dropped) \union {c}
          /\ byHandoff' = (byHandoff \ dropped) \union {c}
          /\ byBinding' = [byBinding EXCEPT ![i] = c] /\ drawn' = drawn \union {c}
      BY <2>0, <2>2
    <3>2. {p.code : p \in {new}} = {c}
      OBVIOUS
    <3> HIDE DEF others, new, dropped
    <3>3. Grown({new})
      BY <3>1, <3>2
    <3> QED BY <3>3
  <2> QED BY <2>1, <2>2
<1>2. replacing' = {r \in replacing : r.code \notin dropped}
      /\ UNCHANGED <<recent, spent, logins>>
  BY DEF Enrolling!Begin, Enrolling!Cardinality, Cardinality
<1>3. new \in Enrolling!Enrollment /\ new.code = c /\ new.instance = i
      /\ new.account = NoAccount
  BY DEF Enrolling!Enrollment
<1>4. \A p \in pending : p.code # c
  BY <1>e DEF Enrollments, CodesWereDrawn
<1>5. \A p \in others : p \in pending /\ p.instance # i /\ p.code # c /\ p.code \notin dropped
  BY <1>e, <1>4 DEF Enrollments, Enrolling!IndexesAgree
<1>6. \A p \in pending : p.code \notin dropped => p \in others
  OBVIOUS
<1>t. \A p \in pending : p.instance \in Installations
      /\ byBinding \in [Installations -> Codes \union {NoCode}]
  BY <1>e DEF Enrollments, EnrollmentTypes, Enrolling!Enrollment
<1>o. others \subseteq pending
  OBVIOUS
<1> HIDE DEF others, new, dropped
<1>7. \A p \in more : p \in Enrolling!Enrollment /\ p.code = c /\ p.instance = i
      /\ p.account = NoAccount
  BY <1>3
<1>8. EnrollmentTypes'
  BY <1>1, <1>2, <1>7, <1>o, <1>e DEF Enrollments, EnrollmentTypes
<1>9. Enrolling!IndexesAgree'
  <2>1. byUserCode' = {p.code : p \in pending'}
    BY <1>1, <1>5, <1>6, <1>e DEF Enrollments, Enrolling!IndexesAgree
  <2>2. \A p \in pending' : byBinding'[p.instance] = p.code
    <3>1. \A p \in others : byBinding'[p.instance] = p.code
      BY <1>1, <1>5, <1>t, <1>e DEF Enrollments, Enrolling!IndexesAgree
    <3>2. \A p \in more : byBinding'[p.instance] = p.code
      <4>1. byBinding \in [Installations -> Codes \union {NoCode}]
        BY <1>e DEF Enrollments, EnrollmentTypes
      <4> QED BY <1>1, <1>7, <4>1
    <3> QED BY <1>1, <3>1, <3>2
  <2>3. \A k : k \notin dropped /\ Enrolling!Unapproved(k) => Enrolling!Unapproved(k)'
    BY <1>1, <1>6 DEF Enrolling!Unapproved, Enrolling!Find
  <2>4. \A p \in more : Enrolling!Unapproved(p.code)'
    BY <1>1, <1>7 DEF Enrolling!Unapproved, Enrolling!Find
  <2>5. (\A k \in byHandoff : Enrolling!Unapproved(k))'
        /\ (\A r \in replacing : Enrolling!Unapproved(r.code))'
    BY <1>1, <1>2, <1>e, <2>3, <2>4 DEF Enrollments, Enrolling!IndexesAgree
  <2> QED BY <2>1, <2>2, <2>5 DEF Enrolling!IndexesAgree
<1>10. Enrolling!GrantsAreSpent' /\ CodesWereDrawn'
  <2>1. CodesWereDrawn' /\ (spent \cap {p.code : p \in pending} = {})'
    BY <1>1, <1>2, <1>5, <1>7, <1>e DEF Enrollments, Enrolling!GrantsAreSpent, CodesWereDrawn
  <2>2. \A p \in pending' : p.account # NoAccount
        => [code |-> p.code, account |-> p.account] \in logins'
    BY <1>1, <1>2, <1>5, <1>7, <1>e DEF Enrollments, Enrolling!GrantsAreSpent
  <2>3. \A r \in replacing' : [code |-> r.code, account |-> r.account] \in logins'
    BY <1>2, <1>e DEF Enrollments, Enrolling!GrantsAreSpent
  <2> QED BY <2>1, <2>2, <2>3 DEF Enrolling!GrantsAreSpent
<1>11. IsFiniteSet(pending')
  <2>1. IsFiniteSet(others) /\ IsFiniteSet({new})
    BY <1>o, <1>e, FS_Subset, FS_Singleton DEF Enrollments
  <2>2. IsFiniteSet(more)
    BY <2>1, FS_Subset
  <2> QED BY <1>1, <2>1, <2>2, FS_Union
<1>12. \A p, q \in pending' : p.code = q.code => p = q
  <2>1. \A p, q \in others : p.code = q.code => p = q
    BY <1>o, <1>e DEF Enrollments
  <2> QED BY <1>1, <1>5, <1>7, <2>1
<1> QED BY <1>8, <1>9, <1>10, <1>11, <1>12 DEF Enrollments

\* The invariant holds initially ...
LEMMA EnrollingInit == ASSUME Enrolling!Init PROVE EnrollingInv
<1>1. OneEach
  BY FS_EmptySet DEF Enrolling!Init, OneEach
<1>2. Enrolling!TypeOK
  BY DEF Enrolling!Init, Enrolling!TypeOK, Enrolling!Unbound, Enrolling!Free, Enrolling!Down
<1>3. Enrolling!IndexesAgree /\ Enrolling!GrantsAreSpent /\ CodesWereDrawn /\ TabsAreConfirmed
  BY DEF Enrolling!Init, Enrolling!IndexesAgree, Enrolling!GrantsAreSpent, CodesWereDrawn,
         TabsAreConfirmed, Enrolling!Free
<1> QED BY <1>1, <1>2, <1>3 DEF EnrollingInv

\* A tab gets further.
LEMMA TabStep ==
    ASSUME Tabbed, NEW t \in Tabs, NEW at \in {"handoff", "page", "callback", "listing",
           "chosen"},
           NEW c \in Codes, NEW a \in Accounts \union {NoAccount},
           NEW i \in Installations \union {NoInstallation},
           Enrolling!At(t, at, c, a, i), intents' \subseteq intents, logins \subseteq logins',
           at \in {"listing", "chosen"} =>
               a \in Accounts /\ [code |-> c, account |-> a] \in logins'
    PROVE  Tabbed'
<1> DEFINE q == [at |-> at, code |-> c, account |-> a, chosen |-> i]
<1>1. tab' = [tab EXCEPT ![t] = q] /\ q \in TabState
  BY DEF Enrolling!At, TabState
<1> QED BY <1>1 DEF Tabbed, TabsAreConfirmed

\* A tab is done.
LEMMA DoneStep ==
    ASSUME Tabbed, NEW t \in Tabs, Enrolling!Done(t), intents' \subseteq [code : Codes,
           tab : Tabs],
           logins \subseteq logins'
    PROVE  Tabbed'
<1>1. tab' = [tab EXCEPT ![t] = Enrolling!Free] /\ Enrolling!Free \in TabState
      /\ Enrolling!Free.at = "free"
  BY DEF Enrolling!Done, Enrolling!Free, TabState
<1> QED BY <1>1 DEF Tabbed, TabsAreConfirmed

\* Steps that leave the tabs alone.
LEMMA SameTabs ==
    ASSUME Tabbed, intents' \subseteq intents, logins \subseteq logins', UNCHANGED tab
    PROVE  Tabbed'
  BY DEF Tabbed, TabsAreConfirmed

\* The store loses records.
LEMMA FewerRecords ==
    ASSUME Records, instances' \subseteq instances, idle' \subseteq Installations
    PROVE  Records'
<1>1. IsFiniteSet(instances')
  BY FS_Subset DEF Records
<1> QED BY <1>1 DEF Records

\* A record takes another's place.
LEMMA NewRecord ==
    ASSUME Records, NEW kept \in SUBSET instances,
           NEW x \in [id : Installations, account : Accounts, revoked : BOOLEAN],
           \A y \in kept : y.id # x.id, instances' = kept \union {x}, idle' \subseteq Installations
    PROVE  Records'
<1>1. IsFiniteSet(kept)
  BY FS_Subset DEF Records
<1>2. IsFiniteSet(instances')
  BY <1>1, FS_AddElement
<1> QED BY <1>2 DEF Records

\* A client gets further.
LEMMA ClientStep ==
    ASSUME Drawn, NEW i, NEW phase \in ClientPhases, NEW c \in Codes \union {NoCode},
           Enrolling!To(i, phase, c), UNCHANGED Enrolling!history
    PROVE  Drawn'
  BY DEF Drawn, Enrolling!To, Enrolling!history

\* ... the clients' steps keep it ...
LEMMA ClientsKeep ==
    ASSUME EnrollingInv, Proper, Enrolling!ClientNext PROVE EnrollingInv'
<1>1. PICK i \in Installations :
        \/ Enrolling!Connect(i) \/ Enrolling!Poll(i) \/ Enrolling!Redeem(i)
           \/ Enrolling!Leave(i) \/ Enrolling!GoIdle(i)
        \/ \E c \in Codes : Enrolling!Begin(i, c)
  BY DEF Enrolling!ClientNext
<1>i. Enrollments /\ Tabbed /\ Records /\ Drawn
  BY EnrollingParts
<1>m. ASSUME UNCHANGED Enrolling!memory, UNCHANGED tab, UNCHANGED Enrolling!history
      PROVE  Enrollments' /\ Tabbed'
  BY <1>i, <1>m, Quiet, SameTabs DEF Enrolling!memory, Enrolling!history
<1>2. CASE Enrolling!Connect(i)
  <2>1. UNCHANGED Enrolling!memory /\ UNCHANGED tab /\ UNCHANGED Enrolling!history
        /\ UNCHANGED instances
    BY <1>2 DEF Enrolling!Connect
  <2>2. idle' \subseteq idle
        /\ (Enrolling!To(i, "stopped", NoCode) \/ Enrolling!To(i, "connected", NoCode))
    BY <1>2 DEF Enrolling!Connect
  <2>3. Records'
    BY <1>i, <2>1, <2>2, FewerRecords DEF Records
  <2>4. Drawn'
    BY <1>i, <2>1, <2>2, ClientStep DEF ClientPhases
  <2> QED BY <1>m, <2>1, <2>3, <2>4, EnrollingPartsNext
<1>3. CASE Enrolling!Poll(i)
  <2>1. UNCHANGED Enrolling!memory /\ UNCHANGED tab /\ UNCHANGED Enrolling!history
        /\ UNCHANGED <<instances, idle>>
        /\ client[i].code \in Codes \union {NoCode}
    BY <1>3, <1>i DEF Enrolling!Poll, Enrolling!stored, Drawn
  <2>2. Enrolling!To(i, "stopped", NoCode) \/ Enrolling!To(i, "granted", client[i].code)
    BY <1>3 DEF Enrolling!Poll
  <2>3. Records'
    BY <1>i, <2>1, FewerRecords DEF Records
  <2>4. Drawn'
    BY <1>i, <2>1, <2>2, ClientStep DEF ClientPhases
  <2> QED BY <1>m, <2>1, <2>3, <2>4, EnrollingPartsNext
<1>4. CASE Enrolling!Leave(i)
  <2>1. UNCHANGED Enrolling!memory /\ UNCHANGED tab /\ UNCHANGED Enrolling!history
        /\ UNCHANGED <<instances, idle>>
    BY <1>4 DEF Enrolling!Leave, Enrolling!stored
  <2>2. Enrolling!To(i, "down", NoCode)
    BY <1>4 DEF Enrolling!Leave
  <2>3. Records'
    BY <1>i, <2>1, FewerRecords DEF Records
  <2>4. Drawn'
    BY <1>i, <2>1, <2>2, ClientStep DEF ClientPhases
  <2> QED BY <1>m, <2>1, <2>3, <2>4, EnrollingPartsNext
<1>5. CASE Enrolling!GoIdle(i)
  <2>1. UNCHANGED Enrolling!memory /\ UNCHANGED tab /\ UNCHANGED Enrolling!history
        /\ UNCHANGED <<client, instances>>
        /\ idle' = idle \union {i}
    BY <1>5 DEF Enrolling!GoIdle
  <2>2. Records'
    BY <1>i, <2>1, FewerRecords DEF Records
  <2>3. Drawn'
    BY <1>i, <2>1 DEF Drawn, Enrolling!history
  <2> QED BY <1>m, <2>1, <2>2, <2>3, EnrollingPartsNext
<1>6. ASSUME NEW c \in Codes, Enrolling!Begin(i, c) PROVE EnrollingInv'
  <2>1. Enrollments'
    BY <1>6, BeginStep
  <2>2. UNCHANGED <<intents, tab, instances, idle, spent, logins>>
    BY <1>6 DEF Enrolling!Begin, Enrolling!stored
  <2>3. Tabbed' /\ Records'
    BY <1>i, <2>2, SameTabs, FewerRecords DEF Records
  <2>4. drawn' \subseteq Codes
        /\ (Enrolling!To(i, "stopped", NoCode) \/ Enrolling!To(i, "polling", c))
    BY <1>6, <1>i DEF Enrolling!Begin, Drawn
  <2>5. Drawn'
    BY <1>i, <2>2, <2>4 DEF Drawn, Enrolling!To, ClientPhases
  <2> QED BY <2>1, <2>3, <2>5, EnrollingPartsNext
<1>7. CASE Enrolling!Redeem(i)
  <2>1. UNCHANGED tab
    BY <1>7 DEF Enrolling!Redeem
  <2>2. CASE Enrolling!To(i, "stopped", NoCode)
             /\ UNCHANGED <<Enrolling!memory, Enrolling!stored, Enrolling!history>>
    <3>1. Drawn'
      BY <1>i, <2>2, ClientStep DEF ClientPhases
    <3>2. Records'
      BY <1>i, <2>2, FewerRecords DEF Records, Enrolling!stored
    <3> QED BY <1>m, <2>1, <2>2, <3>1, <3>2, EnrollingPartsNext
  <2>3. ASSUME NEW p \in Enrolling!Find(client[i].code), p.account # NoAccount, p.instance = i,
               instances' = {x \in instances : x.id # i /\ (x.revoked \/ x.id \notin idle)} \union
                    {[id |-> i, account |-> p.account, revoked |-> FALSE]},
               idle' = idle \ {i}, Enrolling!Redeemed({p}), spent' = spent \union {p.code},
               Enrolling!To(i, "connected", NoCode), UNCHANGED <<recent, intents, drawn,
               logins>>
        PROVE  EnrollingInv'
    <3>1. p \in pending /\ p \in Enrolling!Enrollment
      BY <1>i, <2>3 DEF Enrolling!Find, Enrollments, EnrollmentTypes
    <3>2. Enrollments'
      <4>1. {p} \in SUBSET pending /\ Enrolling!Delete({p})
            /\ spent' \subseteq spent \union {x.code : x \in {p}}
        BY <2>3, <3>1 DEF Enrolling!Redeemed
      <4> QED BY <1>i, <2>3, <4>1, DeleteStep
    <3>3. Tabbed'
      BY <1>i, <2>1, <2>3, SameTabs
    <3>4. Records'
      <4> DEFINE kept == {x \in instances : x.id # i /\ (x.revoked \/ x.id \notin idle)}
                 x == [id |-> i, account |-> p.account, revoked |-> FALSE]
      <4>1. kept \in SUBSET instances
            /\ x \in [id : Installations, account : Accounts, revoked : BOOLEAN]
        BY <2>3, <3>1 DEF Enrolling!Enrollment
      <4>2. instances' = kept \union {x} /\ \A y \in kept : y.id # x.id
        BY <2>3
      <4>3. idle' \subseteq Installations
        BY <1>i, <2>3 DEF Records
      <4> HIDE DEF kept, x
      <4> QED BY <1>i, <4>1, <4>2, <4>3, NewRecord
    <3>5. Drawn'
      <4>1. p.code \in Codes
        BY <3>1 DEF Enrolling!Enrollment
      <4> QED BY <1>i, <2>3, <4>1 DEF Drawn, Enrolling!To, ClientPhases
    <3> QED BY <3>2, <3>3, <3>4, <3>5, EnrollingPartsNext
  <2> QED BY <1>7, <2>2, <2>3 DEF Enrolling!Redeem
<1> QED BY <1>1, <1>2, <1>3, <1>4, <1>5, <1>6, <1>7

\* ... the browser's steps keep it ...
LEMMA TabsKeep ==
    ASSUME EnrollingInv, Proper, Enrolling!TabNext PROVE EnrollingInv'
<1>1. PICK t \in Tabs :
        \/ Enrolling!BeginGitHubOAuth(t) \/ Enrolling!FailGitHubOAuth(t)
           \/ Enrolling!FailCallback(t) \/ Enrolling!Offer(t) \/ Enrolling!Replace(t)
        \/ \E c \in Codes : Enrolling!TakeHandoff(t, c) \/ Enrolling!Confirm(t, c)
           \/ Enrolling!Callback(t, c)
        \/ \E a \in Accounts : Enrolling!ApproveEnrollment(t, a)
        \/ \E r \in replacing, i \in Installations : Enrolling!Choose(t, r, i)
  BY DEF Enrolling!TabNext
<1>i. Enrollments /\ Tabbed /\ Records /\ Drawn
  BY EnrollingParts
<1> DEFINE c0 == tab[t].code
<1>c. tab[t].at # "free" => c0 \in Codes
  BY <1>i DEF Tabbed, TabsAreConfirmed
<1>s. ASSUME UNCHANGED Enrolling!stored PROVE Records'
  BY <1>i, <1>s, FewerRecords DEF Records, Enrolling!stored
<1>h. ASSUME UNCHANGED <<client, Enrolling!history>> PROVE Drawn'
  BY <1>i, <1>h DEF Drawn, Enrolling!history
<1>2. CASE Enrolling!BeginGitHubOAuth(t)
  <2>1. /\ c0 \in Codes /\ Enrolling!Done(t)
        /\ intents' \subseteq intents \union {[code |-> c0, tab |-> t]}
        /\ UNCHANGED <<pending, byUserCode, byHandoff, byBinding, recent, replacing>>
        /\ UNCHANGED Enrolling!stored /\ UNCHANGED <<client, Enrolling!history>>
    BY <1>2, <1>c DEF Enrolling!BeginGitHubOAuth
  <2>2. Enrollments'
    BY <1>i, <2>1, Quiet DEF Enrolling!history
  <2>3. Tabbed'
    BY <1>i, <2>1, DoneStep DEF Tabbed, Enrolling!history
  <2> QED BY <1>s, <1>h, <2>1, <2>2, <2>3, EnrollingPartsNext
<1>3. CASE Enrolling!FailGitHubOAuth(t)
  <2>1. /\ c0 \in Codes /\ Enrolling!Done(t)
        /\ byHandoff' \in {byHandoff, Enrolling!Restored(c0)}
        /\ UNCHANGED <<pending, byUserCode, byBinding, recent, intents, replacing>>
        /\ UNCHANGED Enrolling!stored /\ UNCHANGED <<client, Enrolling!history>>
    BY <1>3, <1>c DEF Enrolling!FailGitHubOAuth
  <2>2. Enrollments'
    <3>1. byHandoff' \subseteq Codes /\ \A c \in byHandoff' : c \in byHandoff
          \/ Enrolling!Unapproved(c)
      BY <1>i, <2>1 DEF Enrolling!Restored, Enrolling!Restorable, Enrollments, EnrollmentTypes
    <3> QED BY <1>i, <2>1, <3>1 DEF Enrolling!history, Enrollments, EnrollmentTypes,
                   Enrolling!IndexesAgree, Enrolling!Unapproved,
                                    Enrolling!Find, Enrolling!GrantsAreSpent, CodesWereDrawn
  <2>3. Tabbed'
    BY <1>i, <2>1, DoneStep DEF Tabbed, Enrolling!history
  <2> QED BY <1>s, <1>h, <2>1, <2>2, <2>3, EnrollingPartsNext
<1>4. CASE Enrolling!FailCallback(t)
  <2>1. Enrolling!Done(t) /\ UNCHANGED Enrolling!memory /\ UNCHANGED Enrolling!stored
        /\ UNCHANGED <<client, Enrolling!history>>
    BY <1>4 DEF Enrolling!FailCallback
  <2>2. Enrollments'
    BY <1>i, <2>1, Quiet DEF Enrolling!history, Enrolling!memory
  <2>3. Tabbed'
    BY <1>i, <2>1, DoneStep DEF Tabbed, Enrolling!history, Enrolling!memory
  <2> QED BY <1>s, <1>h, <2>1, <2>2, <2>3, EnrollingPartsNext
<1>5. CASE Enrolling!Offer(t)
  <2>1. /\ c0 \in Codes /\ Enrolling!Done(t) /\ tab[t].at = "listing"
        /\ UNCHANGED <<pending, byUserCode, byHandoff, byBinding, recent, intents>>
        /\ UNCHANGED Enrolling!stored /\ UNCHANGED <<client, Enrolling!history>>
    BY <1>5, <1>c DEF Enrolling!Offer
  <2> DEFINE r0 == [code |-> c0, account |-> tab[t].account, tab |-> t]
  <2>2. \/ UNCHANGED replacing
        \/ Enrolling!Unapproved(c0) /\ replacing' \subseteq replacing \union {r0}
    BY <1>5 DEF Enrolling!Offer, Enrolling!Offerable
  <2>3. tab[t].account \in Accounts /\ [code |-> c0, account |-> tab[t].account] \in logins
    BY <1>i, <2>1 DEF Tabbed, TabsAreConfirmed
  <2>4. Enrollments'
    <3>1. CASE UNCHANGED replacing
      BY <1>i, <2>1, <3>1, Quiet DEF Enrolling!history
    <3>2. CASE Enrolling!Unapproved(c0) /\ replacing' \subseteq replacing \union {r0}
      <4>1. r0 \in [code : Codes, account : Accounts, tab : Tabs]
        BY <2>1, <2>3
      <4> QED BY <1>i, <2>1, <2>3, <3>2, <4>1 DEF Enrolling!history, Enrollments,
                     EnrollmentTypes,
                 Enrolling!IndexesAgree, Enrolling!Unapproved, Enrolling!Find,
                 Enrolling!GrantsAreSpent, CodesWereDrawn
    <3> QED BY <2>2, <3>1, <3>2
  <2>5. Tabbed'
    BY <1>i, <2>1, DoneStep DEF Tabbed, Enrolling!history
  <2> QED BY <1>s, <1>h, <2>1, <2>4, <2>5, EnrollingPartsNext
<1>6. ASSUME NEW c \in Codes, Enrolling!TakeHandoff(t, c) PROVE EnrollingInv'
  <2>1. /\ Enrolling!At(t, "handoff", c, NoAccount, NoInstallation) \/ UNCHANGED tab
        /\ byHandoff' \subseteq byHandoff
        /\ UNCHANGED <<pending, byUserCode, byBinding, recent, intents, replacing>>
        /\ UNCHANGED Enrolling!stored /\ UNCHANGED <<client, Enrolling!history>>
    BY <1>6 DEF Enrolling!TakeHandoff
  <2>2. Enrollments'
    BY <1>i, <2>1, Fewer DEF Enrolling!history, Enrollments, EnrollmentTypes
  <2>3. Tabbed'
    BY <1>i, <2>1, TabStep, SameTabs DEF Enrolling!history
  <2> QED BY <1>s, <1>h, <2>1, <2>2, <2>3, EnrollingPartsNext
<1>7. ASSUME NEW c \in Codes, Enrolling!Confirm(t, c) PROVE EnrollingInv'
  <2>1. /\ Enrolling!At(t, "page", c, NoAccount, NoInstallation)
        /\ UNCHANGED Enrolling!memory /\ UNCHANGED Enrolling!stored
           /\ UNCHANGED <<client, Enrolling!history>>
    BY <1>7 DEF Enrolling!Confirm
  <2>2. Enrollments'
    BY <1>i, <2>1, Quiet DEF Enrolling!history, Enrolling!memory
  <2>3. Tabbed'
    BY <1>i, <2>1, TabStep DEF Enrolling!history, Enrolling!memory
  <2> QED BY <1>s, <1>h, <2>1, <2>2, <2>3, EnrollingPartsNext
<1>8. ASSUME NEW c \in Codes, Enrolling!Callback(t, c) PROVE EnrollingInv'
  <2>1. /\ Enrolling!At(t, "callback", c, NoAccount, NoInstallation)
           /\ intents' \subseteq intents
        /\ UNCHANGED <<pending, byUserCode, byHandoff, byBinding, recent, replacing>>
        /\ UNCHANGED Enrolling!stored /\ UNCHANGED <<client, Enrolling!history>>
    BY <1>8 DEF Enrolling!Callback
  <2>2. Enrollments'
    BY <1>i, <2>1, Quiet DEF Enrolling!history
  <2>3. Tabbed'
    BY <1>i, <2>1, TabStep DEF Enrolling!history
  <2> QED BY <1>s, <1>h, <2>1, <2>2, <2>3, EnrollingPartsNext
<1>9. ASSUME NEW r \in replacing, NEW i \in Installations, Enrolling!Choose(t, r, i)
      PROVE  EnrollingInv'
  <2>1. /\ Enrolling!At(t, "chosen", r.code, r.account, i) /\ replacing' \subseteq replacing
        /\ UNCHANGED <<pending, byUserCode, byHandoff, byBinding, recent, intents>>
        /\ UNCHANGED Enrolling!stored /\ UNCHANGED <<client, Enrolling!history>>
    BY <1>9 DEF Enrolling!Choose
  <2>2. Enrollments'
    BY <1>i, <2>1, Fewer DEF Enrolling!history, Enrollments, EnrollmentTypes
  <2>3. r.code \in Codes /\ r.account \in Accounts
        /\ [code |-> r.code, account |-> r.account] \in logins
    BY <1>i DEF Enrollments, EnrollmentTypes, Enrolling!GrantsAreSpent
  <2>4. Tabbed'
    BY <1>i, <2>1, <2>3, TabStep DEF Enrolling!history
  <2> QED BY <1>s, <1>h, <2>1, <2>2, <2>4, EnrollingPartsNext
<1>k. ASSUME NEW connected PROVE Enrolling!Kept(connected) \subseteq instances
  BY DEF Enrolling!Kept
<1>10. ASSUME NEW a \in Accounts, Enrolling!ApproveEnrollment(t, a) PROVE EnrollingInv'
  <2>1. /\ c0 \in Codes /\ logins' = logins \union {[code |-> c0, account |-> a]}
        /\ UNCHANGED <<client, drawn, spent>>
    BY <1>10, <1>c DEF Enrolling!ApproveEnrollment
  <2>2. Drawn'
    BY <1>i, <2>1 DEF Drawn
  <2>3. CASE Enrolling!Done(t) /\ UNCHANGED <<Enrolling!memory, Enrolling!stored>>
    <3>1. Enrollments'
      BY <1>i, <2>1, <2>3, Quiet DEF Enrolling!memory
    <3>2. Tabbed'
      BY <1>i, <2>1, <2>3, DoneStep DEF Tabbed, Enrolling!memory
    <3> QED BY <1>s, <2>2, <2>3, <3>1, <3>2, EnrollingPartsNext
  <2>4. ASSUME NEW connected, instances' = Enrolling!Kept(connected), UNCHANGED idle,
               Enrolling!At(t, "listing", c0, a, NoInstallation), UNCHANGED Enrolling!memory
        PROVE  EnrollingInv'
    <3>1. Enrollments'
      BY <1>i, <2>1, <2>4, Quiet DEF Enrolling!memory
    <3>2. Tabbed'
      BY <1>i, <2>1, <2>4, TabStep DEF Enrolling!memory
    <3>3. Records'
      BY <1>i, <1>k, <2>4, FewerRecords DEF Records
    <3> QED BY <2>2, <3>1, <3>2, <3>3, EnrollingPartsNext
  <2>5. ASSUME NEW connected, instances' = Enrolling!Kept(connected), UNCHANGED idle,
               Enrolling!Unapproved(c0),
               Enrolling!Approve(c0, a, {}), Enrolling!Done(t), UNCHANGED intents
        PROVE  EnrollingInv'
    <3>1. Enrollments'
      BY <1>i, <2>1, <2>5, ApproveStep
    <3>2. Tabbed'
      BY <1>i, <2>1, <2>5, DoneStep DEF Tabbed
    <3>3. Records'
      BY <1>i, <1>k, <2>5, FewerRecords DEF Records
    <3> QED BY <2>2, <3>1, <3>2, <3>3, EnrollingPartsNext
  <2> QED BY <1>10, <2>3, <2>4, <2>5 DEF Enrolling!ApproveEnrollment
<1>11. CASE Enrolling!Replace(t)
  <2> DEFINE a0 == tab[t].account
             i0 == tab[t].chosen
             approved == {p \in Enrolling!Approved(c0, a0) : p.instance = i0}
  <2>1. /\ c0 \in Codes /\ a0 \in Accounts /\ [code |-> c0, account |-> a0] \in logins
        /\ UNCHANGED <<client, Enrolling!history>>
    BY <1>11, <1>i DEF Enrolling!Replace, Tabbed, TabsAreConfirmed
  <2>2. UNCHANGED <<drawn, spent, logins>>
    BY <2>1 DEF Enrolling!history
  <2>3. CASE Enrolling!Done(t) /\ UNCHANGED <<Enrolling!memory, Enrolling!stored>>
    <3>1. Enrollments'
      BY <1>i, <2>2, <2>3, Quiet DEF Enrolling!memory
    <3>2. Tabbed'
      BY <1>i, <2>2, <2>3, DoneStep DEF Tabbed, Enrolling!memory
    <3> QED BY <1>s, <1>h, <2>1, <2>3, <3>1, <3>2, EnrollingPartsNext
  <2>4. ASSUME NEW gone \in SUBSET Enrolling!Approved(c0, a0), Enrolling!Unapproved(c0),
               Enrolling!Approve(c0, a0, gone), Enrolling!Done(t),
               UNCHANGED intents
        PROVE  Enrollments' /\ Tabbed'
    <3>1. Enrollments'
      BY <1>i, <2>1, <2>2, <2>4, ApproveStep
    <3>2. Tabbed'
      BY <1>i, <2>2, <2>4, DoneStep DEF Tabbed
    <3> QED BY <3>1, <3>2
  <2>5. ASSUME Enrolling!Unapproved(c0), NEW connected \in SUBSET idle, UNCHANGED <<intents, idle>>,
               NEW kept, kept = Enrolling!Kept(connected),
               NEW given, given = {x \in Enrolling!Enrolled(kept, a0) : x.id = i0},
               \/ instances' = kept /\ Enrolling!Approve(c0, a0, {}) /\ Enrolling!Done(t)
               \/ /\ given # {}
                  /\ instances' = (kept \ given) \union {[x EXCEPT !.revoked = TRUE] : x \in given}
                  /\ Enrolling!Approve(c0, a0, {}) /\ Enrolling!Done(t)
               \/ instances' = kept /\ \E p \in approved : Enrolling!Approve(c0, a0, {p})
                  /\ Enrolling!Done(t)
               \/ /\ instances' = kept /\ Enrolling!At(t, "listing", c0, a0, NoInstallation)
                  /\ UNCHANGED <<pending, byUserCode, byHandoff, byBinding, replacing, recent>>
        PROVE  EnrollingInv'
    <3>k. kept \in SUBSET instances
      BY <1>k, <2>5
    <3>1. CASE instances' = kept /\ Enrolling!Approve(c0, a0, {}) /\ Enrolling!Done(t)
      <4>1. Records'
        BY <1>i, <2>5, <3>k, <3>1, FewerRecords DEF Records
      <4> QED BY <1>h, <2>1, <2>4, <2>5, <3>1, <4>1, EnrollingPartsNext
    <3>2. CASE /\ given # {}
               /\ instances' = (kept \ given) \union {[x EXCEPT !.revoked = TRUE] : x \in given}
               /\ Enrolling!Approve(c0, a0, {}) /\ Enrolling!Done(t)
      <4>1. PICK x \in kept :
              /\ given = {x} /\ x.account = a0 /\ ~x.revoked
              /\ {[y EXCEPT !.revoked = TRUE] : y \in given} = {[x EXCEPT !.revoked = TRUE]}
        <5> HIDE DEF a0, i0
        <5>1. PICK x \in Enrolling!Enrolled(kept, a0) : x.id = i0
          BY <2>5, <3>2
        <5>2. x \in kept /\ x.account = a0 /\ ~x.revoked
          BY DEF Enrolling!Enrolled
        <5>3. given = {x}
          BY <1>i, <2>5, <3>k, <5>1 DEF Enrolling!Enrolled, Records
        <5> QED BY <5>2, <5>3
      <4> DEFINE z == [x EXCEPT !.revoked = TRUE]
      <4>2. z \in [id : Installations, account : Accounts, revoked : BOOLEAN] /\ z.id = x.id
        BY <1>i, <3>k DEF Records
      <4>3. kept \ {x} \in SUBSET instances /\ \A y \in kept \ {x} : y.id # z.id
        BY <1>i, <3>k, <4>2 DEF Records
      <4>4. instances' = (kept \ {x}) \union {z} /\ idle' \subseteq Installations
        BY <1>i, <2>5, <3>2, <4>1 DEF Records
      <4> HIDE DEF z
      <4>5. Records'
        BY <1>i, <4>2, <4>3, <4>4, NewRecord
      <4> QED BY <1>h, <2>1, <2>4, <2>5, <3>2, <4>5, EnrollingPartsNext
    <3>3. CASE instances' = kept /\ \E p \in approved : Enrolling!Approve(c0, a0, {p})
               /\ Enrolling!Done(t)
      <4>1. Records'
        BY <1>i, <2>5, <3>k, <3>3, FewerRecords DEF Records
      <4>2. PICK p \in approved : Enrolling!Approve(c0, a0, {p}) /\ Enrolling!Done(t)
        BY <3>3
      <4>3. {p} \in SUBSET Enrolling!Approved(c0, a0)
        OBVIOUS
      <4> QED BY <1>h, <2>1, <2>4, <2>5, <4>1, <4>2, <4>3, EnrollingPartsNext
    <3>4. CASE /\ instances' = kept /\ Enrolling!At(t, "listing", c0, a0, NoInstallation)
               /\ UNCHANGED <<pending, byUserCode, byHandoff, byBinding, replacing, recent>>
      <4>1. Records'
        BY <1>i, <2>5, <3>k, <3>4, FewerRecords DEF Records
      <4>2. Enrollments'
        BY <1>i, <2>2, <3>4, Quiet
      <4>3. Tabbed'
        BY <1>i, <2>1, <2>2, <2>5, <3>4, TabStep
      <4> QED BY <1>h, <2>1, <4>1, <4>2, <4>3, EnrollingPartsNext
    <3> QED BY <2>5, <3>1, <3>2, <3>3, <3>4
  <2> QED BY <1>11, <2>3, <2>5 DEF Enrolling!Replace
<1> QED BY <1>1, <1>2, <1>3, <1>4, <1>5, <1>6, <1>7, <1>8, <1>9, <1>10, <1>11

\* ... and so does every step.
LEMMA EnrollingStep ==
    ASSUME EnrollingInv, Proper, [Enrolling!Next]_Enrolling!vars
    PROVE  EnrollingInv'
<1>i. Enrollments /\ Tabbed /\ Records /\ Drawn
  BY EnrollingParts
<1>1. CASE Enrolling!ClientNext
  BY <1>1, ClientsKeep
<1>2. CASE Enrolling!TabNext
  BY <1>2, TabsKeep
<1>3. ASSUME NEW x \in instances, NEW revoked \in BOOLEAN, Enrolling!SetRevoked(x, revoked)
      PROVE  EnrollingInv'
  <2> DEFINE z == [x EXCEPT !.revoked = revoked]
  <2>1. /\ instances' = (instances \ {x}) \union {z}
        /\ UNCHANGED Enrolling!memory /\ UNCHANGED <<tab, idle>> /\ UNCHANGED Enrolling!history
    BY <1>3 DEF Enrolling!SetRevoked
  <2>2. z \in [id : Installations, account : Accounts, revoked : BOOLEAN] /\ z.id = x.id
    BY <1>i DEF Records
  <2>3. instances \ {x} \in SUBSET instances /\ \A y \in instances \ {x} : y.id # z.id
    BY <1>i, <2>2 DEF Records
  <2>4. idle' \subseteq Installations
    BY <1>i, <2>1 DEF Records
  <2>5. Records'
    <3> HIDE DEF z
    <3> QED BY <1>i, <2>1, <2>2, <2>3, <2>4, NewRecord
  <2>6. client' \in [Installations -> [phase : ClientPhases, code : Codes \union {NoCode}]]
    BY <1>3, <1>i DEF Enrolling!SetRevoked, Drawn, Enrolling!Down, ClientPhases
  <2>7. Drawn'
    BY <1>i, <2>1, <2>6 DEF Drawn, Enrolling!history
  <2>8. Enrollments' /\ Tabbed'
    BY <1>i, <2>1, Quiet, SameTabs DEF Enrolling!memory, Enrolling!history
  <2> QED BY <2>5, <2>7, <2>8, EnrollingPartsNext
<1>4. ASSUME NEW p \in pending, Enrolling!ExpireEnrollment(p) PROVE EnrollingInv'
  <2>1. Enrolling!Delete({p})
        /\ UNCHANGED <<recent, intents, tab, client, instances, idle, drawn, spent, logins>>
    BY <1>4 DEF Enrolling!ExpireEnrollment, Enrolling!stored, Enrolling!history
  <2>2. Enrollments'
    <3>1. {p} \in SUBSET pending /\ spent' \subseteq spent \union {x.code : x \in {p}}
      BY <2>1
    <3> QED BY <1>i, <2>1, <3>1, DeleteStep
  <2>3. Tabbed' /\ Records'
    BY <1>i, <2>1, SameTabs, FewerRecords DEF Records
  <2>4. Drawn'
    BY <1>i, <2>1 DEF Drawn
  <2> QED BY <2>2, <2>3, <2>4, EnrollingPartsNext
<1>5. CASE Enrolling!ExpireIntents
  <2>1. UNCHANGED <<pending, byUserCode, byHandoff, byBinding, tab, client, instances, idle, drawn,
                    spent, logins>>
    BY <1>5 DEF Enrolling!ExpireIntents, Enrolling!stored, Enrolling!history
  <2>2. intents' \subseteq intents /\ replacing' \subseteq replacing /\ recent' \in Nat
    <3>1. recent \in Nat
      BY <1>i DEF Enrollments, EnrollmentTypes
    <3> QED BY <1>5, <3>1 DEF Enrolling!ExpireIntents
  <2>3. Enrollments'
    BY <1>i, <2>1, <2>2, Fewer
  <2>4. Tabbed' /\ Records'
    BY <1>i, <2>1, <2>2, SameTabs, FewerRecords DEF Records
  <2>5. Drawn'
    BY <1>i, <2>1 DEF Drawn
  <2> QED BY <2>3, <2>4, <2>5, EnrollingPartsNext
<1>6. CASE Enrolling!Restart
  <2>1. /\ pending' = {} /\ byUserCode' = {} /\ byHandoff' = {}
           /\ byBinding' = Enrolling!Unbound
        /\ recent' = 0 /\ intents' = {} /\ replacing' = {}
           /\ tab' = [t \in Tabs |-> Enrolling!Free]
        /\ UNCHANGED <<instances, idle, drawn, spent, logins>>
    BY <1>6 DEF Enrolling!Restart, Enrolling!stored, Enrolling!history
  <2>2. Enrollments'
    <3>1. IsFiniteSet(pending')
      BY <2>1, FS_EmptySet
    <3>2. EnrollmentTypes'
      BY <2>1 DEF EnrollmentTypes, Enrolling!Unbound
    <3> QED BY <1>i, <2>1, <3>1, <3>2 DEF Enrollments, Enrolling!IndexesAgree,
                   Enrolling!GrantsAreSpent, CodesWereDrawn
  <2>3. Tabbed'
    BY <2>1 DEF Tabbed, TabsAreConfirmed, TabState, Enrolling!Free
  <2>4. Records'
    BY <1>i, <2>1, FewerRecords DEF Records
  <2>5. client' \in [Installations -> [phase : ClientPhases, code : Codes \union {NoCode}]]
    BY <1>6, <1>i DEF Enrolling!Restart, Drawn, Enrolling!Down, ClientPhases
  <2>6. Drawn'
    BY <1>i, <2>1, <2>5 DEF Drawn
  <2> QED BY <2>2, <2>3, <2>4, <2>6, EnrollingPartsNext
<1>7. CASE UNCHANGED Enrolling!vars
  <2>1. UNCHANGED Enrolling!memory
        /\ UNCHANGED <<tab, client, instances, idle, drawn, spent, logins>>
    BY <1>7 DEF Enrolling!vars, Enrolling!stored, Enrolling!history
  <2>2. Enrollments' /\ Tabbed' /\ Records'
    BY <1>i, <2>1, Quiet, SameTabs, FewerRecords DEF Enrolling!memory, Records
  <2>3. Drawn'
    BY <1>i, <2>1 DEF Drawn
  <2> QED BY <2>2, <2>3, EnrollingPartsNext
<1> QED BY <1>1, <1>2, <1>3, <1>4, <1>5, <1>6, <1>7 DEF Enrolling!Next


\* The installations of account b that are enrolled.
Held(b) == Enrolling!Enrolled(instances, b)

\* What is counted is finite.
LEMMA CountsAreFinite ==
    ASSUME Enrollments, Records, NEW b
    PROVE  /\ IsFiniteSet(Held(b)) /\ IsFiniteSet(Enrolling!Promised(b))
           /\ Cardinality(Held(b)) \in Nat /\ Cardinality(Enrolling!Promised(b)) \in Nat
<1>1. Held(b) \subseteq instances /\ Enrolling!Promised(b) \subseteq pending
  BY DEF Held, Enrolling!Enrolled, Enrolling!Promised
<1> QED BY <1>1, FS_Subset, FS_CardinalityType DEF Enrollments, Records

\* The size of a set that gains or loses one element, or exchanges one.
LEMMA Sizes ==
    ASSUME NEW S, IsFiniteSet(S), NEW T, NEW u, NEW v
    PROVE  /\ Cardinality(S) \in Nat
           /\ T \subseteq S \union {u} =>
                 Cardinality(T) \in Nat /\ Cardinality(T) <= Cardinality(S) + 1
           /\ v \in S /\ T \subseteq S \ {v} =>
                 Cardinality(T) \in Nat /\ Cardinality(T) <= Cardinality(S) - 1
           /\ v \in S /\ T \subseteq (S \ {v}) \union {u} =>
                 Cardinality(T) \in Nat /\ Cardinality(T) <= Cardinality(S)
           /\ T \subseteq S => Cardinality(T) \in Nat /\ Cardinality(T) <= Cardinality(S)
<1>1. ASSUME NEW X, IsFiniteSet(X), T \subseteq X
      PROVE  Cardinality(T) \in Nat /\ Cardinality(T) <= Cardinality(X) /\ Cardinality(X) \in Nat
  BY <1>1, FS_Subset, FS_CardinalityType
<1>2. ASSUME NEW X, IsFiniteSet(X)
      PROVE  /\ IsFiniteSet(X \union {u}) /\ Cardinality(X \union {u}) <= Cardinality(X) + 1
             /\ Cardinality(X) \in Nat
  <2>1. /\ IsFiniteSet(X \union {u}) /\ Cardinality(X) \in Nat
        /\ Cardinality(X \union {u}) = IF u \in X THEN Cardinality(X) ELSE Cardinality(X) + 1
    BY <1>2, FS_AddElement, FS_CardinalityType
  <2> QED BY <2>1
<1>3. v \in S => IsFiniteSet(S \ {v}) /\ Cardinality(S \ {v}) = Cardinality(S) - 1
  BY FS_RemoveElement
<1>4. Cardinality(S) \in Nat
  BY FS_CardinalityType
<1>5. ASSUME T \subseteq S \union {u} PROVE Cardinality(T) \in Nat /\ Cardinality(T)
      <= Cardinality(S) + 1
  <2>1. /\ Cardinality(T) \in Nat /\ Cardinality(T) <= Cardinality(S \union {u})
        /\ Cardinality(S \union {u}) \in Nat
    BY <1>1, <1>2, <1>5
  <2> QED BY <1>2, <1>4, <2>1
<1>6. ASSUME v \in S, T \subseteq S \ {v}
      PROVE  Cardinality(T) \in Nat /\ Cardinality(T) <= Cardinality(S) - 1
  BY <1>1, <1>3, <1>6
<1>7. ASSUME v \in S, T \subseteq (S \ {v}) \union {u}
      PROVE  Cardinality(T) \in Nat /\ Cardinality(T) <= Cardinality(S)
  <2> DEFINE R == S \ {v}
  <2>1. IsFiniteSet(R) /\ Cardinality(R) = Cardinality(S) - 1
    BY <1>3, <1>7
  <2>2. IsFiniteSet(R \union {u}) /\ Cardinality(R \union {u}) <= Cardinality(R) + 1
    BY <1>2, <2>1
  <2>3. /\ Cardinality(T) \in Nat /\ Cardinality(T) <= Cardinality(R \union {u})
        /\ Cardinality(R \union {u}) \in Nat
    BY <1>1, <1>7, <2>2
  <2> HIDE DEF R
  <2> QED BY <1>4, <2>1, <2>2, <2>3
<1> QED BY <1>1, <1>4, <1>5, <1>6, <1>7

\* An account has no more installations when none is added.
LEMMA NoMore ==
    ASSUME Enrollments, Records, NEW b, Held(b)' \subseteq Held(b),
           Enrolling!Promised(b)' \subseteq Enrolling!Promised(b)
    PROVE  ~(Enrolling!Admitted(b)' > Enrolling!Admitted(b))
<1> DEFINE E == Held(b)
           P == Enrolling!Promised(b)
<1>1. IsFiniteSet(E) /\ IsFiniteSet(P)
  BY CountsAreFinite
<1>2. /\ Cardinality(E) \in Nat /\ Cardinality(E') \in Nat /\ Cardinality(E') <= Cardinality(E)
      /\ Cardinality(P) \in Nat /\ Cardinality(P') \in Nat /\ Cardinality(P') <= Cardinality(P)
  BY <1>1, Sizes
<1>3. Enrolling!Admitted(b) = Cardinality(E) + Cardinality(P)
      /\ Enrolling!Admitted(b)' = Cardinality(E') + Cardinality(P')
  BY DEF Enrolling!Admitted, Held, Enrolling!Cardinality, Cardinality
<1> HIDE DEF E, P
<1> QED BY <1>2, <1>3

\* An account has no more installations when one enrols that was approved,
\* or one that is approved takes another's place.
LEMMA Exchanged ==
    ASSUME Enrollments, Records, NEW b, NEW x, NEW y,
           \/ /\ Held(b)' \subseteq Held(b) \union {x}
              /\ y \in Enrolling!Promised(b)
              /\ Enrolling!Promised(b)' \subseteq Enrolling!Promised(b) \ {y}
           \/ /\ x \in Held(b) /\ Held(b)' \subseteq Held(b) \ {x}
              /\ Enrolling!Promised(b)' \subseteq Enrolling!Promised(b) \union {y}
           \/ /\ Held(b)' \subseteq Held(b)
              /\ y \in Enrolling!Promised(b)
              /\ Enrolling!Promised(b)' \subseteq (Enrolling!Promised(b) \ {y}) \union {x}
    PROVE  ~(Enrolling!Admitted(b)' > Enrolling!Admitted(b))
<1> DEFINE E == Held(b)
           P == Enrolling!Promised(b)
<1>1. IsFiniteSet(E) /\ IsFiniteSet(P) /\ Cardinality(E) \in Nat /\ Cardinality(P) \in Nat
  BY CountsAreFinite
<1>2. /\ Cardinality(E') \in Nat /\ Cardinality(P') \in Nat
      /\ Cardinality(E') + Cardinality(P') <= Cardinality(E) + Cardinality(P)
  <2>1. CASE E' \subseteq E \union {x} /\ y \in P /\ P' \subseteq P \ {y}
    <3>1. Cardinality(E') \in Nat /\ Cardinality(E') <= Cardinality(E) + 1
      BY <1>1, <2>1, Sizes
    <3>2. Cardinality(P') \in Nat /\ Cardinality(P') <= Cardinality(P) - 1
      BY <1>1, <2>1, Sizes
    <3> HIDE DEF E, P
    <3> QED BY <1>1, <3>1, <3>2
  <2>2. CASE x \in E /\ E' \subseteq E \ {x} /\ P' \subseteq P \union {y}
    <3>1. Cardinality(E') \in Nat /\ Cardinality(E') <= Cardinality(E) - 1
      BY <1>1, <2>2, Sizes
    <3>2. Cardinality(P') \in Nat /\ Cardinality(P') <= Cardinality(P) + 1
      BY <1>1, <2>2, Sizes
    <3> HIDE DEF E, P
    <3> QED BY <1>1, <3>1, <3>2
  <2>3. CASE E' \subseteq E /\ y \in P /\ P' \subseteq (P \ {y}) \union {x}
    <3>1. Cardinality(E') \in Nat /\ Cardinality(E') <= Cardinality(E)
      BY <1>1, <2>3, Sizes
    <3>2. Cardinality(P') \in Nat /\ Cardinality(P') <= Cardinality(P)
      BY <1>1, <2>3, Sizes
    <3> HIDE DEF E, P
    <3> QED BY <1>1, <3>1, <3>2
  <2> QED BY <2>1, <2>2, <2>3
<1>3. Enrolling!Admitted(b) = Cardinality(E) + Cardinality(P)
      /\ Enrolling!Admitted(b)' = Cardinality(E') + Cardinality(P')
  BY DEF Enrolling!Admitted, Held, Enrolling!Cardinality, Cardinality
<1> HIDE DEF E, P
<1> QED BY <1>1, <1>2, <1>3

\* What an approval does to the approved ones of each account.
LEMMA ApprovedFor ==
    ASSUME Enrollments, Proper, NEW c \in Codes, NEW a \in Accounts,
           NEW gone \in SUBSET Enrolling!Approved(c, a),
           NEW p \in pending, p.code = c, p.account = NoAccount,
           pending' = (pending \ (gone \union {p})) \union {[p EXCEPT !.account = a]}
    PROVE  /\ \A b \in Accounts \ {a} : Enrolling!Promised(b)' \subseteq Enrolling!Promised(b)
           /\ Enrolling!Promised(a)' \subseteq (Enrolling!Promised(a) \ gone) \union {[p EXCEPT !.account = a]}
           /\ Enrolling!Promised(a) \subseteq Enrolling!Approved(c, a)
              /\ gone \subseteq Enrolling!Promised(a)
<1> DEFINE q == [p EXCEPT !.account = a]
<1>1. q.account = a
  BY DEF Enrollments, EnrollmentTypes, Enrolling!Enrollment
<1>2. Enrolling!Promised(a) \subseteq Enrolling!Approved(c, a)
      /\ gone \subseteq Enrolling!Promised(a)
  BY DEF Enrolling!Promised, Enrolling!Approved, Enrollments, Proper
<1>3. pending' = (pending \ (gone \union {p})) \union {q}
  OBVIOUS
<1> HIDE DEF q
<1>4. \A b \in Accounts \ {a} : Enrolling!Promised(b)' \subseteq Enrolling!Promised(b)
  BY <1>1, <1>3 DEF Enrolling!Promised
<1>5. Enrolling!Promised(a)' \subseteq (Enrolling!Promised(a) \ gone) \union {q}
  BY <1>1, <1>3 DEF Enrolling!Promised
<1> QED BY <1>2, <1>4, <1>5 DEF q

\* An account below its limit is not above it with one more.
LEMMA BelowLimit ==
    ASSUME Enrollments, Records, Proper, NEW c \in Codes, NEW a \in Accounts, NEW q,
           NEW kept \in SUBSET instances, instances' = kept, ~Enrolling!AtLimit(kept, c, a),
           Enrolling!Promised(a)' \subseteq Enrolling!Promised(a) \union {q},
           Enrolling!Promised(a) \subseteq Enrolling!Approved(c, a)
    PROVE  Enrolling!Admitted(a)' <= Limit
<1> DEFINE E == Enrolling!Enrolled(kept, a)
           A == Enrolling!Approved(c, a)
<1>1. E \subseteq instances /\ A \subseteq pending /\ Held(a)' = E
  BY DEF Held, Enrolling!Enrolled, Enrolling!Approved
<1>2. IsFiniteSet(A) /\ Cardinality(A) \in Nat /\ Cardinality(E) \in Nat
  BY <1>1, FS_Subset, FS_CardinalityType DEF Enrollments, Records
<1>4. Enrolling!Promised(a)' \subseteq A \union {q}
  OBVIOUS
<1>5. Cardinality(Enrolling!Promised(a)') \in Nat /\ Cardinality(Enrolling!Promised(a)')
      <= Cardinality(A) + 1
  BY <1>2, <1>4, Sizes
<1>6. ~(Cardinality(E) + Cardinality(A) >= Limit) /\ Limit \in Nat
  BY DEF Enrolling!AtLimit, Enrolling!Count, Enrolling!Cardinality, Cardinality, Proper
<1>7. Enrolling!Admitted(a)' = Cardinality(E) + Cardinality(Enrolling!Promised(a)')
  BY <1>1 DEF Enrolling!Admitted, Held, Enrolling!Cardinality, Cardinality
<1> HIDE DEF E, A
<1> QED BY <1>2, <1>5, <1>6, <1>7

\* The four ways a replacement ends.
LEMMA ReplacingWithinLimit ==
    ASSUME Enrollments, Records, Proper, NEW c \in Codes, NEW a \in Accounts, NEW i,
           NEW b \in Accounts,
           [code |-> c, account |-> a] \in logins, UNCHANGED Enrolling!history,
           Enrolling!Unapproved(c),
           NEW kept \in SUBSET instances, NEW given, given = {x \in Enrolling!Enrolled(kept,
           a) : x.id = i},
           \/ instances' = kept /\ ~Enrolling!AtLimit(kept, c, a) /\ Enrolling!Approve(c, a, {})
           \/ /\ given # {}
              /\ instances' = (kept \ given) \union {[x EXCEPT !.revoked = TRUE] : x \in given}
              /\ Enrolling!Approve(c, a, {})
           \/ instances' = kept
              /\ \E p \in Enrolling!Approved(c, a) : Enrolling!Approve(c, a, {p})
           \/ instances' = kept /\ UNCHANGED pending
    PROVE  Enrolling!Admitted(b)' > Enrolling!Admitted(b) => Enrolling!Admitted(b)' <= Limit
<1>k. instances' = kept => Held(b)' \subseteq Held(b)
  BY DEF Held, Enrolling!Enrolled
<1>a. ASSUME NEW gone \in SUBSET Enrolling!Approved(c, a), Enrolling!Approve(c, a, gone)
      PROVE  /\ b # a => Enrolling!Promised(b)' \subseteq Enrolling!Promised(b)
             /\ \E q : Enrolling!Promised(a)' \subseteq (Enrolling!Promised(a) \ gone) \union {q}
             /\ Enrolling!Promised(a) \subseteq Enrolling!Approved(c, a)
                /\ gone \subseteq Enrolling!Promised(a)
  <2>1. PICK p \in pending : /\ p.code = c /\ p.account = NoAccount
                              /\ pending' = (pending \ (gone \union {p})) \union {[p EXCEPT !.account = a]}
    BY <1>a, ApproveStep DEF Enrolling!history
  <2> QED BY <1>a, <2>1, ApprovedFor
<1>1. CASE instances' = kept /\ ~Enrolling!AtLimit(kept, c, a) /\ Enrolling!Approve(c, a, {})
  <2>1. /\ b # a => Enrolling!Promised(b)' \subseteq Enrolling!Promised(b)
        /\ \E q : Enrolling!Promised(a)' \subseteq Enrolling!Promised(a) \union {q}
        /\ Enrolling!Promised(a) \subseteq Enrolling!Approved(c, a)
    BY <1>a, <1>1
  <2>2. CASE b = a
    BY <1>1, <2>1, <2>2, BelowLimit
  <2>3. CASE b # a
    BY <1>k, <1>1, <2>1, <2>3, NoMore
  <2> QED BY <2>2, <2>3
<1>2. CASE /\ given # {}
           /\ instances' = (kept \ given) \union {[x EXCEPT !.revoked = TRUE] : x \in given}
           /\ Enrolling!Approve(c, a, {})
  <2>1. PICK q : /\ b # a => Enrolling!Promised(b)' \subseteq Enrolling!Promised(b)
                 /\ Enrolling!Promised(a)' \subseteq Enrolling!Promised(a) \union {q}
    BY <1>a, <1>2
  <2>2. \A x \in given : [x EXCEPT !.revoked = TRUE].revoked
    BY DEF Enrolling!Enrolled, Records
  <2>3. Held(b)' \subseteq Held(b) \ given
    <3>1. \A x \in instances' : ~x.revoked => x \in instances /\ x \notin given
      BY <1>2, <2>2
    <3> QED BY <3>1 DEF Held, Enrolling!Enrolled
  <2>4. CASE b = a
    <3>1. PICK x \in given : x \in Held(b)
      BY <1>2, <2>4 DEF Held, Enrolling!Enrolled
    <3>2. Held(b)' \subseteq Held(b) \ {x}
          /\ Enrolling!Promised(b)' \subseteq Enrolling!Promised(b) \union {q}
      BY <2>1, <2>3, <2>4
    <3> QED BY <3>1, <3>2, Exchanged
  <2>5. CASE b # a
    BY <2>1, <2>3, <2>5, NoMore
  <2> QED BY <2>4, <2>5
<1>3. ASSUME instances' = kept, NEW p \in Enrolling!Approved(c, a), Enrolling!Approve(c, a, {p})
      PROVE  ~(Enrolling!Admitted(b)' > Enrolling!Admitted(b))
  <2>1. PICK q : /\ b # a => Enrolling!Promised(b)' \subseteq Enrolling!Promised(b)
                 /\ Enrolling!Promised(a)' \subseteq (Enrolling!Promised(a) \ {p}) \union {q}
                 /\ p \in Enrolling!Promised(a)
    <3>1. {p} \in SUBSET Enrolling!Approved(c, a)
      BY <1>3
    <3> QED BY <1>a, <1>3, <3>1
  <2>2. CASE b = a
    BY <1>k, <1>3, <2>1, <2>2, Exchanged
  <2>3. CASE b # a
    BY <1>k, <1>3, <2>1, <2>3, NoMore
  <2> QED BY <2>2, <2>3
<1>4. CASE instances' = kept /\ UNCHANGED pending
  <2>1. Enrolling!Promised(b)' \subseteq Enrolling!Promised(b)
    BY <1>4 DEF Enrolling!Promised
  <2> QED BY <1>k, <1>4, <2>1, NoMore
<1> QED BY <1>1, <1>2, <1>3, <1>4

\* A replacement does not take an account above its limit ...
LEMMA ChangesWithinLimit ==
    ASSUME EnrollingInv, Proper, NEW t \in Tabs, Enrolling!Replace(t), NEW b \in Accounts
    PROVE  Enrolling!Admitted(b)' > Enrolling!Admitted(b) => Enrolling!Admitted(b)' <= Limit
<1> DEFINE c == tab[t].code
           a == tab[t].account
           i == tab[t].chosen
<1>i. Enrollments /\ Tabbed /\ Records /\ Drawn
  BY EnrollingParts
<1>1. c \in Codes /\ a \in Accounts /\ [code |-> c, account |-> a] \in logins
      /\ UNCHANGED Enrolling!history
  BY <1>i DEF Enrolling!Replace, Tabbed, TabsAreConfirmed
<1>2. CASE UNCHANGED <<Enrolling!memory, Enrolling!stored>>
  <2>1. Held(b)' \subseteq Held(b) /\ Enrolling!Promised(b)' \subseteq Enrolling!Promised(b)
    BY <1>2 DEF Enrolling!memory, Enrolling!stored, Held, Enrolling!Enrolled, Enrolling!Promised
  <2> QED BY <1>i, <2>1, NoMore
<1>4. CASE ~UNCHANGED <<Enrolling!memory, Enrolling!stored>>
  <2>1. PICK connected \in SUBSET idle :
          LET kept == Enrolling!Kept(connected)
              given == {x \in Enrolling!Enrolled(kept, a) : x.id = i}
          IN  \/ /\ instances' = kept /\ ~Enrolling!AtLimit(kept, c, a)
                 /\ Enrolling!Approve(c, a, {})
              \/ /\ given # {}
                 /\ instances' = (kept \ given) \union {[x EXCEPT !.revoked = TRUE] : x \in given}
                 /\ Enrolling!Approve(c, a, {})
              \/ instances' = kept
                 /\ \E p \in Enrolling!Approved(c, a) : Enrolling!Approve(c, a, {p})
              \/ instances' = kept /\ UNCHANGED pending
    BY <1>4 DEF Enrolling!Replace
  <2>2. Enrolling!Kept(connected) \in SUBSET instances /\ Enrolling!Unapproved(c)
    BY <1>4 DEF Enrolling!Replace, Enrolling!Kept
  <2> HIDE DEF c, a, i
  <2> QED BY <1>i, <1>1, <2>1, <2>2, ReplacingWithinLimit
<1> QED BY <1>2, <1>4

\* ... an approval does not ...
LEMMA ApprovalsWithinLimit ==
    ASSUME EnrollingInv, Proper, NEW t \in Tabs, NEW a \in Accounts,
           Enrolling!ApproveEnrollment(t, a), NEW b \in Accounts
    PROVE  Enrolling!Admitted(b)' > Enrolling!Admitted(b) => Enrolling!Admitted(b)' <= Limit
<1> DEFINE c == tab[t].code
<1>i. Enrollments /\ Tabbed /\ Records /\ Drawn
  BY EnrollingParts
<1>1. /\ c \in Codes /\ logins' = logins \union {[code |-> c, account |-> a]}
      /\ UNCHANGED <<drawn, spent>>
  BY <1>i DEF Enrolling!ApproveEnrollment, Tabbed, TabsAreConfirmed
<1>2. CASE UNCHANGED <<Enrolling!memory, Enrolling!stored>>
  <2>1. Held(b)' \subseteq Held(b) /\ Enrolling!Promised(b)' \subseteq Enrolling!Promised(b)
    BY <1>2 DEF Enrolling!memory, Enrolling!stored, Held, Enrolling!Enrolled, Enrolling!Promised
  <2> QED BY <1>i, <2>1, NoMore
<1>3. ASSUME NEW connected, Enrolling!Unapproved(c), instances' = Enrolling!Kept(connected),
             \/ UNCHANGED pending
             \/ ~Enrolling!AtLimit(Enrolling!Kept(connected), c, a)
                /\ Enrolling!Approve(c, a, {})
      PROVE  Enrolling!Admitted(b)' > Enrolling!Admitted(b) => Enrolling!Admitted(b)' <= Limit
  <2> HIDE DEF c
  <2>1. Enrolling!Kept(connected) \in SUBSET instances
    BY DEF Enrolling!Kept
  <2>2. Held(b)' \subseteq Held(b)
    BY <1>3, <2>1 DEF Held, Enrolling!Enrolled
  <2>3. CASE UNCHANGED pending
    <3>1. Enrolling!Promised(b)' \subseteq Enrolling!Promised(b)
      BY <2>3 DEF Enrolling!Promised
    <3> QED BY <1>i, <2>2, <3>1, NoMore
  <2>4. CASE ~Enrolling!AtLimit(Enrolling!Kept(connected), c, a) /\ Enrolling!Approve(c, a, {})
    <3>1. PICK p \in pending : /\ p.code = c /\ p.account = NoAccount
                                /\ pending' = (pending \ ({} \union {p})) \union {[p EXCEPT !.account = a]}
      BY <1>i, <1>1, <1>3, <2>4, ApproveStep
    <3>2. PICK q : /\ \A x \in Accounts \ {a} : Enrolling!Promised(x)' \subseteq Enrolling!Promised(x)
                   /\ Enrolling!Promised(a)' \subseteq (Enrolling!Promised(a) \ {}) \union {q}
                   /\ Enrolling!Promised(a) \subseteq Enrolling!Approved(c, a)
      BY <1>i, <1>1, <3>1, ApprovedFor
    <3>3. CASE b = a
      BY <1>i, <1>1, <1>3, <2>1, <2>4, <3>2, <3>3, BelowLimit
    <3>4. CASE b # a
      BY <1>i, <2>2, <3>2, <3>4, NoMore
    <3> QED BY <3>3, <3>4
  <2> QED BY <1>3, <2>3, <2>4
<1>4. CASE ~UNCHANGED <<Enrolling!memory, Enrolling!stored>>
  <2>1. /\ Enrolling!Unapproved(c)
        /\ \E connected \in SUBSET idle :
              /\ instances' = Enrolling!Kept(connected)
              /\ \/ UNCHANGED pending
                 \/ ~Enrolling!AtLimit(Enrolling!Kept(connected), c, a)
                    /\ Enrolling!Approve(c, a, {})
    BY <1>4 DEF Enrolling!ApproveEnrollment, Enrolling!memory
  <2> HIDE DEF c
  <2> QED BY <1>3, <2>1
<1> QED BY <1>2, <1>4

\* ... a grant that is redeemed was counted before ...
LEMMA RedeemingAddsNone ==
    ASSUME EnrollingInv, Proper, NEW i \in Installations, Enrolling!Redeem(i),
           NEW b \in Accounts
    PROVE  ~(Enrolling!Admitted(b)' > Enrolling!Admitted(b))
<1>i. Enrollments /\ Tabbed /\ Records /\ Drawn
  BY EnrollingParts
<1>1. CASE UNCHANGED <<Enrolling!memory, Enrolling!stored, Enrolling!history>>
  <2>1. Held(b)' \subseteq Held(b) /\ Enrolling!Promised(b)' \subseteq Enrolling!Promised(b)
    BY <1>1 DEF Enrolling!memory, Enrolling!stored, Held, Enrolling!Enrolled, Enrolling!Promised
  <2> QED BY <1>i, <2>1, NoMore
<1>2. ASSUME NEW p \in pending, p.account # NoAccount, pending' = pending \ {p},
             instances' = {x \in instances : x.id # i /\ (x.revoked \/ x.id \notin idle)} \union
                    {[id |-> i, account |-> p.account, revoked |-> FALSE]}
      PROVE  ~(Enrolling!Admitted(b)' > Enrolling!Admitted(b))
  <2> DEFINE x == [id |-> i, account |-> p.account, revoked |-> FALSE]
  <2>1. Held(b)' \subseteq Held(b) \union (IF p.account = b THEN {x} ELSE {})
    BY <1>2 DEF Held, Enrolling!Enrolled
  <2>2. Enrolling!Promised(b)' \subseteq Enrolling!Promised(b) \ {p}
    BY <1>2 DEF Enrolling!Promised
  <2> HIDE DEF x
  <2>3. CASE p.account = b
    <3>1. p \in Enrolling!Promised(b) /\ Held(b)' \subseteq Held(b) \union {x}
      BY <2>1, <2>3 DEF Enrolling!Promised
    <3> QED BY <1>i, <2>2, <3>1, Exchanged
  <2>4. CASE p.account # b
    <3>1. Held(b)' \subseteq Held(b) /\ Enrolling!Promised(b)' \subseteq Enrolling!Promised(b)
      BY <2>1, <2>2, <2>4
    <3> QED BY <1>i, <3>1, NoMore
  <2> QED BY <2>3, <2>4
<1>3. CASE ~UNCHANGED <<Enrolling!memory, Enrolling!stored, Enrolling!history>>
  <2>1. \E p \in pending : /\ p.account # NoAccount /\ pending' = pending \ {p}
                           /\ instances' =
                                 {x \in instances : x.id # i /\ (x.revoked \/ x.id \notin idle)}
                                   \union {[id |-> i, account |-> p.account, revoked |-> FALSE]}
    BY <1>3 DEF Enrolling!Redeem, Enrolling!Redeemed, Enrolling!Delete, Enrolling!Find
  <2> QED BY <1>2, <2>1
<1> QED BY <1>1, <1>3

\* ... and only an un-revoked installation does.
LEMMA StaysWithinLimit ==
    ASSUME EnrollingInv, Proper, [Enrolling!Next]_Enrolling!vars
    PROVE  Enrolling!AdmitsWithinLimit
<1> SUFFICES ASSUME NEW b \in Accounts, ~Enrolling!Unrevokes
             PROVE  Enrolling!Admitted(b)' > Enrolling!Admitted(b)
                       => Enrolling!Admitted(b)' <= Limit
  BY DEF Enrolling!AdmitsWithinLimit
<1>i. Enrollments /\ Tabbed /\ Records /\ Drawn
  BY EnrollingParts
<1>q. ASSUME pending' \subseteq pending, instances' \subseteq instances
      PROVE  ~(Enrolling!Admitted(b)' > Enrolling!Admitted(b))
  <2>1. Held(b)' \subseteq Held(b) /\ Enrolling!Promised(b)' \subseteq Enrolling!Promised(b)
    BY <1>q DEF Held, Enrolling!Enrolled, Enrolling!Promised
  <2> QED BY <1>i, <2>1, NoMore
<1>1. CASE Enrolling!ClientNext
  <2>1. PICK i \in Installations :
          \/ Enrolling!Connect(i) \/ Enrolling!Poll(i) \/ Enrolling!Redeem(i)
             \/ Enrolling!Leave(i) \/ Enrolling!GoIdle(i)
          \/ \E c \in Codes : Enrolling!Begin(i, c)
    BY <1>1 DEF Enrolling!ClientNext
  <2>2. CASE Enrolling!Connect(i) \/ Enrolling!Poll(i) \/ Enrolling!Leave(i)
             \/ Enrolling!GoIdle(i)
    <3>1. UNCHANGED <<pending, instances>>
      BY <2>2 DEF Enrolling!Connect, Enrolling!Poll, Enrolling!Leave, Enrolling!GoIdle,
             Enrolling!memory, Enrolling!stored
    <3> QED BY <1>q, <3>1
  <2>3. CASE Enrolling!Redeem(i)
    BY <2>3, RedeemingAddsNone
  <2>4. ASSUME NEW c \in Codes, Enrolling!Begin(i, c)
        PROVE  ~(Enrolling!Admitted(b)' > Enrolling!Admitted(b))
    <3>1. instances' = instances /\ \A p \in pending' : p \in pending \/ p.account = NoAccount
      BY <2>4 DEF Enrolling!Begin, Enrolling!stored
    <3>2. Held(b)' \subseteq Held(b) /\ Enrolling!Promised(b)' \subseteq Enrolling!Promised(b)
      BY <3>1 DEF Held, Enrolling!Enrolled, Enrolling!Promised, Proper
    <3> QED BY <1>i, <3>2, NoMore
  <2> QED BY <2>1, <2>2, <2>3, <2>4
<1>2. CASE Enrolling!TabNext
  <2>1. PICK t \in Tabs :
          \/ Enrolling!BeginGitHubOAuth(t) \/ Enrolling!FailGitHubOAuth(t)
             \/ Enrolling!FailCallback(t) \/ Enrolling!Offer(t) \/ Enrolling!Replace(t)
          \/ \E c \in Codes : Enrolling!TakeHandoff(t, c) \/ Enrolling!Confirm(t, c)
             \/ Enrolling!Callback(t, c)
          \/ \E a \in Accounts : Enrolling!ApproveEnrollment(t, a)
          \/ \E r \in replacing, i \in Installations : Enrolling!Choose(t, r, i)
    BY <1>2 DEF Enrolling!TabNext
  <2>2. CASE \/ Enrolling!BeginGitHubOAuth(t) \/ Enrolling!FailGitHubOAuth(t)
             \/ Enrolling!FailCallback(t) \/ Enrolling!Offer(t)
             \/ \E c \in Codes : Enrolling!TakeHandoff(t, c) \/ Enrolling!Confirm(t, c)
                \/ Enrolling!Callback(t, c)
             \/ \E r \in replacing, i \in Installations : Enrolling!Choose(t, r, i)
    <3>1. UNCHANGED <<pending, instances>>
      BY <2>2 DEF Enrolling!BeginGitHubOAuth, Enrolling!FailGitHubOAuth,
             Enrolling!FailCallback, Enrolling!Offer, Enrolling!TakeHandoff, Enrolling!Confirm,
                  Enrolling!Callback, Enrolling!Choose, Enrolling!memory, Enrolling!stored
    <3> QED BY <1>q, <3>1
  <2>3. CASE Enrolling!Replace(t)
    BY <2>3, ChangesWithinLimit
  <2>4. CASE \E a \in Accounts : Enrolling!ApproveEnrollment(t, a)
    BY <2>4, ApprovalsWithinLimit
  <2> QED BY <2>1, <2>2, <2>3, <2>4
<1>3. ASSUME NEW x \in instances, NEW revoked \in BOOLEAN, Enrolling!SetRevoked(x, revoked)
      PROVE  ~(Enrolling!Admitted(b)' > Enrolling!Admitted(b))
  <2>1. /\ instances' = (instances \ {x}) \union {[x EXCEPT !.revoked = revoked]}
        /\ UNCHANGED pending /\ x.revoked # revoked /\ x.revoked \in BOOLEAN
    BY <1>3, <1>i DEF Enrolling!SetRevoked, Enrolling!memory, Records
  <2>2. CASE revoked = FALSE
    <3>1. Enrolling!Unrevokes
      BY <2>1, <2>2 DEF Enrolling!Unrevokes
    <3> QED BY <3>1
  <2>3. CASE revoked = TRUE
    <3>1. [x EXCEPT !.revoked = TRUE].revoked
      BY <1>i DEF Records
    <3>2. Held(b)' \subseteq Held(b) /\ Enrolling!Promised(b)' \subseteq Enrolling!Promised(b)
      BY <2>1, <2>3, <3>1 DEF Held, Enrolling!Enrolled, Enrolling!Promised
    <3> QED BY <1>i, <3>2, NoMore
  <2> QED BY <2>2, <2>3
<1>4. CASE \/ \E p \in pending : Enrolling!ExpireEnrollment(p)
           \/ Enrolling!ExpireIntents
           \/ Enrolling!Restart
           \/ UNCHANGED Enrolling!vars
  <2>1. pending' \subseteq pending /\ instances' = instances
    BY <1>4 DEF Enrolling!ExpireEnrollment, Enrolling!Delete, Enrolling!ExpireIntents,
           Enrolling!Restart, Enrolling!vars, Enrolling!memory, Enrolling!stored
  <2> QED BY <1>q, <2>1
<1> QED BY <1>1, <1>2, <1>3, <1>4 DEF Enrolling!Next

-----------------------------------------------------------------------------
(* Lifecycle runs: a push says ok only if its own job succeeded.           *)

settings == x1
shown == x2       \* runs, there
pushing == x3
job == x4
tokenSent == x5
member == x6
issuing == x7
started == x8
succeeded == x9
NoJob == None
NoIssue == None
USE DEF settings, shown, pushing, job, tokenSent, member, issuing, started, succeeded, NoJob, NoIssue

\* Follows from ComponentsAssumption and NumbersAssumption.
LifecycleBounds ==
    /\ MaxRuns \in Nat /\ MaxStarted \in Nat
    /\ NoJob \notin Nat /\ NoJob \notin Lifecycle!Job

\* The pushes that are left: a user goes before a group.
Queues == {<<>>, <<"user">>, <<"group">>, <<"user", "group">>}
UserFirst(p) == p.queue # <<>> /\ Head(p.queue) = "user"

\* What has not started has no pushes, and nothing is left of it.
OnlyStartedRun ==
    /\ \A i \in 1 .. Len(shown) : shown[i].id <= started
    /\ \A id \in Lifecycle!RunIds : id > started =>
          /\ pushing[id] = Lifecycle!NoPush
          /\ \A s \in Lifecycle!Pushes : <<id, s>> \notin succeeded
\* A goroutine that waits for a job has a push the job is for, and a group's is
\* not tried when the user's failed.
PushesInOrder ==
    \A id \in Lifecycle!RunIds :
        /\ pushing[id].queue \in Queues
        /\ pushing[id].job # NoJob =>
              /\ pushing[id].queue # <<>> /\ job # NoJob
              /\ Head(pushing[id].queue) = "group" => "user" \notin pushing[id].failed
        /\ <<id, "group">> \in succeeded => ~UserFirst(pushing[id])
\* A job that succeeded is known to have.
JobsAreTold ==
    job # NoJob /\ ~job.running /\ job.success =>
        \A id \in Lifecycle!RunIds :
            pushing[id].job = job.id => <<id, Head(pushing[id].queue)>> \in succeeded
\* A joiner whose user's push is over shows it ok, unless it failed.
JoinersInOrder ==
    \A i \in 1 .. Len(shown) : shown[i].kind = "joiner" =>
        LET id == shown[i].id
        IN  ~UserFirst(pushing[id]) /\ pushing[id].queue # <<>> /\ "user" \notin pushing[id].failed
               => shown[i].step["user"] = "ok"

\* The inductive invariant.
LifecycleInv ==
    /\ Lifecycle!TypeOK /\ OnlyStartedRun /\ PushesInOrder /\ JobsAreTold /\ JoinersInOrder
    /\ Lifecycle!PushesTellTheTruth

\* The first push of a queue and the rest.
LEMMA QueueFacts ==
    /\ Queues \subseteq Seq(Lifecycle!Pushes)
    /\ \A q \in Queues : q # <<>> =>
          /\ Head(q) \in Lifecycle!Pushes /\ Tail(q) \in Queues
          /\ Tail(q) # <<>> => Head(q) = "user" /\ Tail(q) = <<"group">> /\ Head(Tail(q)) = "group"
    /\ Head(<<"group">>) = "group"
<1>1. Tail(<<"user">>) = <<>> /\ Tail(<<"group">>) = <<>> /\ Tail(<<"user", "group">>) = <<"group">>
  OBVIOUS
<1>2. Head(<<"user">>) = "user" /\ Head(<<"group">>) = "group" /\ Head(<<"user", "group">>) = "user"
  OBVIOUS
<1> QED BY <1>1, <1>2 DEF Queues, Lifecycle!Pushes

\* The table and the goroutines remember fewer jobs than there are IDs.
LEMMA NewJobIs ==
    ASSUME LifecycleBounds, LifecycleInv
    PROVE  LET new == Lifecycle!NewJob IN
           /\ new \in Lifecycle!Job /\ new.running /\ new.id \in Lifecycle!JobIds
           /\ \A id \in Lifecycle!RunIds : pushing[id].job # new.id
<1> DEFINE awaited == {pushing[id].job : id \in Lifecycle!RunIds}
           used == awaited \union (IF job = NoJob THEN {} ELSE {job.id})
           free == Lifecycle!JobIds \ used
<1>1. free \in SUBSET Nat
  BY DEF Lifecycle!JobIds
<1>2. free # {}
  <2>1. IsFiniteSet(Lifecycle!RunIds) /\ Cardinality(Lifecycle!RunIds) = MaxStarted
    BY FS_Interval DEF Lifecycle!RunIds, LifecycleBounds
  <2>2. IsFiniteSet(Lifecycle!JobIds) /\ Cardinality(Lifecycle!JobIds) = MaxStarted + 2
    BY FS_Interval DEF Lifecycle!JobIds, LifecycleBounds
  <2>3. IsFiniteSet(awaited) /\ Cardinality(awaited) <= MaxStarted
    <3> DEFINE f == [i \in 1 .. MaxStarted |-> pushing[i].job]
    <3>1. f \in Surjection(1 .. MaxStarted, awaited)
      BY DEF Surjection, Lifecycle!RunIds
    <3> HIDE DEF f, awaited
    <3>2. IsFiniteSet(1 .. MaxStarted) /\ Cardinality(1 .. MaxStarted) = MaxStarted
      BY <2>1 DEF Lifecycle!RunIds
    <3> QED BY <3>1, <3>2, FS_Surjection
  <2>4. \E other : used \subseteq awaited \union {other}
    OBVIOUS
  <2>5. PICK other : used \subseteq awaited \union {other}
    BY <2>4
  <2> HIDE DEF used, awaited
  <2>6. IsFiniteSet(awaited \union {other}) /\ Cardinality(awaited \union {other}) <= MaxStarted + 1
    <3>1. /\ IsFiniteSet(awaited \union {other})
          /\ Cardinality(awaited \union {other})
                = IF other \in awaited THEN Cardinality(awaited) ELSE Cardinality(awaited) + 1
      BY <2>3, FS_AddElement
    <3>2. Cardinality(awaited) \in Nat
      BY <2>3, FS_CardinalityType
    <3> QED BY <2>3, <3>1, <3>2 DEF LifecycleBounds
  <2>7. ~(Lifecycle!JobIds \subseteq awaited \union {other})
    <3> SUFFICES ASSUME Lifecycle!JobIds \subseteq awaited \union {other} PROVE FALSE
      OBVIOUS
    <3>1. Cardinality(Lifecycle!JobIds) <= Cardinality(awaited \union {other})
      BY <2>6, FS_Subset
    <3>2. Cardinality(awaited \union {other}) \in Nat
      BY <2>6, FS_CardinalityType
    <3> QED BY <2>2, <2>6, <3>1, <3>2 DEF LifecycleBounds
  <2> QED BY <2>5, <2>7
<1>3. \E x \in free : \A y \in free : x <= y
  BY <1>1, <1>2, Least
<1>4. Lifecycle!Min(free) \in free
  BY <1>3 DEF Lifecycle!Min
<1>5. Lifecycle!NewJob = [id |-> Lifecycle!Min(free), running |-> TRUE, success |-> FALSE]
  BY DEF Lifecycle!NewJob
<1> QED BY <1>4, <1>5 DEF Lifecycle!Job

\* A new run is put before the others, of which only the newest are kept.
LEMMA NewRunIs ==
    ASSUME LifecycleBounds, LifecycleInv, NEW run1 \in Lifecycle!Run,
           shown' = Lifecycle!First(<<run1>> \o shown, MaxRuns)
    PROVE  /\ shown' \in Seq(Lifecycle!Run) /\ Len(shown') <= MaxRuns
           /\ \A i \in 1 .. Len(shown') :
                 \/ i = 1 /\ shown'[i] = run1
                 \/ i - 1 \in 1 .. Len(shown) /\ shown'[i] = shown[i - 1]
<1> DEFINE entries == <<run1>> \o shown
           n == IF Len(entries) < MaxRuns THEN Len(entries) ELSE MaxRuns
<1>0. shown \in Seq(Lifecycle!Run)
  BY DEF LifecycleInv, Lifecycle!TypeOK
<1>1. entries \in Seq(Lifecycle!Run) /\ Len(entries) = Len(shown) + 1
  BY <1>0
<1>2. \A i \in 1 .. Len(entries) : entries[i] = IF i = 1 THEN run1 ELSE shown[i - 1]
  BY <1>0
<1>3. shown' = SubSeq(entries, 1, n)
  BY DEF Lifecycle!First
<1>4. n \in Nat /\ n <= MaxRuns /\ n <= Len(entries)
  BY <1>1 DEF LifecycleBounds
<1> HIDE DEF entries, n
<1>5. /\ SubSeq(entries, 1, n) \in Seq(Lifecycle!Run) /\ Len(SubSeq(entries, 1, n)) = n
      /\ \A i \in 1 .. n : SubSeq(entries, 1, n)[i] = entries[i]
  BY <1>1, <1>4
<1>6. Len(shown) \in Nat
  BY <1>0
<1>7. ASSUME NEW i \in 1 .. n
      PROVE  \/ i = 1 /\ shown'[i] = run1
             \/ i - 1 \in 1 .. Len(shown) /\ shown'[i] = shown[i - 1]
  <2>1. i \in 1 .. Len(entries) /\ i <= Len(shown) + 1
    BY <1>1, <1>4
  <2>2. shown'[i] = entries[i]
    BY <1>3, <1>5
  <2>3. i # 1 => i - 1 \in 1 .. Len(shown)
    BY <1>6, <2>1
  <2> QED BY <1>2, <2>1, <2>2, <2>3
<1> QED BY <1>3, <1>4, <1>5, <1>7

\* What a start of a run of any kind keeps.
LEMMA StartRunStep ==
    ASSUME LifecycleBounds, LifecycleInv, NEW kind \in {"joiner", "mover", "leaver"},
           NEW user \in Users \union {NewUser}, NEW step \in [Lifecycle!Steps -> Lifecycle!Status],
           NEW wanted \in BOOLEAN,
           Lifecycle!StartLifecycleRun(kind, user, step, wanted),
           step["user"] # "ok", step["group"] # "ok",
           kind = "joiner" /\ step["group"] = "running" => step["user"] = "running",
           settings' = settings, member' \in [Users -> BOOLEAN]
    PROVE  LifecycleInv'
<1> DEFINE id == started + 1
           queue == Lifecycle!PushIf(step, "user") \o Lifecycle!PushIf(step, "group")
           run1 == [id |-> id, kind |-> kind, user |-> user, step |-> step, wanted |-> wanted]
<1>0. /\ started \in 0 .. MaxStarted /\ started < MaxStarted /\ MaxStarted \in Nat
      /\ pushing \in [Lifecycle!RunIds -> Lifecycle!Pushing]
  BY DEF LifecycleInv, Lifecycle!TypeOK, Lifecycle!StartLifecycleRun, LifecycleBounds
<1>1. id \in Lifecycle!RunIds /\ started' = id /\ id \in 0 .. MaxStarted /\ id > started
  BY <1>0 DEF Lifecycle!RunIds, Lifecycle!StartLifecycleRun
<1>2. /\ shown' = Lifecycle!First(<<run1>> \o shown, MaxRuns)
      /\ pushing' = [pushing EXCEPT ![id].queue = queue]
      /\ tokenSent' = [tokenSent EXCEPT ![id] = IF step["token"] = "running" THEN "pending" ELSE "no"]
      /\ UNCHANGED <<job, issuing, succeeded>>
  BY DEF Lifecycle!StartLifecycleRun
<1>3. /\ queue \in Queues
      /\ queue # <<>> /\ Head(queue) # "user" => step["user"] # "running" /\ step["group"] = "running"
  <2>1. /\ <<>> \o <<>> = <<>> /\ <<"user">> \o <<>> = <<"user">>
        /\ <<>> \o <<"group">> = <<"group">> /\ <<"user">> \o <<"group">> = <<"user", "group">>
    <3>1. <<>> \o <<>> = <<>>
      OBVIOUS
    <3>2. <<"user">> \o <<>> = <<"user">>
      OBVIOUS
    <3>3. <<>> \o <<"group">> = <<"group">>
      OBVIOUS
    <3>4. <<"user">> \o <<"group">> = <<"user", "group">>
      <4> DEFINE both == <<"user">> \o <<"group">>
      <4>1. <<"user">> \in Seq({"user", "group"}) /\ <<"group">> \in Seq({"user", "group"})
        OBVIOUS
      <4>2. both \in Seq({"user", "group"}) /\ Len(both) = 2 /\ both[1] = "user" /\ both[2] = "group"
        BY <4>1
      <4>3. <<"user", "group">> \in Seq({"user", "group"}) /\ Len(<<"user", "group">>) = 2
        OBVIOUS
      <4> HIDE DEF both
      <4>4. both = [i \in 1 .. 2 |-> both[i]]
        BY <4>2
      <4>5. <<"user", "group">> = [i \in 1 .. 2 |-> <<"user", "group">>[i]]
        BY <4>3
      <4>6. \A i \in 1 .. 2 : both[i] = <<"user", "group">>[i]
        BY <4>2
      <4>7. both = <<"user", "group">>
        BY <4>4, <4>5, <4>6
      <4> QED BY <4>7 DEF both
    <3> QED BY <3>1, <3>2, <3>3, <3>4
  <2>2. Head(<<"user">>) = "user" /\ Head(<<"user", "group">>) = "user"
    OBVIOUS
  <2>3. CASE step["user"] = "running" /\ step["group"] = "running"
    BY <2>1, <2>2, <2>3 DEF Queues, Lifecycle!PushIf
  <2>4. CASE step["user"] = "running" /\ step["group"] # "running"
    BY <2>1, <2>2, <2>4 DEF Queues, Lifecycle!PushIf
  <2>5. CASE step["user"] # "running" /\ step["group"] = "running"
    BY <2>1, <2>5 DEF Queues, Lifecycle!PushIf
  <2>6. CASE step["user"] # "running" /\ step["group"] # "running"
    BY <2>1, <2>6 DEF Queues, Lifecycle!PushIf
  <2> QED BY <2>3, <2>4, <2>5, <2>6
<1>4. pushing[id] = Lifecycle!NoPush /\ (\A s \in Lifecycle!Pushes : <<id, s>> \notin succeeded)
  BY <1>1 DEF LifecycleInv, OnlyStartedRun
<1>5. run1 \in Lifecycle!Run
  BY <1>1 DEF Lifecycle!Run
<1>s. \A i \in 1 .. Len(shown) :
         shown[i].id \in Lifecycle!RunIds /\ shown[i].id \in Nat /\ shown[i].id <= started
  <2>1. shown \in Seq(Lifecycle!Run)
    BY DEF LifecycleInv, Lifecycle!TypeOK
  <2>2. \A i \in 1 .. Len(shown) : shown[i] \in Lifecycle!Run
    BY <2>1
  <2> QED BY <2>2 DEF LifecycleInv, OnlyStartedRun, Lifecycle!Run, Lifecycle!RunIds
<1> HIDE DEF queue, id, run1
<1>6. /\ shown' \in Seq(Lifecycle!Run) /\ Len(shown') <= MaxRuns
      /\ \A i \in 1 .. Len(shown') :
            \/ i = 1 /\ shown'[i] = run1
            \/ i - 1 \in 1 .. Len(shown) /\ shown'[i] = shown[i - 1]
  BY <1>2, <1>5, NewRunIs
<1>7. /\ pushing' \in [Lifecycle!RunIds -> Lifecycle!Pushing]
      /\ \A k \in Lifecycle!RunIds : k # id => pushing'[k] = pushing[k]
      /\ pushing'[id].queue = queue /\ pushing'[id].failed = {} /\ pushing'[id].job = NoJob
  <2>1. queue \in Seq(Lifecycle!Pushes)
    BY <1>3, QueueFacts
  <2>2. pushing' = [pushing EXCEPT ![id] = [pushing[id] EXCEPT !.queue = queue]]
    BY <1>2
  <2>3. [pushing[id] EXCEPT !.queue = queue] \in Lifecycle!Pushing
    BY <1>0, <1>1, <2>1 DEF Lifecycle!Pushing
  <2>4. pushing'[id] = [pushing[id] EXCEPT !.queue = queue]
    BY <1>0, <1>1, <2>2
  <2> QED BY <1>0, <1>1, <1>4, <2>2, <2>3, <2>4 DEF Lifecycle!NoPush
<1>8. Lifecycle!TypeOK'
  <2>1. tokenSent' \in [Lifecycle!RunIds -> {"no", "pending"} \union Lifecycle!Outcome]
    BY <1>1, <1>2 DEF LifecycleInv, Lifecycle!TypeOK
  <2> QED BY <1>1, <1>2, <1>6, <1>7, <2>1 DEF LifecycleInv, Lifecycle!TypeOK
<1>9. OnlyStartedRun'
  <2>1. \A i \in 1 .. Len(shown') : shown'[i].id <= started'
    <3>1. run1.id = id
      BY DEF run1
    <3> SUFFICES ASSUME NEW i \in 1 .. Len(shown') PROVE shown'[i].id <= started'
      OBVIOUS
    <3>2. CASE i = 1 /\ shown'[i] = run1
      BY <1>1, <3>1, <3>2
    <3>3. CASE i - 1 \in 1 .. Len(shown) /\ shown'[i] = shown[i - 1]
      BY <1>0, <1>1, <1>s, <3>3
    <3> QED BY <1>6, <3>2, <3>3
  <2>2. \A k \in Lifecycle!RunIds : k > started' => k > started /\ k # id
    BY <1>0, <1>1 DEF Lifecycle!RunIds
  <2> QED BY <1>2, <1>7, <2>1, <2>2 DEF LifecycleInv, OnlyStartedRun
<1>10. PushesInOrder'
  BY <1>2, <1>3, <1>4, <1>7 DEF LifecycleInv, PushesInOrder, UserFirst, Lifecycle!Pushes
<1>11. JobsAreTold'
  <2>1. job # NoJob => job.id # NoJob
    BY DEF LifecycleInv, Lifecycle!TypeOK, Lifecycle!Job, LifecycleBounds, Lifecycle!JobIds
  <2> QED BY <1>2, <1>7, <2>1 DEF LifecycleInv, JobsAreTold
<1>12. JoinersInOrder' /\ Lifecycle!PushesTellTheTruth'
  <2> SUFFICES ASSUME NEW i \in 1 .. Len(shown')
               PROVE  /\ shown'[i].kind = "joiner" =>
                            LET k == shown'[i].id
                            IN  ~UserFirst(pushing'[k]) /\ pushing'[k].queue # <<>>
                                /\ "user" \notin pushing'[k].failed
                                   => shown'[i].step["user"] = "ok"
                      /\ \A s \in Lifecycle!Pushes : shown'[i].step[s] = "ok"
                                                      => <<shown'[i].id, s>> \in succeeded
                      /\ (shown'[i].kind = "joiner" /\ <<shown'[i].id, "group">> \in succeeded)
                            => shown'[i].step["user"] = "ok"
    BY <1>2 DEF JoinersInOrder, Lifecycle!PushesTellTheTruth
  <2>1. CASE i = 1 /\ shown'[i] = run1
    <3>1. shown'[i].id = id /\ shown'[i].kind = kind /\ shown'[i].step = step
      BY <2>1 DEF run1
    <3> QED BY <1>3, <1>4, <1>7, <3>1 DEF Lifecycle!Pushes, UserFirst
  <2>2. CASE i - 1 \in 1 .. Len(shown) /\ shown'[i] = shown[i - 1]
    <3>1. shown[i - 1].id # id /\ shown[i - 1].id \in Lifecycle!RunIds
      BY <1>0, <1>1, <1>s, <2>2
    <3> QED BY <1>7, <2>2, <3>1 DEF LifecycleInv, JoinersInOrder, Lifecycle!PushesTellTheTruth
  <2> QED BY <1>6, <2>1, <2>2
<1> QED BY <1>8, <1>9, <1>10, <1>11, <1>12 DEF LifecycleInv

\* The runs and the goroutines as the invariant has them.
LEMMA LifecycleTypes ==
    ASSUME LifecycleInv
    PROVE  /\ shown \in Seq(Lifecycle!Run) /\ Len(shown) \in Nat
           /\ \A i \in 1 .. Len(shown) :
                 /\ shown[i] \in Lifecycle!Run /\ shown[i].id \in Lifecycle!RunIds
                 /\ shown[i].step \in [Lifecycle!Steps -> Lifecycle!Status]
                 /\ shown[i].id \in Nat /\ shown[i].id <= started
           /\ pushing \in [Lifecycle!RunIds -> Lifecycle!Pushing]
           /\ Lifecycle!RunIds \subseteq Nat
           /\ started \in Nat
<1>1. shown \in Seq(Lifecycle!Run)
  BY DEF LifecycleInv, Lifecycle!TypeOK
<1>2. \A i \in 1 .. Len(shown) : shown[i] \in Lifecycle!Run
  BY <1>1
<1>3. \A i \in 1 .. Len(shown) :
         /\ shown[i].id \in Lifecycle!RunIds
         /\ shown[i].step \in [Lifecycle!Steps -> Lifecycle!Status]
         /\ shown[i].id <= started
  BY <1>2 DEF Lifecycle!Run, LifecycleInv, OnlyStartedRun
<1> QED BY <1>1, <1>2, <1>3 DEF LifecycleInv, Lifecycle!TypeOK, Lifecycle!RunIds

\* The end of a push, of which `succeeded' tells if its job did.
LEMMA PushEndsStep ==
    ASSUME LifecycleBounds, LifecycleInv, NEW id \in Lifecycle!RunIds,
           NEW status \in {"ok", "failed", "skipped"},
           pushing[id].queue # <<>>, Lifecycle!PushEnds(id, status),
           UNCHANGED <<settings, job, tokenSent, member, issuing, started, succeeded>>,
           status = "ok" => <<id, Head(pushing[id].queue)>> \in succeeded,
           status = "skipped" => Head(pushing[id].queue) = "group"
    PROVE  LifecycleInv'
<1> DEFINE q == pushing[id].queue
           s == Head(q)
<1>0. q \in Queues /\ s \in Lifecycle!Pushes /\ s \in Lifecycle!Steps /\ Tail(q) \in Queues
      /\ (Tail(q) # <<>> => s = "user" /\ Head(Tail(q)) = "group")
  BY QueueFacts DEF LifecycleInv, PushesInOrder, Lifecycle!Pushes, Lifecycle!Steps
<1>1. /\ Len(shown') = Len(shown) /\ shown' \in Seq(Lifecycle!Run)
      /\ \A i \in 1 .. Len(shown) :
            /\ shown'[i].id = shown[i].id /\ shown'[i].kind = shown[i].kind
            /\ \A t \in Lifecycle!Steps :
                  shown'[i].step[t] = IF shown[i].id = id /\ t = s THEN status ELSE shown[i].step[t]
  <2> DEFINE e(i) == IF shown[i].id = id
                     THEN [shown[i] EXCEPT !.step = [shown[i].step EXCEPT ![s] = status]]
                     ELSE shown[i]
  <2>1. shown' = [i \in 1 .. Len(shown) |-> e(i)]
    BY DEF Lifecycle!PushEnds, Lifecycle!WithStep
  <2>2. ASSUME NEW i \in 1 .. Len(shown)
        PROVE  /\ e(i) \in Lifecycle!Run
               /\ e(i).id = shown[i].id /\ e(i).kind = shown[i].kind
               /\ \A t \in Lifecycle!Steps :
                     e(i).step[t] = IF shown[i].id = id /\ t = s THEN status ELSE shown[i].step[t]
    <3>1. shown[i] \in Lifecycle!Run /\ shown[i].step \in [Lifecycle!Steps -> Lifecycle!Status]
      BY LifecycleTypes
    <3>2. status \in Lifecycle!Status
      BY DEF Lifecycle!Status
    <3>3. [shown[i].step EXCEPT ![s] = status] \in [Lifecycle!Steps -> Lifecycle!Status]
      BY <3>1, <3>2
    <3> HIDE DEF s
    <3> QED BY <1>0, <3>1, <3>3 DEF Lifecycle!Run
  <2> HIDE DEF e
  <2> QED BY <2>1, <2>2, LifecycleTypes
<1>2. /\ pushing' \in [Lifecycle!RunIds -> Lifecycle!Pushing]
      /\ \A k \in Lifecycle!RunIds : k # id => pushing'[k] = pushing[k]
      /\ pushing'[id].queue = Tail(q) /\ pushing'[id].job = NoJob
      /\ pushing'[id].failed = pushing[id].failed \union (IF status = "failed" THEN {s} ELSE {})
  <2> DEFINE new == [queue |-> Tail(q), job |-> NoJob,
                     failed |-> pushing[id].failed \union (IF status = "failed" THEN {s} ELSE {})]
  <2>1. pushing' = [pushing EXCEPT ![id] = new]
    BY DEF Lifecycle!PushEnds
  <2>2. new \in Lifecycle!Pushing
    <3>1. Tail(q) \in Seq(Lifecycle!Pushes)
      BY <1>0, QueueFacts
    <3>2. pushing[id].failed \subseteq Lifecycle!Pushes
      BY LifecycleTypes DEF Lifecycle!Pushing
    <3> HIDE DEF q, s
    <3> QED BY <1>0, <3>1, <3>2 DEF Lifecycle!Pushing
  <2> HIDE DEF q, s
  <2>3. pushing' \in [Lifecycle!RunIds -> Lifecycle!Pushing] /\ pushing'[id] = new
        /\ \A k \in Lifecycle!RunIds : k # id => pushing'[k] = pushing[k]
    BY <2>1, <2>2, LifecycleTypes
  <2> QED BY <2>3
<1>3. id <= started
  BY DEF LifecycleInv, OnlyStartedRun, Lifecycle!NoPush, Lifecycle!TypeOK, Lifecycle!RunIds
<1>a. s = "user" \/ s = "group"
  BY <1>0 DEF Lifecycle!Pushes
<1>b. UserFirst(pushing[id]) <=> s = "user"
  BY DEF UserFirst
<1>c. \A k \in Lifecycle!RunIds : UserFirst(pushing'[k]) => k # id /\ UserFirst(pushing[k])
  BY <1>0, <1>2 DEF UserFirst
<1> HIDE DEF q, s
<1>4. Lifecycle!TypeOK'
  BY <1>1, <1>2 DEF LifecycleInv, Lifecycle!TypeOK
<1>5. OnlyStartedRun'
  <2>1. \A k \in Lifecycle!RunIds : k > started => k # id
    BY <1>3, LifecycleTypes
  <2> QED BY <1>1, <1>2, <2>1 DEF LifecycleInv, OnlyStartedRun
<1>6. PushesInOrder'
  BY <1>0, <1>2, <1>c DEF LifecycleInv, PushesInOrder
<1>7. JobsAreTold'
  <2>1. job # NoJob => job.id # NoJob
    BY DEF LifecycleInv, Lifecycle!TypeOK, Lifecycle!Job, LifecycleBounds, Lifecycle!JobIds
  <2> QED BY <1>2, <2>1 DEF LifecycleInv, JobsAreTold
<1>8. ASSUME NEW i \in 1 .. Len(shown), shown[i].kind = "joiner",
             ~UserFirst(pushing'[shown[i].id]), pushing'[shown[i].id].queue # <<>>,
             "user" \notin pushing'[shown[i].id].failed
      PROVE  shown'[i].step["user"] = "ok"
  <2>1. CASE shown[i].id = id
    BY <1>0, <1>1, <1>2, <1>8, <2>1 DEF Lifecycle!Steps
  <2>2. CASE shown[i].id # id
    BY <1>1, <1>2, <1>8, <2>2, LifecycleTypes DEF LifecycleInv, JoinersInOrder, Lifecycle!Steps
  <2> QED BY <2>1, <2>2
<1>9. JoinersInOrder'
  BY <1>1, <1>8 DEF JoinersInOrder
<1>10. Lifecycle!PushesTellTheTruth'
  <2> SUFFICES ASSUME NEW i \in 1 .. Len(shown)
               PROVE  /\ \A t \in Lifecycle!Pushes :
                            shown'[i].step[t] = "ok" => <<shown[i].id, t>> \in succeeded
                      /\ (shown[i].kind = "joiner" /\ <<shown[i].id, "group">> \in succeeded)
                            => shown'[i].step["user"] = "ok"
    BY <1>1 DEF Lifecycle!PushesTellTheTruth
  <2>1. \A t \in Lifecycle!Pushes : t \in Lifecycle!Steps /\ "user" \in Lifecycle!Steps
    BY DEF Lifecycle!Pushes, Lifecycle!Steps
  <2>2. ASSUME NEW t \in Lifecycle!Pushes, shown'[i].step[t] = "ok"
        PROVE  <<shown[i].id, t>> \in succeeded
    BY <1>1, <2>1, <2>2 DEF LifecycleInv, Lifecycle!PushesTellTheTruth, q, s
  <2>3. ASSUME shown[i].kind = "joiner", <<shown[i].id, "group">> \in succeeded
        PROVE  shown'[i].step["user"] = "ok"
    <3>1. shown[i].id = id => s = "group"
      BY <1>a, <1>b, <2>3 DEF LifecycleInv, PushesInOrder
    <3>2. shown[i].step["user"] = "ok"
      BY <2>3 DEF LifecycleInv, Lifecycle!PushesTellTheTruth
    <3>3. shown'[i].step["user"] = shown[i].step["user"]
      <4>1. "user" \in Lifecycle!Steps
        BY DEF Lifecycle!Steps
      <4> QED BY <1>1, <3>1, <4>1
    <3> QED BY <3>2, <3>3
  <2> QED BY <2>2, <2>3
<1> QED BY <1>4, <1>5, <1>6, <1>7, <1>9, <1>10 DEF LifecycleInv

\* A step that changes no push and no step of one.
LEMMA QuietRunStep ==
    ASSUME LifecycleInv, Lifecycle!TypeOK', UNCHANGED <<pushing, job, started, succeeded>>,
           Len(shown') = Len(shown),
           \A i \in 1 .. Len(shown) :
              /\ shown'[i].id = shown[i].id /\ shown'[i].kind = shown[i].kind
              /\ \A t \in Lifecycle!Pushes : shown'[i].step[t] = shown[i].step[t]
    PROVE  LifecycleInv'
<1>1. OnlyStartedRun'
  BY DEF LifecycleInv, OnlyStartedRun
<1>2. PushesInOrder' /\ JobsAreTold'
  BY DEF LifecycleInv, PushesInOrder, JobsAreTold
<1>3. JoinersInOrder' /\ Lifecycle!PushesTellTheTruth'
  BY DEF LifecycleInv, JoinersInOrder, Lifecycle!PushesTellTheTruth, Lifecycle!Pushes
<1> QED BY <1>1, <1>2, <1>3 DEF LifecycleInv

\* A new job, for a push of a run or for somebody else.
LEMMA NewJobStep ==
    ASSUME LifecycleBounds, LifecycleInv, job' = Lifecycle!NewJob,
           UNCHANGED <<settings, shown, tokenSent, member, issuing, started, succeeded>>,
           \/ UNCHANGED pushing
           \/ \E id \in Lifecycle!RunIds :
                 /\ pushing[id].queue # <<>>
                 /\ Head(pushing[id].queue) = "group" => "user" \notin pushing[id].failed
                 /\ pushing' = [pushing EXCEPT ![id].job = Lifecycle!NewJob.id]
    PROVE  LifecycleInv'
<1> DEFINE new == Lifecycle!NewJob
<1>1. /\ new \in Lifecycle!Job /\ new.running /\ new.id \in Lifecycle!JobIds /\ new # NoJob
      /\ \A id \in Lifecycle!RunIds : pushing[id].job # new.id
  BY NewJobIs DEF LifecycleBounds
<1>2. new.id # NoJob
  BY <1>1 DEF LifecycleBounds, Lifecycle!JobIds
<1> HIDE DEF new
<1>3. /\ pushing' \in [Lifecycle!RunIds -> Lifecycle!Pushing]
      /\ \A id \in Lifecycle!RunIds :
            /\ pushing'[id].queue = pushing[id].queue /\ pushing'[id].failed = pushing[id].failed
            /\ \/ pushing'[id] = pushing[id]
               \/ /\ pushing[id].queue # <<>>
                  /\ Head(pushing[id].queue) = "group" => "user" \notin pushing[id].failed
  <2>1. CASE UNCHANGED pushing
    BY <2>1, LifecycleTypes
  <2>2. CASE \E id \in Lifecycle!RunIds :
                /\ pushing[id].queue # <<>>
                /\ Head(pushing[id].queue) = "group" => "user" \notin pushing[id].failed
                /\ pushing' = [pushing EXCEPT ![id].job = Lifecycle!NewJob.id]
    <3>1. PICK id \in Lifecycle!RunIds :
                /\ pushing[id].queue # <<>>
                /\ Head(pushing[id].queue) = "group" => "user" \notin pushing[id].failed
                /\ pushing' = [pushing EXCEPT ![id] = [pushing[id] EXCEPT !.job = new.id]]
      BY <2>2 DEF new
    <3>2. [pushing[id] EXCEPT !.job = new.id] \in Lifecycle!Pushing
          /\ [pushing[id] EXCEPT !.job = new.id].queue = pushing[id].queue
          /\ [pushing[id] EXCEPT !.job = new.id].failed = pushing[id].failed
      <4>1. pushing[id] \in Lifecycle!Pushing /\ new.id \in Lifecycle!JobIds
        BY <1>1, LifecycleTypes
      <4> QED BY <4>1 DEF Lifecycle!Pushing
    <3> QED BY <3>1, <3>2, LifecycleTypes
  <2> QED BY <2>1, <2>2
<1>4. Lifecycle!TypeOK'
  BY <1>1, <1>3 DEF LifecycleInv, Lifecycle!TypeOK, new
<1>5. OnlyStartedRun'
  <2>1. \A id \in Lifecycle!RunIds : pushing[id].queue # <<>> => pushing[id] # Lifecycle!NoPush
    BY DEF Lifecycle!NoPush
  <2> QED BY <1>3, <2>1 DEF LifecycleInv, OnlyStartedRun
<1>6. PushesInOrder'
  <2>1. job' # NoJob
    BY <1>1 DEF new
  <2> QED BY <1>3, <2>1 DEF LifecycleInv, PushesInOrder, UserFirst
<1>7. JobsAreTold'
  BY <1>1 DEF JobsAreTold, new
<1>8. JoinersInOrder'
  BY <1>3, LifecycleTypes DEF LifecycleInv, JoinersInOrder, UserFirst
<1>9. Lifecycle!PushesTellTheTruth'
  BY DEF LifecycleInv, Lifecycle!PushesTellTheTruth
<1> QED BY <1>4, <1>5, <1>6, <1>7, <1>8, <1>9 DEF LifecycleInv

\* The end of a job, which the goroutine that waits for it will see.
LEMMA FinishJobStep ==
    ASSUME LifecycleBounds, LifecycleInv, NEW success \in BOOLEAN,
           Lifecycle!FinishSyncJob(success), UNCHANGED settings
    PROVE  LifecycleInv'
<1>1. /\ job # NoJob /\ job.running
      /\ job' = [job EXCEPT !.running = FALSE, !.success = success]
      /\ UNCHANGED <<shown, pushing, tokenSent, member, issuing, started>>
  BY DEF Lifecycle!FinishSyncJob
<1>2. succeeded' = succeeded \union
         {<<id, Head(pushing[id].queue)>> :
             id \in {k \in Lifecycle!RunIds : success /\ pushing[k].job = job.id}}
  BY DEF Lifecycle!FinishSyncJob
<1>3. job \in Lifecycle!Job /\ job' \in Lifecycle!Job /\ job'.id = job.id /\ job'.success = success
      /\ job.id # NoJob /\ job' # NoJob
  <2>1. job \in Lifecycle!Job
    BY <1>1 DEF LifecycleInv, Lifecycle!TypeOK
  <2>2. job' \in Lifecycle!Job /\ job'.id = job.id /\ job'.success = success
    BY <1>1, <2>1 DEF Lifecycle!Job
  <2>3. job.id # NoJob
    BY <2>1 DEF Lifecycle!Job, LifecycleBounds, Lifecycle!JobIds
  <2> QED BY <2>1, <2>2, <2>3 DEF LifecycleBounds
<1>4. ASSUME NEW x \in succeeded'
      PROVE  \/ x \in succeeded
             \/ \E id \in Lifecycle!RunIds :
                   /\ x = <<id, Head(pushing[id].queue)>>
                   /\ success /\ pushing[id].job = job.id
  BY <1>2
<1>a. \A id \in Lifecycle!RunIds : pushing[id].job = job.id =>
         /\ pushing[id].queue \in Queues /\ pushing[id].queue # <<>> /\ id <= started
         /\ Head(pushing[id].queue) \in Lifecycle!Pushes
         /\ Head(pushing[id].queue) = "group" => "user" \notin pushing[id].failed
         /\ Head(pushing[id].queue) = "group" => ~UserFirst(pushing[id])
  <2> TAKE id \in Lifecycle!RunIds
  <2> HAVE pushing[id].job = job.id
  <2>1. /\ pushing[id].queue \in Queues /\ pushing[id].queue # <<>>
        /\ Head(pushing[id].queue) = "group" => "user" \notin pushing[id].failed
    BY <1>3 DEF LifecycleInv, PushesInOrder
  <2>2. pushing[id] # Lifecycle!NoPush
    BY <2>1 DEF Lifecycle!NoPush
  <2>3. id <= started
    BY <2>2, LifecycleTypes DEF LifecycleInv, OnlyStartedRun
  <2> QED BY <2>1, <2>3, QueueFacts DEF UserFirst
<1>5. Lifecycle!TypeOK'
  <2>1. succeeded' \subseteq Lifecycle!RunIds \X Lifecycle!Pushes
    BY <1>4, <1>a DEF LifecycleInv, Lifecycle!TypeOK
  <2> QED BY <1>1, <1>3, <2>1 DEF LifecycleInv, Lifecycle!TypeOK
<1>6. OnlyStartedRun'
  <2> SUFFICES ASSUME NEW id \in Lifecycle!RunIds, id > started, NEW s \in Lifecycle!Pushes
               PROVE  <<id, s>> \notin succeeded'
    BY <1>1 DEF LifecycleInv, OnlyStartedRun
  <2>1. \A k \in Lifecycle!RunIds : pushing[k].job = job.id => k # id
    BY <1>a, LifecycleTypes
  <2> QED BY <1>4, <2>1 DEF LifecycleInv, OnlyStartedRun
<1>7. PushesInOrder'
  <2>1. ASSUME NEW id \in Lifecycle!RunIds, <<id, "group">> \in succeeded'
        PROVE  ~UserFirst(pushing[id])
    BY <1>4, <1>a, <2>1 DEF LifecycleInv, PushesInOrder
  <2> QED BY <1>1, <1>3, <2>1 DEF LifecycleInv, PushesInOrder
<1>8. JobsAreTold'
  BY <1>1, <1>2, <1>3 DEF JobsAreTold
<1>9. JoinersInOrder'
  BY <1>1 DEF LifecycleInv, JoinersInOrder
<1>10. Lifecycle!PushesTellTheTruth'
  <2> SUFFICES ASSUME NEW i \in 1 .. Len(shown)
               PROVE  /\ \A t \in Lifecycle!Pushes :
                            shown[i].step[t] = "ok" => <<shown[i].id, t>> \in succeeded'
                      /\ (shown[i].kind = "joiner" /\ <<shown[i].id, "group">> \in succeeded')
                            => shown[i].step["user"] = "ok"
    BY <1>1 DEF Lifecycle!PushesTellTheTruth
  <2>1. ASSUME NEW t \in Lifecycle!Pushes, shown[i].step[t] = "ok"
        PROVE  <<shown[i].id, t>> \in succeeded'
    BY <1>2, <2>1 DEF LifecycleInv, Lifecycle!PushesTellTheTruth
  <2>2. ASSUME shown[i].kind = "joiner", <<shown[i].id, "group">> \in succeeded'
        PROVE  shown[i].step["user"] = "ok"
    <3>1. CASE <<shown[i].id, "group">> \in succeeded
      BY <2>2, <3>1 DEF LifecycleInv, Lifecycle!PushesTellTheTruth
    <3>2. CASE <<shown[i].id, "group">> \notin succeeded
      <4>1. /\ pushing[shown[i].id].job = job.id /\ Head(pushing[shown[i].id].queue) = "group"
            /\ shown[i].id \in Lifecycle!RunIds
        BY <1>4, <2>2, <3>2
      <4> QED BY <1>a, <2>2, <4>1 DEF LifecycleInv, JoinersInOrder
    <3> QED BY <3>1, <3>2
  <2> QED BY <2>1, <2>2
<1> QED BY <1>5, <1>6, <1>7, <1>8, <1>9, <1>10 DEF LifecycleInv

\* The invariant holds initially ...
LEMMA LifecycleInit == ASSUME LifecycleBounds, Lifecycle!Init PROVE LifecycleInv
<1>1. Lifecycle!NoPush \in Lifecycle!Pushing /\ Lifecycle!NoPush.queue = <<>>
      /\ Lifecycle!NoPush.job = NoJob
  BY DEF Lifecycle!NoPush, Lifecycle!Pushing
<1>2. pushing = [id \in Lifecycle!RunIds |-> Lifecycle!NoPush]
      /\ shown = <<>> /\ job = NoJob /\ succeeded = {} /\ started = 0
  BY DEF Lifecycle!Init
<1>3. Lifecycle!TypeOK
  BY <1>1, <1>2 DEF Lifecycle!Init, Lifecycle!TypeOK, LifecycleBounds
<1>4. PushesInOrder
  BY <1>1, <1>2 DEF PushesInOrder, Queues
<1> QED BY <1>2, <1>3, <1>4 DEF LifecycleInv, OnlyStartedRun, JobsAreTold, JoinersInOrder,
           Lifecycle!PushesTellTheTruth

\* ... and is preserved by what a goroutine does for its run,
LEMMA PushStepStep ==
    ASSUME LifecycleBounds, LifecycleInv, NEW id \in Lifecycle!RunIds,
           Lifecycle!PushStep(id), UNCHANGED settings
    PROVE  LifecycleInv'
<1>0. UNCHANGED <<tokenSent, member, issuing, started, succeeded>>
  BY DEF Lifecycle!PushStep
<1>1. CASE Lifecycle!SkipPush(id)
  BY <1>0, <1>1, PushEndsStep DEF Lifecycle!SkipPush, Lifecycle!AboutToPush, Lifecycle!Depends
<1>2. CASE Lifecycle!RefusePush(id)
  BY <1>0, <1>2, PushEndsStep DEF Lifecycle!RefusePush, Lifecycle!AboutToPush
<1>3. CASE Lifecycle!StartPush(id)
  <2>1. Head(pushing[id].queue) = "group" => "user" \notin pushing[id].failed
    BY <1>3 DEF Lifecycle!StartPush, Lifecycle!Depends
  <2> QED BY <1>0, <1>3, <2>1, NewJobStep DEF Lifecycle!StartPush, Lifecycle!AboutToPush
<1>4. CASE Lifecycle!AwaitSyncJob(id) /\ UNCHANGED job
  <2>1. pushing[id].queue # <<>> /\ pushing[id].job # NoJob /\ job # NoJob
    BY <1>4 DEF Lifecycle!AwaitSyncJob, LifecycleInv, PushesInOrder
  <2>2. CASE Lifecycle!PushEnds(id, "failed")
    BY <1>0, <1>4, <2>1, <2>2, PushEndsStep
  <2>3. CASE Lifecycle!PushEnds(id, "ok") /\ job.id = pushing[id].job /\ ~job.running /\ job.success
    <3>1. <<id, Head(pushing[id].queue)>> \in succeeded
      BY <2>1, <2>3 DEF LifecycleInv, JobsAreTold
    <3> QED BY <1>0, <1>4, <2>1, <2>3, <3>1, PushEndsStep
  <2> QED BY <1>4, <2>2, <2>3 DEF Lifecycle!AwaitSyncJob
<1> QED BY <1>1, <1>2, <1>3, <1>4 DEF Lifecycle!PushStep

\* by the start of a run,
LEMMA StartStepOfRuns ==
    ASSUME LifecycleBounds, LifecycleInv, Lifecycle!Start, UNCHANGED settings
    PROVE  LifecycleInv'
<1>0. /\ member \in [Users -> BOOLEAN]
      /\ Lifecycle!ScimStep \in {"running", "skipped"}
      /\ Lifecycle!IdpStep("waiting") \in {"waiting", "skipped"}
      /\ Lifecycle!IdpStep("running") \in {"running", "skipped"}
      /\ Lifecycle!ScimStep = "running" <=> settings.scim
  BY DEF LifecycleInv, Lifecycle!TypeOK, Lifecycle!ScimStep, Lifecycle!IdpStep
<1>a. Lifecycle!Blank \in [Lifecycle!Steps -> Lifecycle!Status]
      /\ \A s \in Lifecycle!Steps : Lifecycle!Blank[s] = "none"
  BY DEF Lifecycle!Blank, Lifecycle!Status
<1>1. ASSUME NEW withGroup \in BOOLEAN, NEW added \in BOOLEAN, Lifecycle!StartJoiner(withGroup, added)
      PROVE  LifecycleInv'
  <2> DEFINE step == [Lifecycle!Blank EXCEPT
                         !["directory"] = IF withGroup /\ ~added THEN "failed" ELSE "ok",
                         !["user"] = Lifecycle!ScimStep,
                         !["group"] = IF added /\ settings.scim THEN "running" ELSE "none"]
  <2>1. Lifecycle!StartLifecycleRun("joiner", NewUser, step, FALSE) /\ member' = member
    BY <1>1 DEF Lifecycle!StartJoiner
  <2>2. /\ step \in [Lifecycle!Steps -> Lifecycle!Status]
        /\ step["user"] = Lifecycle!ScimStep
        /\ step["group"] = IF added /\ settings.scim THEN "running" ELSE "none"
    BY <1>0, <1>a DEF Lifecycle!Steps, Lifecycle!Status
  <2> HIDE DEF step
  <2>3. step["user"] # "ok" /\ step["group"] # "ok"
        /\ (step["group"] = "running" => step["user"] = "running")
    BY <1>0, <2>2
  <2> QED BY <1>0, <2>1, <2>2, <2>3, StartRunStep
<1>2. ASSUME NEW u \in Users, Lifecycle!StartMover(u) PROVE LifecycleInv'
  <2> DEFINE step == [Lifecycle!Blank EXCEPT
                         !["directory"] = "ok", !["group"] = Lifecycle!ScimStep,
                         !["issued"] = Lifecycle!IdpStep("waiting")]
  <2>1. Lifecycle!StartLifecycleRun("mover", u, step, ~member[u])
        /\ member' = [member EXCEPT ![u] = ~@]
    BY <1>2 DEF Lifecycle!StartMover
  <2>2. /\ step \in [Lifecycle!Steps -> Lifecycle!Status]
        /\ step["user"] = "none" /\ step["group"] = Lifecycle!ScimStep
    BY <1>0, <1>a DEF Lifecycle!Steps, Lifecycle!Status
  <2> HIDE DEF step
  <2>3. (~member[u]) \in BOOLEAN /\ member' \in [Users -> BOOLEAN]
    BY <1>0, <2>1
  <2> QED BY <1>0, <2>1, <2>2, <2>3, StartRunStep
<1>3. ASSUME NEW u \in Users, NEW signedIn \in BOOLEAN, Lifecycle!StartLeaver(u, signedIn)
      PROVE  LifecycleInv'
  <2> DEFINE step == [Lifecycle!Blank EXCEPT
                         !["directory"] = "ok", !["user"] = Lifecycle!ScimStep,
                         !["token"] = IF signedIn THEN Lifecycle!IdpStep("running") ELSE "skipped"]
  <2>1. Lifecycle!StartLifecycleRun("leaver", u, step, FALSE) /\ member' = member
    BY <1>3 DEF Lifecycle!StartLeaver
  <2>2. /\ step \in [Lifecycle!Steps -> Lifecycle!Status]
        /\ step["user"] = Lifecycle!ScimStep /\ step["group"] = "none"
    BY <1>0, <1>a DEF Lifecycle!Steps, Lifecycle!Status
  <2> HIDE DEF step
  <2> QED BY <1>0, <2>1, <2>2, StartRunStep
<1> QED BY <1>1, <1>2, <1>3 DEF Lifecycle!Start

\* and by every step.
LEMMA LifecycleStep ==
    ASSUME LifecycleBounds, LifecycleInv, [Lifecycle!Next]_Lifecycle!vars PROVE LifecycleInv'
<1>0. Lifecycle!TypeOK
  BY DEF LifecycleInv
<1>1. CASE Lifecycle!Start /\ UNCHANGED settings
  BY <1>1, StartStepOfRuns
<1>2. ASSUME NEW id \in Lifecycle!RunIds, Lifecycle!PushStep(id), UNCHANGED settings
      PROVE  LifecycleInv'
  BY <1>2, PushStepStep
<1>3. ASSUME NEW id \in Lifecycle!RunIds, NEW outcome \in Lifecycle!Outcome,
             Lifecycle!SendLogoutToken(id, outcome), UNCHANGED settings
      PROVE  LifecycleInv'
  <2>1. Lifecycle!TypeOK'
    BY <1>0, <1>3 DEF Lifecycle!TypeOK, Lifecycle!SendLogoutToken
  <2> QED BY <1>3, <2>1, QuietRunStep DEF Lifecycle!SendLogoutToken
<1>4. CASE Lifecycle!StartOtherJob /\ UNCHANGED settings
  BY <1>4, NewJobStep DEF Lifecycle!StartOtherJob
<1>5. ASSUME NEW success \in BOOLEAN, Lifecycle!FinishSyncJob(success), UNCHANGED settings
      PROVE  LifecycleInv'
  BY <1>5, FinishJobStep
<1>6. CASE Lifecycle!View /\ UNCHANGED settings
  <2>1. shown' = [i \in 1 .. Len(shown) |-> Lifecycle!Settled(shown[i])]
    BY <1>6 DEF Lifecycle!View
  <2>2. ASSUME NEW i \in 1 .. Len(shown)
        PROVE  LET e == Lifecycle!Settled(shown[i])
               IN  /\ e \in Lifecycle!Run /\ e.id = shown[i].id /\ e.kind = shown[i].kind
                   /\ \A t \in Lifecycle!Pushes : e.step[t] = shown[i].step[t]
    <3> DEFINE token == IF shown[i].step["token"] # "skipped"
                           /\ tokenSent[shown[i].id] \in Lifecycle!Outcome
                        THEN tokenSent[shown[i].id] ELSE shown[i].step["token"]
    <3>1. /\ shown[i] \in Lifecycle!Run
          /\ shown[i].step \in [Lifecycle!Steps -> Lifecycle!Status]
      BY LifecycleTypes
    <3>2. token \in Lifecycle!Status /\ "token" \in Lifecycle!Steps
      BY <3>1 DEF Lifecycle!Steps, Lifecycle!Status, Lifecycle!Outcome
    <3>3. Lifecycle!Settled(shown[i])
             = [shown[i] EXCEPT !.step = [shown[i].step EXCEPT !["token"] = token]]
      BY DEF Lifecycle!Settled
    <3> HIDE DEF token
    <3>4. [shown[i].step EXCEPT !["token"] = token] \in [Lifecycle!Steps -> Lifecycle!Status]
          /\ \A t \in Lifecycle!Pushes :
                [shown[i].step EXCEPT !["token"] = token][t] = shown[i].step[t]
      BY <3>1, <3>2 DEF Lifecycle!Pushes, Lifecycle!Steps
    <3> QED BY <3>1, <3>3, <3>4 DEF Lifecycle!Run
  <2>3. shown' \in Seq(Lifecycle!Run) /\ Len(shown') = Len(shown)
    BY <2>1, <2>2, LifecycleTypes
  <2>4. Lifecycle!TypeOK'
    BY <1>0, <1>6, <2>3 DEF Lifecycle!TypeOK, Lifecycle!View
  <2> QED BY <1>6, <2>1, <2>2, <2>3, <2>4, QuietRunStep DEF Lifecycle!View
<1>7. ASSUME NEW u \in Users, Lifecycle!StartIssue(u), UNCHANGED settings
      PROVE  LifecycleInv'
  <2>1. Lifecycle!TypeOK'
    BY <1>0, <1>7 DEF Lifecycle!TypeOK, Lifecycle!StartIssue
  <2> QED BY <1>7, <2>1, QuietRunStep DEF Lifecycle!StartIssue
<1>8. ASSUME NEW all \in BOOLEAN, Lifecycle!NoteIssuedGroups(all), UNCHANGED settings
      PROVE  LifecycleInv'
  <2> DEFINE status(i) == IF all /\ issuing.groups = shown[i].wanted THEN "ok" ELSE "failed"
             e(i) == IF shown[i].kind = "mover" /\ shown[i].user = issuing.user
                        /\ shown[i].step["issued"] = "waiting"
                     THEN [shown[i] EXCEPT !.step = [shown[i].step EXCEPT !["issued"] = status(i)]]
                     ELSE shown[i]
  <2>1. shown' = [i \in 1 .. Len(shown) |-> e(i)]
    BY <1>8 DEF Lifecycle!NoteIssuedGroups
  <2>2. ASSUME NEW i \in 1 .. Len(shown)
        PROVE  /\ e(i) \in Lifecycle!Run /\ e(i).id = shown[i].id /\ e(i).kind = shown[i].kind
               /\ \A t \in Lifecycle!Pushes : e(i).step[t] = shown[i].step[t]
    <3>1. /\ shown[i] \in Lifecycle!Run
          /\ shown[i].step \in [Lifecycle!Steps -> Lifecycle!Status]
      BY LifecycleTypes
    <3>2. status(i) \in Lifecycle!Status /\ "issued" \in Lifecycle!Steps
      BY DEF Lifecycle!Steps, Lifecycle!Status
    <3> HIDE DEF status
    <3>3. [shown[i].step EXCEPT !["issued"] = status(i)] \in [Lifecycle!Steps -> Lifecycle!Status]
          /\ \A t \in Lifecycle!Pushes :
                [shown[i].step EXCEPT !["issued"] = status(i)][t] = shown[i].step[t]
      BY <3>1, <3>2 DEF Lifecycle!Pushes, Lifecycle!Steps
    <3> QED BY <3>1, <3>3 DEF Lifecycle!Run
  <2> HIDE DEF e
  <2>3. shown' \in Seq(Lifecycle!Run) /\ Len(shown') = Len(shown)
    BY <2>1, <2>2, LifecycleTypes
  <2>4. Lifecycle!TypeOK'
    BY <1>0, <1>8, <2>3 DEF Lifecycle!TypeOK, Lifecycle!NoteIssuedGroups
  <2> QED BY <1>8, <2>1, <2>2, <2>3, <2>4, QuietRunStep DEF Lifecycle!NoteIssuedGroups
<1>9. CASE UNCHANGED Lifecycle!vars
  <2>1. Lifecycle!TypeOK'
    BY <1>0, <1>9 DEF Lifecycle!TypeOK, Lifecycle!vars
  <2> QED BY <1>9, <2>1, QuietRunStep DEF Lifecycle!vars
<1> QED BY <1>1, <1>2, <1>3, <1>4, <1>5, <1>6, <1>7, <1>8, <1>9 DEF Lifecycle!Next, Lifecycle!Step

-----------------------------------------------------------------------------
(* Updates: what is offered is on disk, and a swap installs a newer build. *)

feed == x1
installed == x2
folder == x3
proc == x4
undone == x5
USE DEF feed, installed, folder, proc, undone

\* Follows from ComponentsAssumption.
UpdatingLimits == None \notin Actors /\ None \notin Things /\ MaxBuild \in Nat \ {0}

\* A process alone: what it stages is in a folder that it holds, made for a
\* release that is newer than the build it runs, and while it installs, what it
\* staged stays. The last two lines are StagedIsThere.
InOrder(r, p, on) ==
    /\ r.check = "staging" =>
          /\ r.install = "idle" /\ r.into \in Things /\ r.into # r.staged
          /\ on[r.into].state = "full" /\ on[r.into].holder = p
          /\ on[r.into].receipt = r.release /\ on[r.into].bundle.build = r.release
    /\ r.check \in {"downloading", "downloaded", "staging"} => r.release > r.build
    /\ r.staged # None =>
          /\ r.staged \in Things
          /\ on[r.staged].state = "full" /\ on[r.staged].holder = p
          /\ on[r.staged].receipt > r.build
          /\ r.install # "swapped" =>
                on[r.staged].bundle.good /\ on[r.staged].bundle.build = on[r.staged].receipt
          /\ r.restarting => r.install # "idle"
    /\ r.install # "idle" => r.staged # None /\ (r.relaunch \/ r.restarting)
    /\ r.status = "ready" => r.staged # None \/ r.restarting
ProcessesInOrder == \A p \in Actors : InOrder(proc[p], p, folder)

\* Two processes that hold a bundle hold different ones.
Holds(r) == r.install \in {"locked", "checked", "swapped"}
OneHolder ==
    \A p, q \in Actors : p # q /\ Holds(proc[p]) /\ Holds(proc[q]) => proc[p].lock # proc[q].lock
\* What a process has checked is installed until it swaps.
CheckedIsInstalled ==
    ~undone => \A p \in Actors : proc[p].install = "checked" =>
                   installed.inode = proc[p].lock /\ installed.build = proc[p].build

UpdatingInv == Updating!TypeOK /\ ProcessesInOrder /\ OneHolder /\ CheckedIsInstalled

\* A process that did not act keeps its order when its folders are left alone.
LEMMA KeepsOrder ==
    ASSUME UpdatingInv, NEW p \in Actors,
           \A q \in Actors \ {p} : proc'[q] = proc[q],
           \A q \in Actors \ {p}, f \in Things :
               folder[f].state = "full" /\ folder[f].holder = q => folder'[f] = folder[f],
           InOrder(proc'[p], p, folder')
    PROVE  ProcessesInOrder'
<1> SUFFICES ASSUME NEW q \in Actors PROVE InOrder(proc'[q], q, folder')
  BY DEF ProcessesInOrder
<1>1. CASE q = p
  BY <1>1
<1>2. CASE q # p
  <2>1. InOrder(proc[q], q, folder) /\ proc'[q] = proc[q]
    BY <1>2 DEF UpdatingInv, ProcessesInOrder
  <2>2. proc[q].check = "staging" => folder'[proc[q].into] = folder[proc[q].into]
    BY <1>2, <2>1 DEF InOrder
  <2>3. proc[q].staged # None => folder'[proc[q].staged] = folder[proc[q].staged]
    BY <1>2, <2>1 DEF InOrder
  <2> QED BY <2>1, <2>2, <2>3 DEF InOrder
<1> QED BY <1>1, <1>2

\* A step that neither locks nor installs leaves the locks in order.
LEMMA KeepsLocks ==
    ASSUME UpdatingInv, NEW p \in Actors,
           \A q \in Actors \ {p} : proc'[q] = proc[q],
           Holds(proc'[p]) => /\ Holds(proc[p]) /\ proc'[p].lock = proc[p].lock
                              /\ proc'[p].build = proc[p].build
                              /\ proc'[p].install = "checked" => proc[p].install = "checked",
           installed' = installed, undone' = undone
    PROVE  OneHolder' /\ CheckedIsInstalled'
<1>1. OneHolder'
  BY DEF UpdatingInv, OneHolder
<1>2. CheckedIsInstalled'
  BY DEF UpdatingInv, CheckedIsInstalled, Holds
<1> QED BY <1>1, <1>2

\* The types, one process and one folder at a time.
LEMMA UpdatingTypes ==
    ASSUME UpdatingInv
    PROVE  /\ feed \in Updating!Builds /\ installed \in Updating!Bundle /\ undone \in BOOLEAN
           /\ folder \in [Things -> Updating!Folder] /\ proc \in [Actors -> Updating!Proc]
           /\ \A p \in Actors : proc[p] \in Updating!Proc /\ InOrder(proc[p], p, folder)
           /\ \A f \in Things : folder[f] \in Updating!Folder /\ folder[f].bundle \in Updating!Bundle
<1>1. /\ feed \in Updating!Builds /\ installed \in Updating!Bundle /\ undone \in BOOLEAN
      /\ folder \in [Things -> Updating!Folder] /\ proc \in [Actors -> Updating!Proc]
  BY DEF UpdatingInv, Updating!TypeOK
<1>2. \A f \in Things : folder[f] \in Updating!Folder /\ folder[f].bundle \in Updating!Bundle
  BY <1>1 DEF Updating!Folder
<1>3. \A p \in Actors : proc[p] \in Updating!Proc /\ InOrder(proc[p], p, folder)
  BY <1>1 DEF UpdatingInv, ProcessesInOrder
<1> QED BY <1>1, <1>2, <1>3

\* The invariant holds at first.
LEMMA UpdatingInit == ASSUME UpdatingLimits, Updating!Init PROVE UpdatingInv
<1>1. 1 \in Updating!Builds
  BY DEF UpdatingLimits, Updating!Builds
<1>2. Updating!Down \in Updating!Proc
  BY <1>1 DEF Updating!Down, Updating!Proc, Updating!Inodes
<1>3. Updating!TypeOK
  BY <1>1, <1>2 DEF Updating!TypeOK, Updating!Init, Updating!Folder, Updating!Bundle, Updating!Inodes
<1>4. ProcessesInOrder /\ OneHolder /\ CheckedIsInstalled
  BY DEF Updating!Init, Updating!Down, ProcessesInOrder, InOrder, OneHolder, CheckedIsInstalled, Holds
<1> QED BY <1>3, <1>4 DEF UpdatingInv

\* A step of one process that only changes what it knows.
LEMMA QuietProcess ==
    ASSUME UpdatingLimits, UpdatingInv, NEW p \in Actors,
           proc' = [proc EXCEPT ![p] = proc'[p]], proc'[p] \in Updating!Proc,
           InOrder(proc'[p], p, folder),
           Holds(proc'[p]) => /\ Holds(proc[p]) /\ proc'[p].lock = proc[p].lock
                              /\ proc'[p].build = proc[p].build
                              /\ proc'[p].install = "checked" => proc[p].install = "checked",
           UNCHANGED <<feed, installed, folder, undone>>
    PROVE  UpdatingInv'
<1>1. proc' \in [Actors -> Updating!Proc] /\ \A q \in Actors \ {p} : proc'[q] = proc[q]
  BY UpdatingTypes
<1>2. Updating!TypeOK'
  BY <1>1, UpdatingTypes DEF Updating!TypeOK
<1>3. ProcessesInOrder'
  BY <1>1, KeepsOrder
<1>4. OneHolder' /\ CheckedIsInstalled'
  BY <1>1, KeepsLocks
<1> QED BY <1>2, <1>3, <1>4 DEF UpdatingInv

\* A step of one process that changes its folders or makes one.
LEMMA FolderStep ==
    ASSUME UpdatingLimits, UpdatingInv, NEW p \in Actors,
           proc' = [proc EXCEPT ![p] = proc'[p]], proc'[p] \in Updating!Proc,
           folder' \in [Things -> Updating!Folder],
           \A f \in Things, q \in Actors \ {p} :
               folder[f].state = "full" /\ folder[f].holder = q => folder'[f] = folder[f],
           InOrder(proc'[p], p, folder'),
           ~Holds(proc'[p]),
           UNCHANGED <<feed, installed, undone>>
    PROVE  UpdatingInv'
<1>1. proc' \in [Actors -> Updating!Proc] /\ \A q \in Actors \ {p} : proc'[q] = proc[q]
  BY UpdatingTypes
<1>2. Updating!TypeOK'
  BY <1>1, UpdatingTypes DEF Updating!TypeOK
<1>3. ProcessesInOrder'
  BY <1>1, KeepsOrder
<1>4. OneHolder' /\ CheckedIsInstalled'
  BY <1>1, KeepsLocks
<1> QED BY <1>2, <1>3, <1>4 DEF UpdatingInv

\* It is kept by a process that starts, with an order of its own,
LEMMA LaunchStep ==
    ASSUME UpdatingLimits, UpdatingInv, NEW p \in Actors, Updating!Launch(p) PROVE UpdatingInv'
<1>1. /\ installed.build \in Updating!Builds /\ 1 \in Updating!Builds
      /\ proc' = [proc EXCEPT ![p] = proc'[p]]
      /\ proc'[p] = [Updating!Down EXCEPT !.up = TRUE, !.build = installed.build,
                        !.sweeping = {f \in Things : folder[f].state = "full"}]
      /\ UNCHANGED <<feed, installed, folder, undone>>
  BY UpdatingTypes DEF Updating!Launch, Updating!Bundle, UpdatingLimits, Updating!Builds
<1>2. proc'[p] \in Updating!Proc
  BY <1>1 DEF Updating!Down, Updating!Proc, Updating!Inodes
<1>3. InOrder(proc'[p], p, folder) /\ ~Holds(proc'[p])
  BY <1>1 DEF InOrder, Updating!Down, Holds
<1> QED BY <1>1, <1>2, <1>3, QuietProcess

\* by RemoveLeftovers, which takes what nobody holds,
LEMMA SweepStep ==
    ASSUME UpdatingLimits, UpdatingInv, NEW p \in Actors, Updating!RemoveLeftovers(p)
    PROVE  UpdatingInv'
<1>1. PICK f \in proc[p].sweeping :
          /\ folder' = IF Updating!Leftover(f) THEN Updating!Removed(f) ELSE folder
          /\ proc' = [proc EXCEPT ![p].sweeping = @ \ {f}]
          /\ UNCHANGED <<feed, installed, undone>>
  BY DEF Updating!RemoveLeftovers
<1>2. /\ proc' = [proc EXCEPT ![p] = proc'[p]]
      /\ proc'[p] = [proc[p] EXCEPT !.sweeping = @ \ {f}]
  BY <1>1, UpdatingTypes
<1>3. proc[p] \in Updating!Proc /\ f \in Things /\ InOrder(proc[p], p, folder)
  BY <1>1, UpdatingTypes DEF Updating!Proc
<1>4. proc'[p] \in Updating!Proc
  BY <1>2, <1>3 DEF Updating!Proc
<1>5. /\ folder' \in [Things -> Updating!Folder]
      /\ \A g \in Things : folder[g].state = "full" /\ folder[g].holder # None => folder'[g] = folder[g]
  <2>1. CASE ~Updating!Leftover(f)
    BY <1>1, <2>1, UpdatingTypes
  <2>2. CASE Updating!Leftover(f)
    <3>1. folder' = [folder EXCEPT ![f] = [folder[f] EXCEPT !.state = "removed", !.holder = None]]
      BY <1>1, <1>3, <2>2, UpdatingTypes DEF Updating!Removed
    <3>2. [folder[f] EXCEPT !.state = "removed", !.holder = None] \in Updating!Folder
      BY <1>3, UpdatingTypes DEF Updating!Folder
    <3> QED BY <1>3, <2>2, <3>1, <3>2, UpdatingTypes DEF Updating!Leftover, Updating!Free
  <2> QED BY <2>1, <2>2
<1>6. ASSUME NEW g \in Things, NEW q \in Actors, folder[g].state = "full", folder[g].holder = q
      PROVE  folder'[g] = folder[g]
  BY <1>5, <1>6 DEF UpdatingLimits
<1>7. /\ proc'[p].check = proc[p].check /\ proc'[p].install = proc[p].install
      /\ proc'[p].into = proc[p].into /\ proc'[p].staged = proc[p].staged
      /\ proc'[p].release = proc[p].release /\ proc'[p].build = proc[p].build
      /\ proc'[p].restarting = proc[p].restarting /\ proc'[p].relaunch = proc[p].relaunch
      /\ proc'[p].status = proc[p].status /\ proc'[p].lock = proc[p].lock
  BY <1>2, <1>3 DEF Updating!Proc
<1>8. InOrder(proc'[p], p, folder')
  <2>1. proc[p].check = "staging" => folder'[proc[p].into] = folder[proc[p].into]
    BY <1>3, <1>6 DEF InOrder
  <2>2. proc[p].staged # None => folder'[proc[p].staged] = folder[proc[p].staged]
    BY <1>3, <1>6 DEF InOrder
  <2> QED BY <1>3, <1>7, <2>1, <2>2 DEF InOrder
<1>9. proc' \in [Actors -> Updating!Proc] /\ \A q \in Actors \ {p} : proc'[q] = proc[q]
  BY <1>2, <1>4, UpdatingTypes
<1>10. Updating!TypeOK'
  BY <1>1, <1>5, <1>9, UpdatingTypes DEF Updating!TypeOK
<1>11. ProcessesInOrder'
  BY <1>6, <1>8, <1>9, KeepsOrder
<1>12. OneHolder' /\ CheckedIsInstalled'
  BY <1>1, <1>7, <1>9, KeepsLocks DEF Holds
<1> QED BY <1>10, <1>11, <1>12 DEF UpdatingInv

\* by a process that ends, which lets go of its folders,
LEMMA ExitStep ==
    ASSUME UpdatingLimits, UpdatingInv, NEW p \in Actors, Updating!Exit(p) PROVE UpdatingInv'
<1>1. /\ 1 \in Updating!Builds
      /\ proc' = [proc EXCEPT ![p] = proc'[p]] /\ proc'[p] = Updating!Down
      /\ folder' = [f \in Things |-> IF folder[f].holder = p
                                     THEN [folder[f] EXCEPT !.holder = None] ELSE folder[f]]
      /\ UNCHANGED <<feed, installed, undone>>
  BY UpdatingTypes DEF Updating!Exit, UpdatingLimits, Updating!Builds
<1>2. proc'[p] \in Updating!Proc
  BY <1>1 DEF Updating!Down, Updating!Proc, Updating!Inodes
<1>3. InOrder(proc'[p], p, folder') /\ ~Holds(proc'[p])
  BY <1>1 DEF InOrder, Updating!Down, Holds
<1>4. folder' \in [Things -> Updating!Folder]
  <2>1. \A f \in Things : [folder[f] EXCEPT !.holder = None] \in Updating!Folder
    BY UpdatingTypes DEF Updating!Folder
  <2> QED BY <1>1, <2>1, UpdatingTypes
<1>5. \A f \in Things, q \in Actors \ {p} :
          folder[f].state = "full" /\ folder[f].holder = q => folder'[f] = folder[f]
  BY <1>1
<1> QED BY <1>1, <1>2, <1>3, <1>4, <1>5, FolderStep

\* by a check, which says nothing of an update that is not there,
LEMMA CheckStep ==
    ASSUME UpdatingLimits, UpdatingInv, NEW p \in Actors,
           Updating!StartCheck(p) \/ Updating!FailToFetch(p) \/ Updating!Check(p)
    PROVE  UpdatingInv'
<1>1. proc[p] \in Updating!Proc /\ feed \in Updating!Builds /\ InOrder(proc[p], p, folder)
  BY UpdatingTypes
<1>2. 1 \in Updating!Builds
  BY DEF UpdatingLimits, Updating!Builds
<1>3. UNCHANGED <<feed, installed, folder, undone>>
  BY DEF Updating!StartCheck, Updating!FailToFetch, Updating!Check
<1>4. CASE Updating!StartCheck(p)
  <2>1. /\ proc' = [proc EXCEPT ![p] = proc'[p]] /\ proc[p].check = "idle"
        /\ proc'[p] = [proc[p] EXCEPT !.check = "fetching"]
    BY <1>4, UpdatingTypes DEF Updating!StartCheck
  <2>2. proc'[p] \in Updating!Proc
    BY <1>1, <2>1 DEF Updating!Proc
  <2>3. InOrder(proc'[p], p, folder)
    BY <1>1, <2>1 DEF InOrder, Updating!Proc
  <2> QED BY <1>1, <1>3, <2>1, <2>2, <2>3, QuietProcess DEF Holds, Updating!Proc
<1>5. CASE Updating!FailToFetch(p)
  <2>1. /\ proc' = [proc EXCEPT ![p] = proc'[p]]
        /\ proc'[p] = [proc[p] EXCEPT !.check = "idle"]
    BY <1>5, UpdatingTypes DEF Updating!FailToFetch
  <2>2. proc'[p] \in Updating!Proc
    BY <1>1, <2>1 DEF Updating!Proc
  <2>3. InOrder(proc'[p], p, folder)
    BY <1>1, <2>1 DEF InOrder, Updating!Proc
  <2> QED BY <1>1, <1>3, <2>1, <2>2, <2>3, QuietProcess DEF Holds, Updating!Proc
<1>6. CASE Updating!Check(p)
  <2>1. /\ proc' = [proc EXCEPT ![p] = proc'[p]]
        /\ \/ proc'[p] = [proc[p] EXCEPT !.check = "idle"]
           \/ /\ proc[p].staged = None /\ ~proc[p].restarting
              /\ proc'[p] = [proc[p] EXCEPT !.check = "idle", !.offer = 1, !.status = "idle"]
           \/ proc'[p] = [proc[p] EXCEPT !.check = "idle", !.release = 1, !.offer = feed,
                                         !.status = "available"]
           \/ /\ ~(feed <= proc[p].build)
              /\ proc'[p] = [proc[p] EXCEPT !.check = "downloading", !.release = feed]
    BY <1>6, UpdatingTypes DEF Updating!Check, Updating!UpToDate, Updating!Shown
  <2>2. feed \in Int /\ proc[p].build \in Int
    BY <1>1 DEF Updating!Proc, Updating!Builds
  <2>3. proc'[p] \in Updating!Proc /\ InOrder(proc'[p], p, folder)
    <3>1. CASE proc'[p] = [proc[p] EXCEPT !.check = "idle"]
      <4>1. proc'[p] \in Updating!Proc
        BY <1>1, <3>1 DEF Updating!Proc
      <4> QED BY <1>1, <3>1, <4>1 DEF InOrder, Updating!Proc
    <3>2. CASE /\ proc[p].staged = None /\ ~proc[p].restarting
               /\ proc'[p] = [proc[p] EXCEPT !.check = "idle", !.offer = 1, !.status = "idle"]
      <4>1. proc'[p] \in Updating!Proc
        BY <1>1, <1>2, <3>2 DEF Updating!Proc
      <4> QED BY <1>1, <3>2, <4>1 DEF InOrder, Updating!Proc
    <3>3. CASE proc'[p] = [proc[p] EXCEPT !.check = "idle", !.release = 1, !.offer = feed,
                                          !.status = "available"]
      <4>1. proc'[p] \in Updating!Proc
        BY <1>1, <1>2, <3>3 DEF Updating!Proc
      <4> QED BY <1>1, <3>3, <4>1 DEF InOrder, Updating!Proc
    <3>4. CASE /\ ~(feed <= proc[p].build)
               /\ proc'[p] = [proc[p] EXCEPT !.check = "downloading", !.release = feed]
      <4>1. proc'[p] \in Updating!Proc
        BY <1>1, <3>4 DEF Updating!Proc
      <4> QED BY <1>1, <2>2, <3>4, <4>1 DEF InOrder, Updating!Proc
    <3> QED BY <2>1, <3>1, <3>2, <3>3, <3>4
  <2>4. proc'[p].install = proc[p].install /\ proc'[p].lock = proc[p].lock
        /\ proc'[p].build = proc[p].build
    BY <1>1, <2>1 DEF Updating!Proc
  <2> QED BY <1>3, <2>1, <2>3, <2>4, QuietProcess DEF Holds
<1> QED BY <1>4, <1>5, <1>6

\* What a failed release leaves of the process.
LEMMA FailedIs ==
    ASSUME UpdatingLimits, UpdatingInv, NEW p \in Actors
    PROVE  LET r == Updating!Failed(p) IN
           /\ r \in Updating!Proc
           /\ r.check = "idle" /\ r.install = proc[p].install /\ r.lock = proc[p].lock
           /\ r.build = proc[p].build /\ r.staged = proc[p].staged
           /\ r.restarting = proc[p].restarting /\ r.relaunch = proc[p].relaunch
           /\ r.status # "failed" => r.status = proc[p].status
<1>1. proc[p] \in Updating!Proc /\ 1 \in Updating!Builds
  BY UpdatingTypes DEF UpdatingLimits, Updating!Builds
<1> QED BY <1>1 DEF Updating!Failed, Updating!Proc

\* by a download, whatever was downloaded,
LEMMA DownloadStep ==
    ASSUME UpdatingLimits, UpdatingInv, NEW p \in Actors, Updating!Download(p)
    PROVE  UpdatingInv'
<1>1. proc[p] \in Updating!Proc /\ InOrder(proc[p], p, folder)
  BY UpdatingTypes
<1>2. /\ proc' = [proc EXCEPT ![p] = proc'[p]] /\ proc[p].check = "downloading"
      /\ \/ proc'[p] = [proc[p] EXCEPT !.check = "downloaded"]
         \/ proc'[p] = Updating!Failed(p)
      /\ UNCHANGED <<feed, installed, folder, undone>>
  BY UpdatingTypes DEF Updating!Download
<1>3. CASE proc'[p] = [proc[p] EXCEPT !.check = "downloaded"]
  <2>1. proc'[p] \in Updating!Proc
    BY <1>1, <1>3 DEF Updating!Proc
  <2>2. InOrder(proc'[p], p, folder)
    BY <1>1, <1>2, <1>3 DEF InOrder, Updating!Proc
  <2> QED BY <1>1, <1>2, <1>3, <2>1, <2>2, QuietProcess DEF Holds, Updating!Proc
<1>4. CASE proc'[p] = Updating!Failed(p)
  <2>1. InOrder(proc'[p], p, folder)
    BY <1>1, <1>4, FailedIs DEF InOrder
  <2> QED BY <1>2, <1>4, <2>1, FailedIs, QuietProcess DEF Holds
<1> QED BY <1>2, <1>3, <1>4

\* by claimFolder, for the release that was downloaded,
LEMMA ClaimStep ==
    ASSUME UpdatingLimits, UpdatingInv, NEW p \in Actors, Updating!Claim(p)
    PROVE  UpdatingInv'
<1>1. proc[p] \in Updating!Proc /\ InOrder(proc[p], p, folder)
  BY UpdatingTypes
<1>2. proc[p].check = "downloaded" /\ proc[p].install = "idle"
      /\ UNCHANGED <<feed, installed, undone>>
  BY DEF Updating!Claim, Updating!InstallMuFree
<1>3. ASSUME proc' = [proc EXCEPT ![p] = Updating!Failed(p)], UNCHANGED folder
      PROVE  UpdatingInv'
  <2>1. proc' = [proc EXCEPT ![p] = proc'[p]] /\ proc'[p] = Updating!Failed(p)
    BY <1>3, UpdatingTypes
  <2>2. InOrder(proc'[p], p, folder)
    BY <1>1, <2>1, FailedIs DEF InOrder
  <2> QED BY <1>2, <1>3, <2>1, <2>2, FailedIs, QuietProcess DEF Holds
<1>4. ASSUME NEW f \in Things, folder[f].state = "unused",
             folder' = [folder EXCEPT ![f].state = "full", ![f].holder = p,
                                      ![f].receipt = proc[p].release,
                                      ![f].bundle.build = proc[p].release],
             proc' = [proc EXCEPT ![p].check = "staging", ![p].into = f]
      PROVE  UpdatingInv'
  <2>1. /\ proc' = [proc EXCEPT ![p] = proc'[p]]
        /\ proc'[p] = [proc[p] EXCEPT !.check = "staging", !.into = f]
    BY <1>4, UpdatingTypes
  <2>2. proc'[p] \in Updating!Proc
    BY <1>1, <2>1 DEF Updating!Proc
  <2>3. folder' = [folder EXCEPT ![f] =
            [folder[f] EXCEPT !.state = "full", !.holder = p, !.receipt = proc[p].release,
                              !.bundle = [folder[f].bundle EXCEPT !.build = proc[p].release]]]
    BY <1>4, UpdatingTypes
  <2>4. proc[p].release \in Updating!Builds
    BY <1>1 DEF Updating!Proc
  <2>5. [folder[f].bundle EXCEPT !.build = proc[p].release] \in Updating!Bundle
    BY <2>4, UpdatingTypes DEF Updating!Bundle
  <2>6. /\ folder'[f] \in Updating!Folder
        /\ folder'[f].state = "full" /\ folder'[f].holder = p
        /\ folder'[f].receipt = proc[p].release /\ folder'[f].bundle.build = proc[p].release
    BY <2>3, <2>4, <2>5, UpdatingTypes DEF Updating!Folder, Updating!Bundle
  <2>7. folder' \in [Things -> Updating!Folder]
        /\ \A g \in Things \ {f} : folder'[g] = folder[g]
    BY <2>3, <2>6, UpdatingTypes
  <2>8. InOrder(proc'[p], p, folder')
    <3>1. proc[p].staged # None => proc[p].staged # f /\ folder'[proc[p].staged] = folder[proc[p].staged]
      BY <1>1, <1>4, <2>7 DEF InOrder
    <3>2. /\ proc'[p].check = "staging" /\ proc'[p].into = f /\ proc'[p].install = "idle"
          /\ proc'[p].staged = proc[p].staged /\ proc'[p].restarting = proc[p].restarting
          /\ proc'[p].release = proc[p].release /\ proc'[p].build = proc[p].build
          /\ proc'[p].status = proc[p].status
      BY <1>1, <1>2, <2>1 DEF Updating!Proc
    <3> QED BY <1>1, <1>2, <2>6, <3>1, <3>2 DEF InOrder, UpdatingLimits
  <2>9. ~Holds(proc'[p])
    BY <1>1, <1>2, <2>1 DEF Holds, Updating!Proc
  <2> QED BY <1>2, <1>4, <2>1, <2>2, <2>7, <2>8, <2>9, FolderStep
<1> QED BY <1>3, <1>4 DEF Updating!Claim

\* What Discard of a folder that the process holds leaves.
LEMMA DiscardedIs ==
    ASSUME UpdatingInv, NEW p \in Actors, NEW f \in Things
    PROVE  LET left == Updating!Discarded(p, f) IN
           /\ left \in [Things -> Updating!Folder]
           /\ \A g \in Things \ {f} : left[g] = folder[g]
           /\ folder[f].holder # p => left[f] = folder[f]
<1>1. CASE ~Updating!CheckOwned(p, f)
  BY <1>1, UpdatingTypes DEF Updating!Discarded
<1>2. CASE Updating!CheckOwned(p, f)
  <2>1. Updating!Discarded(p, f)
          = [folder EXCEPT ![f] = [folder[f] EXCEPT !.state = "removed", !.holder = None]]
    BY <1>2, UpdatingTypes DEF Updating!Discarded, Updating!Removed
  <2>2. [folder[f] EXCEPT !.state = "removed", !.holder = None] \in Updating!Folder
    BY UpdatingTypes DEF Updating!Folder
  <2> QED BY <1>2, <2>1, <2>2, UpdatingTypes DEF Updating!CheckOwned
<1> QED BY <1>1, <1>2

\* by stage, which offers what it verified or discards it,
LEMMA StageStep ==
    ASSUME UpdatingLimits, UpdatingInv, NEW p \in Actors, Updating!Stage(p)
    PROVE  UpdatingInv'
<1> DEFINE f == proc[p].into
           previous == proc[p].staged
<1>1. proc[p] \in Updating!Proc /\ InOrder(proc[p], p, folder) /\ 1 \in Updating!Builds
  BY UpdatingTypes DEF UpdatingLimits, Updating!Builds
<1>2. proc[p].check = "staging" /\ UNCHANGED <<feed, installed, undone>>
  BY DEF Updating!Stage
<1>3. /\ proc[p].install = "idle" /\ f \in Things /\ f # previous
      /\ folder[f].state = "full" /\ folder[f].holder = p
      /\ folder[f].receipt = proc[p].release /\ folder[f].bundle.build = proc[p].release
      /\ proc[p].release > proc[p].build
  BY <1>1, <1>2 DEF InOrder
<1>4. previous # None => /\ previous \in Things /\ folder[previous].state = "full"
                         /\ folder[previous].holder = p
  BY <1>1 DEF InOrder
<1>5. \A g \in Things : g # f => Updating!Discarded(p, f)[g] = folder[g]
  BY <1>3, DiscardedIs
<1>6. Updating!Discarded(p, f) \in [Things -> Updating!Folder]
  BY <1>3, DiscardedIs
<1>7. ASSUME folder' = Updating!Discarded(p, f),
             \/ proc' = [proc EXCEPT ![p] = Updating!Failed(p)]
             \/ proc' = [proc EXCEPT ![p].check = "idle", ![p].release = 1, ![p].into = None]
      PROVE  UpdatingInv'
  <2>1. /\ proc' = [proc EXCEPT ![p] = proc'[p]]
        /\ \/ proc'[p] = Updating!Failed(p)
           \/ proc'[p] = [proc[p] EXCEPT !.check = "idle", !.release = 1, !.into = None]
    BY <1>7, UpdatingTypes
  <2>2. /\ proc'[p] \in Updating!Proc
        /\ proc'[p].check = "idle" /\ proc'[p].install = "idle" /\ proc'[p].staged = previous
        /\ proc'[p].restarting = proc[p].restarting /\ proc'[p].build = proc[p].build
        /\ proc'[p].status \in {proc[p].status, "failed"}
    <3>1. CASE proc'[p] = Updating!Failed(p)
      BY <1>3, <3>1, FailedIs
    <3>2. CASE proc'[p] = [proc[p] EXCEPT !.check = "idle", !.release = 1, !.into = None]
      BY <1>1, <1>3, <3>2 DEF Updating!Proc
    <3> QED BY <2>1, <3>1, <3>2
  <2>3. InOrder(proc'[p], p, folder')
    <3>1. previous # None => folder'[previous] = folder[previous]
      BY <1>3, <1>4, <1>5, <1>7
    <3> QED BY <1>1, <1>3, <2>2, <3>1 DEF InOrder
  <2>4. \A g \in Things, q \in Actors \ {p} :
            folder[g].state = "full" /\ folder[g].holder = q => folder'[g] = folder[g]
    BY <1>3, <1>5, <1>7
  <2>5. folder' \in [Things -> Updating!Folder] /\ ~Holds(proc'[p])
    BY <1>6, <1>7, <2>2 DEF Holds
  <2> QED BY <1>2, <2>1, <2>2, <2>3, <2>4, <2>5, FolderStep
<1>8. ASSUME ~proc[p].restarting,
             folder' = [g \in Things |->
                 IF g = f THEN [folder[f] EXCEPT !.bundle.good = TRUE]
                 ELSE IF previous # None /\ g = previous
                 THEN Updating!Discarded(p, g)[g] ELSE folder[g]],
             proc' = [proc EXCEPT ![p] = Updating!Offered(p)]
      PROVE  UpdatingInv'
  <2>1. /\ proc' = [proc EXCEPT ![p] = proc'[p]]
        /\ proc'[p] = [proc[p] EXCEPT !.check = "idle", !.release = 1, !.into = None,
                                      !.staged = f, !.offer = proc[p].release, !.status = "ready"]
    BY <1>8, UpdatingTypes DEF Updating!Offered
  <2>2. /\ proc'[p] \in Updating!Proc
        /\ proc'[p].check = "idle" /\ proc'[p].install = "idle" /\ proc'[p].staged = f
        /\ ~proc'[p].restarting /\ proc'[p].build = proc[p].build
    <3>1. f \in Things /\ proc[p].release \in Updating!Builds
      BY <1>1, <1>3 DEF Updating!Proc
    <3> HIDE DEF f
    <3>2. proc'[p] \in Updating!Proc
      BY <1>1, <2>1, <3>1 DEF Updating!Proc
    <3>3. /\ proc'[p].check = "idle" /\ proc'[p].install = proc[p].install /\ proc'[p].staged = f
          /\ proc'[p].restarting = proc[p].restarting /\ proc'[p].build = proc[p].build
      BY <1>1, <2>1 DEF Updating!Proc
    <3> QED BY <1>3, <1>8, <3>2, <3>3
  <2>3. folder'[f] = [folder[f] EXCEPT !.bundle = [folder[f].bundle EXCEPT !.good = TRUE]]
    BY <1>3, <1>8, UpdatingTypes
  <2>4. /\ [folder[f].bundle EXCEPT !.good = TRUE] \in Updating!Bundle
        /\ [folder[f].bundle EXCEPT !.good = TRUE].good
        /\ [folder[f].bundle EXCEPT !.good = TRUE].build = folder[f].bundle.build
    BY <1>3, UpdatingTypes DEF Updating!Bundle
  <2>5. /\ folder'[f] \in Updating!Folder
        /\ folder'[f].state = "full" /\ folder'[f].holder = p /\ folder'[f].bundle.good
        /\ folder'[f].receipt = proc[p].release /\ folder'[f].bundle.build = proc[p].release
    BY <1>3, <2>3, <2>4, UpdatingTypes DEF Updating!Folder
  <2>6. \A g \in Things \ {f} : folder'[g] \in Updating!Folder
                                /\ (folder[g].holder # p => folder'[g] = folder[g])
    BY <1>8, UpdatingTypes, DiscardedIs
  <2>7. folder' \in [Things -> Updating!Folder]
    BY <1>8, <2>5, <2>6
  <2>8. InOrder(proc'[p], p, folder')
    BY <1>3, <2>2, <2>5 DEF InOrder, UpdatingLimits
  <2>9. \A g \in Things, q \in Actors \ {p} :
            folder[g].state = "full" /\ folder[g].holder = q => folder'[g] = folder[g]
    BY <1>3, <2>6
  <2> QED BY <1>2, <2>1, <2>2, <2>7, <2>8, <2>9, FolderStep DEF Holds
<1> QED BY <1>7, <1>8 DEF Updating!Stage

\* by Restart and InstallOnQuit, which open the bundle,
LEMMA OpenStep ==
    ASSUME UpdatingLimits, UpdatingInv, NEW p \in Actors,
           Updating!Restart(p) \/ Updating!InstallOnQuit(p)
    PROVE  UpdatingInv'
<1>1. proc[p] \in Updating!Proc /\ InOrder(proc[p], p, folder) /\ installed.inode \in Updating!Inodes
  BY UpdatingTypes DEF Updating!Bundle
<1>2. /\ proc[p].check # "staging" /\ proc[p].install = "idle"
      /\ UNCHANGED <<feed, installed, folder, undone>>
  BY DEF Updating!Restart, Updating!InstallOnQuit, Updating!InstallMuFree
<1>3. CASE Updating!Restart(p)
  <2>1. /\ proc' = [proc EXCEPT ![p] = proc'[p]] /\ proc[p].staged # None
        /\ proc'[p] = [proc[p] EXCEPT !.install = "opened", !.relaunch = TRUE,
                                      !.lock = installed.inode]
    BY <1>3, UpdatingTypes DEF Updating!Restart
  <2>2. proc'[p] \in Updating!Proc
    BY <1>1, <2>1 DEF Updating!Proc
  <2>3. InOrder(proc'[p], p, folder) /\ ~Holds(proc'[p])
    BY <1>1, <1>2, <2>1 DEF InOrder, Updating!Proc, Holds
  <2> QED BY <1>2, <2>1, <2>2, <2>3, QuietProcess
<1>4. CASE Updating!InstallOnQuit(p)
  <2>1. /\ proc' = [proc EXCEPT ![p] = proc'[p]]
        /\ proc'[p] = [proc[p] EXCEPT !.relaunch = FALSE, !.restarting = TRUE,
                            !.lock = installed.inode,
                            !.install = IF proc[p].staged = None THEN "idle" ELSE "opened"]
    BY <1>4, UpdatingTypes DEF Updating!InstallOnQuit
  <2>2. proc'[p] \in Updating!Proc
    BY <1>1, <2>1 DEF Updating!Proc
  <2>3. InOrder(proc'[p], p, folder) /\ ~Holds(proc'[p])
    BY <1>1, <1>2, <2>1 DEF InOrder, Updating!Proc, Holds
  <2> QED BY <1>2, <2>1, <2>2, <2>3, QuietProcess
<1> QED BY <1>3, <1>4

\* by a refusal of Apply, which takes the offer back,
LEMMA RefuseStep ==
    ASSUME UpdatingLimits, UpdatingInv, NEW p \in Actors, proc[p].install # "idle",
           Updating!Refuse(p)
    PROVE  UpdatingInv'
<1>1. proc[p] \in Updating!Proc /\ InOrder(proc[p], p, folder)
  BY UpdatingTypes
<1>2. /\ proc' = [proc EXCEPT ![p] = proc'[p]]
      /\ proc'[p] = [proc[p] EXCEPT !.install = "idle", !.staged = None,
                         !.status = IF proc[p].relaunch THEN "failed" ELSE proc[p].status]
      /\ UNCHANGED <<feed, installed, undone>>
  BY UpdatingTypes DEF Updating!Refuse, Updating!Refused
<1>3. proc[p].check # "staging" /\ proc[p].staged \in Things /\ folder[proc[p].staged].holder = p
      /\ (proc[p].relaunch \/ proc[p].restarting)
  BY <1>1 DEF InOrder
<1>4. proc'[p] \in Updating!Proc
  BY <1>1, <1>2 DEF Updating!Proc
<1>5. /\ folder' \in [Things -> Updating!Folder]
      /\ \A g \in Things, q \in Actors \ {p} :
             folder[g].state = "full" /\ folder[g].holder = q => folder'[g] = folder[g]
  BY <1>3, UpdatingTypes, DiscardedIs DEF Updating!Refuse
<1>6. InOrder(proc'[p], p, folder') /\ ~Holds(proc'[p])
  BY <1>1, <1>2, <1>3 DEF InOrder, Updating!Proc, Holds
<1> QED BY <1>2, <1>4, <1>5, <1>6, FolderStep

\* by lockInstalled, which waits for those that hold the bundle,
LEMMA LockStep ==
    ASSUME UpdatingLimits, UpdatingInv, NEW p \in Actors,
           Updating!LockInstalled(p) \/ Updating!CheckInstalled(p)
    PROVE  UpdatingInv'
<1>1. proc[p] \in Updating!Proc /\ InOrder(proc[p], p, folder)
  BY UpdatingTypes
<1>2. CASE Updating!Refuse(p)
  BY <1>2, RefuseStep DEF Updating!LockInstalled, Updating!CheckInstalled
<1>3. ASSUME NEW step \in {"locked", "checked"},
             proc[p].install \in {"opened", "locked"}, proc' = [proc EXCEPT ![p].install = step],
             UNCHANGED <<feed, installed, folder, undone>>,
             \A q \in Actors \ {p} : Holds(proc[q]) => proc[q].lock # proc[p].lock,
             step = "checked" => Updating!StillRunning(p)
      PROVE  UpdatingInv'
  <2>1. /\ proc' = [proc EXCEPT ![p] = proc'[p]]
        /\ proc'[p] = [proc[p] EXCEPT !.install = step]
    BY <1>3, UpdatingTypes
  <2>2. proc'[p] \in Updating!Proc
    BY <1>1, <2>1 DEF Updating!Proc
  <2>3. proc' \in [Actors -> Updating!Proc] /\ \A q \in Actors \ {p} : proc'[q] = proc[q]
    BY <2>1, <2>2, UpdatingTypes
  <2>4. Updating!TypeOK'
    BY <1>3, <2>3, UpdatingTypes DEF Updating!TypeOK
  <2>5. InOrder(proc'[p], p, folder')
    BY <1>1, <1>3, <2>1 DEF InOrder, Updating!Proc
  <2>6. ProcessesInOrder'
    BY <1>3, <2>3, <2>5, KeepsOrder
  <2>7. /\ proc'[p].lock = proc[p].lock /\ proc'[p].install = step
        /\ proc'[p].build = proc[p].build
    BY <1>1, <2>1 DEF Updating!Proc
  <2>8. OneHolder'
    BY <1>3, <2>3, <2>7 DEF UpdatingInv, OneHolder
  <2>9. CheckedIsInstalled'
    BY <1>3, <2>3, <2>7 DEF UpdatingInv, CheckedIsInstalled, Updating!StillRunning
  <2> QED BY <2>4, <2>6, <2>8, <2>9 DEF UpdatingInv
<1>4. CASE Updating!LockInstalled(p) /\ ~Updating!Refuse(p)
  <2>1. \A q \in Actors \ {p} : Holds(proc[q]) => proc[q].lock # proc[p].lock
    BY <1>4 DEF Updating!LockInstalled, Updating!BundleLocked, Updating!HoldsBundle, Holds
  <2> QED BY <1>3, <1>4, <2>1 DEF Updating!LockInstalled
<1>5. CASE Updating!CheckInstalled(p) /\ ~Updating!Refuse(p)
  <2>1. proc[p].install = "locked"
    BY <1>5 DEF Updating!CheckInstalled
  <2>2. \A q \in Actors \ {p} : Holds(proc[q]) => proc[q].lock # proc[p].lock
    BY <2>1 DEF UpdatingInv, OneHolder, Holds
  <2> QED BY <1>3, <1>5, <2>1, <2>2 DEF Updating!CheckInstalled
<1> QED BY <1>2, <1>4, <1>5

\* What RENAME_SWAP does, with the folder of a process.
LEMMA ExchangedIs ==
    ASSUME UpdatingInv, NEW p \in Actors, proc[p].staged # None,
           Updating!Exchanged(proc[p].staged)
    PROVE  /\ installed' = folder[proc[p].staged].bundle /\ installed' \in Updating!Bundle
           /\ folder' \in [Things -> Updating!Folder]
           /\ \A g \in Things : g # proc[p].staged => folder'[g] = folder[g]
           /\ folder'[proc[p].staged] = [folder[proc[p].staged] EXCEPT !.bundle = installed]
<1> DEFINE f == proc[p].staged
<1>1. f \in Things
  BY UpdatingTypes DEF InOrder
<1> HIDE DEF f
<1>2. installed' = folder[f].bundle
      /\ folder' = [folder EXCEPT ![f] = [folder[f] EXCEPT !.bundle = installed]]
  BY <1>1, UpdatingTypes DEF Updating!Exchanged, f
<1>3. [folder[f] EXCEPT !.bundle = installed] \in Updating!Folder
  BY <1>1, UpdatingTypes DEF Updating!Folder
<1>4. /\ installed' = folder[f].bundle /\ installed' \in Updating!Bundle
      /\ folder' \in [Things -> Updating!Folder]
      /\ \A g \in Things : g # f => folder'[g] = folder[g]
      /\ folder'[f] = [folder[f] EXCEPT !.bundle = installed]
  BY <1>1, <1>2, <1>3, UpdatingTypes
<1> QED BY <1>4 DEF f

\* by the swap: nobody else can have checked the bundle it takes away,
LEMMA SwapStep ==
    ASSUME UpdatingLimits, UpdatingInv, NEW p \in Actors, Updating!Swap(p) PROVE UpdatingInv'
<1> DEFINE f == proc[p].staged
<1>1. proc[p] \in Updating!Proc /\ InOrder(proc[p], p, folder) /\ proc[p].install = "checked"
  BY UpdatingTypes DEF Updating!Swap
<1>2. f \in Things /\ f # None /\ folder[f].holder = p /\ folder[f].state = "full"
      /\ proc[p].check # "staging"
  BY <1>1 DEF InOrder
<1>3. CASE Updating!Refuse(p)
  BY <1>1, <1>3, RefuseStep
<1>4. ASSUME Updating!Exchanged(f), proc' = [proc EXCEPT ![p].install = "swapped"],
             UNCHANGED <<feed, undone>>
      PROVE  UpdatingInv'
  <2>1. /\ proc' = [proc EXCEPT ![p] = proc'[p]]
        /\ proc'[p] = [proc[p] EXCEPT !.install = "swapped"]
    BY <1>4, UpdatingTypes
  <2>2. proc'[p] \in Updating!Proc
    BY <1>1, <2>1 DEF Updating!Proc
  <2>3. proc' \in [Actors -> Updating!Proc] /\ \A q \in Actors \ {p} : proc'[q] = proc[q]
    BY <2>1, <2>2, UpdatingTypes
  <2>4. /\ installed' \in Updating!Bundle /\ folder' \in [Things -> Updating!Folder]
        /\ \A g \in Things : g # f => folder'[g] = folder[g]
        /\ folder'[f] = [folder[f] EXCEPT !.bundle = installed]
    BY <1>2, <1>4, ExchangedIs
  <2>5. Updating!TypeOK'
    BY <1>4, <2>3, <2>4, UpdatingTypes DEF Updating!TypeOK
  <2>6. /\ folder'[f].state = "full" /\ folder'[f].holder = p
        /\ folder'[f].receipt = folder[f].receipt
    BY <1>2, <2>4, UpdatingTypes DEF Updating!Folder
  <2>7. /\ proc'[p].install = "swapped" /\ proc'[p].staged = f /\ proc'[p].lock = proc[p].lock
        /\ proc'[p].check = proc[p].check /\ proc'[p].build = proc[p].build
        /\ proc'[p].release = proc[p].release /\ proc'[p].restarting = proc[p].restarting
        /\ proc'[p].relaunch = proc[p].relaunch /\ proc'[p].status = proc[p].status
    BY <1>1, <2>1 DEF Updating!Proc
  <2>8. InOrder(proc'[p], p, folder')
    BY <1>1, <1>2, <2>6, <2>7 DEF InOrder
  <2>9. \A g \in Things, q \in Actors \ {p} :
            folder[g].state = "full" /\ folder[g].holder = q => folder'[g] = folder[g]
    BY <1>2, <2>4
  <2>10. ProcessesInOrder'
    BY <2>3, <2>8, <2>9, KeepsOrder
  <2>11. OneHolder'
    BY <1>1, <2>3, <2>7 DEF UpdatingInv, OneHolder, Holds
  <2>12. CheckedIsInstalled'
    <3> SUFFICES ASSUME ~undone, NEW q \in Actors, proc'[q].install = "checked" PROVE FALSE
      BY <1>4 DEF CheckedIsInstalled
    <3>1. q # p /\ proc[q].install = "checked"
      BY <2>3, <2>7
    <3>2. proc[q].lock = installed.inode /\ proc[p].lock = installed.inode
      BY <1>1, <3>1 DEF UpdatingInv, CheckedIsInstalled
    <3> QED BY <1>1, <3>1, <3>2 DEF UpdatingInv, OneHolder, Holds
  <2> QED BY <2>5, <2>10, <2>11, <2>12 DEF UpdatingInv
<1> QED BY <1>3, <1>4 DEF Updating!Swap

\* by what follows a swap, an undone one included,
LEMMA RelaunchStep ==
    ASSUME UpdatingLimits, UpdatingInv, NEW p \in Actors, Updating!Relaunch(p) PROVE UpdatingInv'
<1> DEFINE f == proc[p].staged
<1>1. proc[p] \in Updating!Proc /\ InOrder(proc[p], p, folder) /\ proc[p].install = "swapped"
  BY UpdatingTypes DEF Updating!Relaunch
<1>2. f \in Things /\ f # None /\ folder[f].holder = p /\ folder[f].state = "full"
      /\ proc[p].check # "staging"
  BY <1>1 DEF InOrder
<1>3. ASSUME NEW status \in {proc[p].status, "restarting", "failed"},
             proc' = [proc EXCEPT ![p] = [proc[p] EXCEPT !.install = "idle", !.staged = None,
                                                         !.restarting = TRUE, !.status = status]],
             UNCHANGED <<feed, installed, folder, undone>>
      PROVE  UpdatingInv'
  <2>1. /\ proc' = [proc EXCEPT ![p] = proc'[p]]
        /\ proc'[p] = [proc[p] EXCEPT !.install = "idle", !.staged = None,
                                      !.restarting = TRUE, !.status = status]
    BY <1>3, UpdatingTypes
  <2>2. proc'[p] \in Updating!Proc
    BY <1>1, <2>1 DEF Updating!Proc
  <2>3. InOrder(proc'[p], p, folder) /\ ~Holds(proc'[p])
    BY <1>1, <1>2, <2>1 DEF InOrder, Updating!Proc, Holds
  <2> QED BY <1>3, <2>1, <2>2, <2>3, QuietProcess
<1>4. ASSUME proc[p].relaunch,
             installed' = folder[f].bundle,
             folder' = [folder EXCEPT ![f].bundle = installed, ![f].state = "removed",
                                      ![f].holder = None],
             proc' = [proc EXCEPT ![p] = Updating!Refused(p)], undone' = TRUE, UNCHANGED feed
      PROVE  UpdatingInv'
  <2>1. /\ proc' = [proc EXCEPT ![p] = proc'[p]]
        /\ proc'[p] = [proc[p] EXCEPT !.install = "idle", !.staged = None, !.status = "failed"]
    BY <1>4, UpdatingTypes DEF Updating!Refused
  <2>2. proc'[p] \in Updating!Proc
    BY <1>1, <2>1 DEF Updating!Proc
  <2>3. proc' \in [Actors -> Updating!Proc] /\ \A q \in Actors \ {p} : proc'[q] = proc[q]
    BY <2>1, <2>2, UpdatingTypes
  <2>4. folder' = [folder EXCEPT ![f] =
            [folder[f] EXCEPT !.bundle = installed, !.state = "removed", !.holder = None]]
    BY <1>2, <1>4, UpdatingTypes
  <2>5. [folder[f] EXCEPT !.bundle = installed, !.state = "removed", !.holder = None]
            \in Updating!Folder
    BY <1>2, UpdatingTypes DEF Updating!Folder
  <2>6. /\ folder' \in [Things -> Updating!Folder] /\ installed' \in Updating!Bundle
        /\ \A g \in Things : g # f => folder'[g] = folder[g]
    BY <1>2, <1>4, <2>4, <2>5, UpdatingTypes
  <2>7. Updating!TypeOK'
    BY <1>4, <2>3, <2>6, UpdatingTypes DEF Updating!TypeOK
  <2>8. InOrder(proc'[p], p, folder') /\ ~Holds(proc'[p])
    BY <1>1, <1>2, <2>1 DEF InOrder, Updating!Proc, Holds
  <2>9. \A g \in Things, q \in Actors \ {p} :
            folder[g].state = "full" /\ folder[g].holder = q => folder'[g] = folder[g]
    BY <1>2, <2>6
  <2>10. ProcessesInOrder'
    BY <2>3, <2>8, <2>9, KeepsOrder
  <2>11. OneHolder' /\ CheckedIsInstalled'
    BY <1>4, <2>3, <2>8 DEF UpdatingInv, OneHolder, CheckedIsInstalled
  <2> QED BY <2>7, <2>10, <2>11 DEF UpdatingInv
<1>5. [proc[p] EXCEPT !.install = "idle", !.staged = None, !.restarting = TRUE]
        = [proc[p] EXCEPT !.install = "idle", !.staged = None, !.restarting = TRUE,
                          !.status = proc[p].status]
  BY <1>1 DEF Updating!Proc
<1>6. proc[p].status \in {proc[p].status, "restarting", "failed"}
  OBVIOUS
<1> QED BY <1>3, <1>4, <1>5, <1>6, UpdatingTypes DEF Updating!Relaunch

\* and so by every step.
LEMMA UpdatingStep ==
    ASSUME UpdatingLimits, UpdatingInv, [Updating!Next]_Updating!vars PROVE UpdatingInv'
<1>1. CASE Updating!Publish
  <2>1. feed' \in Updating!Builds /\ UNCHANGED <<installed, folder, proc, undone>>
    BY <1>1, UpdatingTypes DEF Updating!Publish, Updating!Builds, UpdatingLimits
  <2>2. Updating!TypeOK'
    BY <2>1, UpdatingTypes DEF Updating!TypeOK
  <2>3. ProcessesInOrder' /\ OneHolder' /\ CheckedIsInstalled'
    BY <2>1 DEF UpdatingInv, ProcessesInOrder, OneHolder, CheckedIsInstalled
  <2> QED BY <2>2, <2>3 DEF UpdatingInv
<1>2. CASE UNCHANGED Updating!vars
  BY <1>2 DEF Updating!vars, UpdatingInv, Updating!TypeOK, ProcessesInOrder, OneHolder,
          CheckedIsInstalled
<1>3. ASSUME NEW p \in Actors,
             \/ Updating!Launch(p) \/ Updating!RemoveLeftovers(p) \/ Updating!Exit(p)
             \/ Updating!StartCheck(p) \/ Updating!FailToFetch(p) \/ Updating!Check(p)
             \/ Updating!Download(p) \/ Updating!Claim(p) \/ Updating!Stage(p)
             \/ Updating!Restart(p) \/ Updating!InstallOnQuit(p)
             \/ Updating!LockInstalled(p) \/ Updating!CheckInstalled(p)
             \/ Updating!Swap(p) \/ Updating!Relaunch(p)
      PROVE  UpdatingInv'
  BY <1>3, LaunchStep, SweepStep, ExitStep, CheckStep, DownloadStep, ClaimStep, StageStep,
     OpenStep, LockStep, SwapStep, RelaunchStep
<1> QED BY <1>1, <1>2, <1>3 DEF Updating!Next

\* What the invariant says of an update that is offered.
LEMMA UpdatingImplies == ASSUME UpdatingInv PROVE Updating!StagedIsThere
<1> SUFFICES ASSUME NEW p \in Actors
             PROVE  /\ proc[p].status = "ready" => proc[p].staged # None \/ proc[p].restarting
                    /\ proc[p].staged # None =>
                          /\ Updating!CheckOwned(p, proc[p].staged)
                          /\ proc[p].install # "swapped" => Updating!Verified(proc[p].staged)
                          /\ proc[p].restarting => proc[p].install # "idle"
  BY DEF Updating!StagedIsThere
<1> QED BY UpdatingTypes DEF InOrder, Updating!CheckOwned, Updating!Verified

\* A swap needs an update that is newer than the process that stages it, which
\* runs what is installed.
LEMMA UpdatingForward ==
    ASSUME UpdatingInv PROVE Updating!SwapsForward
<1> SUFFICES ASSUME NEW p \in Actors, Updating!Swap(p), installed' # installed, ~undone
             PROVE  installed'.build > installed.build
  BY DEF Updating!SwapsForward
<1> DEFINE f == proc[p].staged
<1>1. proc[p].install = "checked" /\ ~Updating!Refuse(p)
  BY DEF Updating!Swap, Updating!Refuse
<1>2. Updating!Exchanged(f) /\ Updating!Verified(f)
  BY <1>1 DEF Updating!Swap
<1>3. InOrder(proc[p], p, folder)
  BY UpdatingTypes
<1>4. folder[f].receipt > proc[p].build /\ folder[f].bundle.build = folder[f].receipt
  BY <1>1, <1>2, <1>3 DEF InOrder, Updating!Verified
<1>5. installed' = folder[f].bundle /\ installed.build = proc[p].build
  BY <1>1, <1>2 DEF Updating!Exchanged, UpdatingInv, CheckedIsInstalled
<1> QED BY <1>4, <1>5

-----------------------------------------------------------------------------
(* State file: an upgrade keeps every directory.                           *)

db == x1
json == x2
copies == x3
pc == x4
starts == x5
original == x6
touched == x7
gone == x8
torn == x9
USE DEF db, json, copies, pc, starts, original, touched, gone, torn

\* The environments of an older version, IDs that no app has.
Olds == Environments \cup {Default}

\* Follows from ComponentsAssumption.
StoringLimits ==
    /\ MaxCopies \in Nat /\ MaxStarts \in Nat
    /\ Things \cap Olds = {}
    /\ \A e \in Olds : Storing!Migrated(e) \notin Things \cup Olds

\* TypeOK, and what never changes.
Owners == UNION {[A -> Storing!AllEnvironments] : A \in SUBSET Storing!AllApps}
StoringTypes ==
    /\ db \in Storing!Database /\ original \in Storing!Database
    /\ json \in [there : BOOLEAN, users : SUBSET Users, apps : SUBSET Things, base : BOOLEAN]
    /\ copies \in Seq(BOOLEAN) /\ Len(copies) <= MaxCopies
    /\ pc \in {"closed", "copy", "schema", "default", "scim", "own", "stamp", "load",
               "import", "distribute", "key", "running"}
    /\ gone \subseteq touched /\ touched \subseteq Storing!AllApps /\ torn \in BOOLEAN
    /\ starts \in 0 .. MaxStarts
OriginalInOrder ==
    /\ Storing!Has(original) \subseteq Things
    /\ \A a \in Storing!Has(original) : original.owner[a] \in Olds
    /\ original.users \subseteq Olds \X Users
    /\ original.base \subseteq original.envs \cap Olds
    /\ json.there => Storing!Has(original) = {} /\ original.users = {} /\ original.base = {}

\* Before the first migration of data the database is the original.
Unmoved ==
    ~db.moved =>
        /\ db.owner = original.owner /\ db.users = original.users /\ db.base = original.base
        /\ original.envs \subseteq db.envs /\ db.rows = {} /\ ~db.owned
\* Between the two, environments with SCIM settings have an app.
Moved ==
    db.moved /\ ~db.owned =>
        /\ Storing!Has(db) = Storing!Has(original) \cup {Storing!Migrated(e) : e \in Storing!Homeless}
        /\ \A a \in Storing!Has(original) : db.owner[a] = original.owner[a]
        /\ \A e \in Storing!Homeless : db.owner[Storing!Migrated(e)] = e
        /\ db.users = original.users /\ db.rows \subseteq Storing!Has(db) \X Users
\* After the second, apps are as UpgradeKeepsDirectory says, or the JSON file is
\* still to be imported, or it has been and not yet distributed.
Settled ==
    /\ \A a \in Storing!Has(db) : db.owner[a] = a /\ a \in db.envs
    /\ db.rows \subseteq db.users
    /\ Storing!Has(db) \cap gone = {}
    /\ Storing!Has(db) \ touched = Storing!ExpectedApps \ touched
    /\ \A a \in Storing!Has(db) \ touched : Storing!In(db, a) = Storing!Expected(a)
Unread == json.there /\ Storing!StateEmpty /\ touched = {}
Imported ==
    /\ db.owner = [a \in Storing!LegacyApps |-> Default]
    /\ db.users = {Default} \X json.users
    /\ db.rows \subseteq Storing!LegacyApps \X Users
Owned ==
    db.owned /\ ~torn =>
        /\ pc # "distribute" => Settled \/ Unread
        /\ pc \in {"key", "running"} => Settled
        /\ pc = "distribute" => Imported
\* What the process has come past is done, also by starts that died.
InTurn ==
    /\ pc \notin {"closed", "copy", "schema"} => db.scoped
    /\ db.moved => db.scoped
    /\ pc \in {"own", "stamp", "load", "import", "distribute", "key", "running"} => db.moved
    /\ pc \in {"stamp", "load", "import", "distribute", "key", "running"} => db.owned
    /\ pc \in {"import", "distribute"} => json.there /\ ~db.key
    /\ pc = "running" => db.key
    /\ ~db.owned => touched = {} /\ (json.there => ~db.key)
    /\ json.there /\ ~db.key => touched = {}

StoringInv == StoringTypes /\ OriginalInOrder /\ Unmoved /\ Moved /\ Owned /\ InTurn

\* A function from apps to environments is an owner, and nothing else is.
LEMMA OwnersAre ==
    /\ \A o \in Owners : DOMAIN o \subseteq Storing!AllApps /\ o \in [DOMAIN o -> Storing!AllEnvironments]
    /\ \A A \in SUBSET Storing!AllApps : [A -> Storing!AllEnvironments] \subseteq Owners
BY DEF Owners

\* The fields of a database.
LEMMA DatabaseIs ==
    ASSUME NEW d \in Storing!Database
    PROVE  /\ d.owner \in Owners /\ Storing!Has(d) \subseteq Storing!AllApps
           /\ \A a \in Storing!Has(d) : d.owner[a] \in Storing!AllEnvironments
           /\ d.envs \in SUBSET Storing!AllEnvironments
           /\ d.users \in SUBSET (Storing!AllEnvironments \X Users)
           /\ d.base \in SUBSET Storing!AllEnvironments /\ d.scim \in SUBSET Storing!AllApps
           /\ d.rows \in SUBSET (Storing!AllApps \X Users)
           /\ d.ver \in BOOLEAN /\ d.tables \in BOOLEAN /\ d.scoped \in BOOLEAN
           /\ d.moved \in BOOLEAN /\ d.owned \in BOOLEAN /\ d.key \in BOOLEAN
<1>1. /\ d.owner \in Owners
      /\ d.envs \in SUBSET Storing!AllEnvironments
      /\ d.users \in SUBSET (Storing!AllEnvironments \X Users)
      /\ d.base \in SUBSET Storing!AllEnvironments /\ d.scim \in SUBSET Storing!AllApps
      /\ d.rows \in SUBSET (Storing!AllApps \X Users)
      /\ d.ver \in BOOLEAN /\ d.tables \in BOOLEAN /\ d.scoped \in BOOLEAN
      /\ d.moved \in BOOLEAN /\ d.owned \in BOOLEAN /\ d.key \in BOOLEAN
  BY DEF Storing!Database, Owners
<1> QED BY <1>1, OwnersAre DEF Storing!Has

\* IDs: an app of SCIM settings is its environment's alone.
LEMMA MigratedIs ==
    /\ \A e, f : Storing!Migrated(e) = Storing!Migrated(f) => e = f
    /\ \A e \in Olds : Storing!Migrated(e) \in Storing!AllApps
    /\ Things \subseteq Storing!AllApps /\ Default \in Storing!AllApps
    /\ Olds \subseteq Storing!AllEnvironments /\ Storing!AllApps \subseteq Storing!AllEnvironments
BY DEF Storing!Migrated, Storing!AllApps, Storing!AllEnvironments, Olds

\* The invariant implies the type invariant and the property.
LEMMA StoringImplies ==
    ASSUME StoringInv PROVE Storing!TypeOK /\ Storing!UpgradeKeepsDirectory
<1>1. Storing!TypeOK
  <2>1. DOMAIN Storing!Fresh \ {"owner", "users", "rows", "envs", "base", "scim"}
          = {"ver", "tables", "scoped", "moved", "owned", "key"}
    BY DEF Storing!Fresh
  <2>2. \A f \in {"ver", "tables", "scoped", "moved", "owned", "key"} : db[f] \in BOOLEAN
    BY DEF StoringInv, StoringTypes, Storing!Database
  <2>3. db \in Storing!Database
    BY DEF StoringInv, StoringTypes
  <2> QED BY <2>1, <2>2, <2>3, DatabaseIs DEF Storing!TypeOK, StoringInv, StoringTypes, Storing!Has
<1>2. Storing!UpgradeKeepsDirectory
  BY DEF StoringInv, Owned, Settled, InTurn, Storing!UpgradeKeepsDirectory
<1> QED BY <1>1, <1>2

\* It holds of what an old installation can have left.
LEMMA StoringInit == ASSUME StoringLimits, Storing!Init PROVE StoringInv
<1>1. /\ original = db /\ copies = <<>> /\ pc = "closed" /\ starts = 0
      /\ touched = {} /\ gone = {} /\ torn = FALSE
  BY DEF Storing!Init
<1>2. Storing!NoOwner \in [{} -> Storing!AllEnvironments] /\ Storing!NoOwner \in Owners
  BY OwnersAre DEF Storing!NoOwner
<1>3. Storing!Fresh \in Storing!Database /\ Storing!Has(Storing!Fresh) = {}
  BY <1>2 DEF Storing!Fresh, Storing!Database, Storing!Has, Owners
<1>4. /\ db \in Storing!Database
      /\ json \in [there : BOOLEAN, users : SUBSET Users, apps : SUBSET Things, base : BOOLEAN]
      /\ db.rows = {} /\ ~db.moved /\ ~db.owned
      /\ (json.there => ~db.key) /\ OriginalInOrder
  <2>1. CASE db = Storing!Fresh
              /\ json \in [there : {TRUE}, users : SUBSET Users, apps : SUBSET Things,
                           base : BOOLEAN] \cup {Storing!NoJSON}
    <3>1. json \in [there : BOOLEAN, users : SUBSET Users, apps : SUBSET Things, base : BOOLEAN]
      <4>1. Storing!NoJSON \in [there : BOOLEAN, users : SUBSET Users, apps : SUBSET Things,
                                base : BOOLEAN]
        BY DEF Storing!NoJSON
      <4>2. CASE json \in [there : {TRUE}, users : SUBSET Users, apps : SUBSET Things, base : BOOLEAN]
        BY <4>2
      <4> QED BY <2>1, <4>1, <4>2
    <3>2. db.rows = {} /\ ~db.moved /\ ~db.owned /\ ~db.key /\ db.users = {} /\ db.base = {}
      BY <2>1 DEF Storing!Fresh
    <3>3. OriginalInOrder
      BY <1>1, <1>3, <2>1, <3>2 DEF OriginalInOrder
    <3> QED BY <1>3, <2>1, <3>1, <3>2, <3>3
  <2>2. CASE json = Storing!NoJSON /\ db \in Storing!Older
    <3>1. ~json.there
          /\ json \in [there : BOOLEAN, users : SUBSET Users, apps : SUBSET Things, base : BOOLEAN]
      BY <2>2 DEF Storing!NoJSON
    <3> DEFINE Left(o, u, b, s) ==
                 [Storing!Fresh EXCEPT !.tables = TRUE, !.envs = Olds, !.owner = o,
                                       !.users = u, !.base = b, !.scoped = s, !.key = TRUE]
               AnyOwner == UNION {[A -> Olds] : A \in SUBSET Things}
               AnyUsers == SUBSET (Olds \X Users)
    <3>a. Storing!Older = {Left(o, u, b, s) : o \in AnyOwner, u \in AnyUsers,
                                              b \in SUBSET Environments, s \in BOOLEAN}
      BY DEF Storing!Older, Olds
    <3>b. \A o \in AnyOwner : \E A \in SUBSET Things : o \in [A -> Olds]
      OBVIOUS
    <3> HIDE DEF Left, AnyOwner
    <3>2. PICK o \in AnyOwner, u \in AnyUsers, b \in SUBSET Environments, s \in BOOLEAN :
             db = Left(o, u, b, s)
      BY <2>2, <3>a
    <3> USE DEF Left
    <3>3. PICK A \in SUBSET Things : o \in [A -> Olds]
      BY <3>b
    <3>4. o \in Owners
      <4>1. A \in SUBSET Storing!AllApps /\ o \in [A -> Storing!AllEnvironments]
        BY <3>3, MigratedIs
      <4> QED BY <4>1, OwnersAre
    <3>5. /\ db.owner = o /\ db.users = u /\ db.base = b /\ db.envs = Olds /\ db.rows = {}
          /\ ~db.moved /\ ~db.owned /\ db.scim = {} /\ db.ver = FALSE /\ db.tables = TRUE
          /\ db.scoped = s /\ db.key = TRUE
          /\ db = [ver |-> FALSE, tables |-> TRUE, envs |-> Olds, owner |-> o, users |-> u,
                   base |-> b, scim |-> {}, rows |-> {}, scoped |-> s, moved |-> FALSE,
                   owned |-> FALSE, key |-> TRUE]
      BY <3>2 DEF Storing!Fresh
    <3>6. u \in SUBSET (Storing!AllEnvironments \X Users) /\ Olds \in SUBSET Storing!AllEnvironments
          /\ b \in SUBSET Storing!AllEnvironments /\ b \subseteq Olds
      BY MigratedIs DEF Olds
    <3>7. db \in Storing!Database
      BY <3>4, <3>5, <3>6 DEF Storing!Database, Owners
    <3>8. OriginalInOrder
      BY <1>1, <3>1, <3>3, <3>5, <3>6 DEF OriginalInOrder, Storing!Has
    <3> QED BY <3>1, <3>5, <3>7, <3>8
  <2> QED BY <2>1, <2>2 DEF Storing!Init
<1>5. StoringTypes
  <2>1. copies \in Seq(BOOLEAN) /\ Len(copies) = 0
    BY <1>1
  <2>2. starts \in 0 .. MaxStarts /\ Len(copies) <= MaxCopies
    BY <1>1, <2>1 DEF StoringLimits
  <2>3. original \in Storing!Database
    BY <1>1, <1>4
  <2> QED BY <1>1, <1>4, <2>1, <2>2, <2>3 DEF StoringTypes
<1>6. Unmoved /\ Moved /\ Owned /\ InTurn
  BY <1>1, <1>4 DEF Unmoved, Moved, Owned, InTurn
<1> QED BY <1>4, <1>5, <1>6 DEF StoringInv

\* What is said of the original and of the JSON file stays.
LEMMA OriginalStays ==
    ASSUME UNCHANGED <<json, original>>
    PROVE  /\ Storing!ExpectedApps' = Storing!ExpectedApps /\ Storing!LegacyApps' = Storing!LegacyApps
           /\ Storing!Homeless' = Storing!Homeless
           /\ \A a : Storing!Expected(a)' = Storing!Expected(a)
           /\ OriginalInOrder' <=> OriginalInOrder
<1>1. Storing!Homeless' = Storing!Homeless /\ Storing!LegacyApps' = Storing!LegacyApps
  BY DEF Storing!Homeless, Storing!LegacyApps
<1>2. Storing!ExpectedApps' = Storing!ExpectedApps
  BY <1>1 DEF Storing!ExpectedApps
<1>3. \A a : Storing!Expected(a)' = Storing!Expected(a)
  BY <1>1 DEF Storing!Expected
<1>4. OriginalInOrder' <=> OriginalInOrder
  BY DEF OriginalInOrder
<1> QED BY <1>1, <1>2, <1>3, <1>4

\* A step that changes nothing of the directory keeps what is said of it.
LEMMA DirectoryStays ==
    ASSUME UNCHANGED <<json, original, touched, gone>>,
           db'.owner = db.owner, db'.users = db.users, db'.rows = db.rows, db'.envs = db.envs,
           Settled
    PROVE  Settled'
<1>1. Storing!Has(db') = Storing!Has(db) /\ \A a : Storing!In(db', a) = Storing!In(db, a)
  BY DEF Storing!Has, Storing!In
<1>2. Storing!ExpectedApps' = Storing!ExpectedApps
      /\ \A a : Storing!Expected(a)' = Storing!Expected(a)
  BY OriginalStays
<1> QED BY <1>1, <1>2 DEF Settled

\* A step of the process alone keeps the invariant when it goes where the
\* database lets it go.
LEMMA ProcessStep ==
    ASSUME StoringInv, UNCHANGED <<db, json, original, touched, gone, torn>>,
           copies' \in Seq(BOOLEAN), Len(copies') <= MaxCopies, starts' \in 0 .. MaxStarts,
           \/ pc' = "closed" /\ (pc = "distribute" => torn \/ Settled)
           \/ pc' \in {"copy", "schema"} /\ pc \in {"closed", "copy"}
           \/ pc' = "import" /\ pc = "load" /\ json.there /\ ~db.key
           \/ pc' = "key" /\ pc = "load" /\ ~Unread
    PROVE  StoringInv'
<1>1. StoringTypes'
  BY DEF StoringInv, StoringTypes
<1>2. OriginalInOrder' /\ Unmoved' /\ Moved'
  <2>1. Storing!Homeless' = Storing!Homeless /\ OriginalInOrder'
    BY OriginalStays DEF StoringInv
  <2> QED BY <2>1 DEF StoringInv, Unmoved, Moved
<1>3. InTurn'
  BY DEF StoringInv, InTurn
<1>4. Owned'
  <2>1. Settled => Settled'
    BY DirectoryStays
  <2>2. Unread' <=> Unread
    BY DEF Unread, Storing!StateEmpty, Storing!Has, Storing!In
  <2>3. ASSUME db.owned, ~torn PROVE Settled \/ (Unread /\ pc' # "key")
    BY <2>3 DEF StoringInv, Owned
  <2>4. pc' \notin {"running", "distribute"}
    OBVIOUS
  <2>5. (db.owned /\ ~torn)' <=> (db.owned /\ ~torn)
    OBVIOUS
  <2> QED BY <2>1, <2>2, <2>3, <2>4, <2>5 DEF Owned
<1> QED BY <1>1, <1>2, <1>3, <1>4 DEF StoringInv

\* It is kept when the process opens the database or dies,
LEMMA OpenAndCrash ==
    ASSUME StoringLimits, StoringInv,
           Storing!Open \/ Storing!WriteCopy \/ Storing!LoadState \/ Storing!Crash
    PROVE  StoringInv'
<1>1. copies \in Seq(BOOLEAN) /\ Len(copies) <= MaxCopies /\ starts \in 0 .. MaxStarts
      /\ torn \in BOOLEAN
  BY DEF StoringInv, StoringTypes
<1>2. CASE Storing!Open
  <2>1. starts' \in 0 .. MaxStarts
    BY <1>1, <1>2 DEF Storing!Open, StoringLimits
  <2> QED BY <1>1, <1>2, <2>1, ProcessStep DEF Storing!Open, Storing!history
<1>3. CASE Storing!WriteCopy
  <2> DEFINE more == Append(copies, db = original)
  <2>1. more \in Seq(BOOLEAN) /\ Len(more) = Len(copies) + 1
    BY <1>1
  <2> HIDE DEF more
  <2>2. Len(more) > MaxCopies => Tail(more) \in Seq(BOOLEAN) /\ Len(Tail(more)) = Len(more) - 1
    BY <2>1 DEF StoringLimits
  <2>3. Storing!Pruned(more) \in Seq(BOOLEAN) /\ Len(Storing!Pruned(more)) <= MaxCopies
    <3>1. Len(copies) \in Nat /\ MaxCopies \in Nat
      BY <1>1 DEF StoringLimits
    <3>2. CASE Len(more) > MaxCopies
      BY <1>1, <2>1, <2>2, <3>1, <3>2 DEF Storing!Pruned
    <3>3. CASE ~(Len(more) > MaxCopies)
      BY <2>1, <3>1, <3>3 DEF Storing!Pruned
    <3> QED BY <3>2, <3>3
  <2>4. copies' = Storing!Pruned(more) /\ pc = "copy" /\ pc' = "schema"
        /\ UNCHANGED <<db, json, starts, original, touched, gone, torn>>
    BY <1>3 DEF Storing!WriteCopy, Storing!history, more
  <2> QED BY <1>1, <2>3, <2>4, ProcessStep
<1>4. CASE Storing!LoadState
  <2>1. UNCHANGED <<db, json, copies, starts, original, touched, gone, torn>> /\ pc = "load"
        /\ pc' = IF Storing!StateEmpty /\ json.there THEN "import" ELSE "key"
    BY <1>4 DEF Storing!LoadState, Storing!history
  <2>2. CASE Storing!StateEmpty /\ json.there
    BY <1>1, <2>1, <2>2, ProcessStep DEF Storing!StateEmpty
  <2>3. CASE ~(Storing!StateEmpty /\ json.there)
    BY <1>1, <2>1, <2>3, ProcessStep DEF Unread
  <2> QED BY <2>2, <2>3
<1>5. CASE Storing!Crash
  <2>1. UNCHANGED <<db, json, copies, starts, original, touched, gone>> /\ pc' = "closed"
        /\ torn' = (torn \/ (pc = "distribute" /\ Storing!LegacyApps # {}))
    BY <1>5 DEF Storing!Crash
  <2>2. CASE torn' = torn
    <3>1. pc = "distribute" => torn \/ Settled
      <4> SUFFICES ASSUME pc = "distribute", ~torn PROVE Settled
        OBVIOUS
      <4>1. Storing!LegacyApps = {} /\ Imported /\ json.there /\ touched = {} /\ gone = {}
        BY <2>1, <2>2 DEF StoringInv, Owned, InTurn, StoringTypes
      <4>2. Storing!Has(db) = {} /\ db.rows = {}
        BY <4>1 DEF Imported, Storing!Has
      <4>3. Storing!ExpectedApps = {}
        BY <4>1 DEF Storing!ExpectedApps
      <4> QED BY <4>1, <4>2, <4>3 DEF Settled
    <3> QED BY <1>1, <2>1, <2>2, <3>1, ProcessStep
  <2>3. CASE torn'
    <3>1. StoringTypes'
      BY <2>1, <2>3 DEF StoringInv, StoringTypes
    <3>2. OriginalInOrder' /\ Unmoved' /\ Moved'
      <4>1. Storing!Homeless' = Storing!Homeless /\ OriginalInOrder'
        BY <2>1, OriginalStays DEF StoringInv
      <4> QED BY <2>1, <4>1 DEF StoringInv, Unmoved, Moved
    <3>3. InTurn' /\ Owned'
      BY <2>1, <2>3 DEF StoringInv, InTurn, Owned
    <3> QED BY <3>1, <3>2, <3>3 DEF StoringInv
  <2>4. torn' \in BOOLEAN /\ (torn => torn')
    BY <1>1, <2>1
  <2> QED BY <1>1, <2>2, <2>3, <2>4
<1> QED BY <1>2, <1>3, <1>4, <1>5

\* A step that changes only flags of the database.
LEMMA FlagStep ==
    ASSUME StoringInv, UNCHANGED <<json, copies, starts, original, touched, gone, torn>>,
           NEW flags \in [ver : BOOLEAN, tables : BOOLEAN, envs : SUBSET Storing!AllEnvironments,
                          scoped : BOOLEAN, key : BOOLEAN],
           db.envs \subseteq flags.envs, db.scoped => flags.scoped,
           db' = [db EXCEPT !.ver = flags.ver, !.tables = flags.tables, !.envs = flags.envs,
                            !.scoped = flags.scoped, !.key = flags.key],
           \/ pc = "schema" /\ pc' = "default" /\ flags.scoped /\ flags.key = db.key
           \/ pc = "default" /\ pc' = "scim" /\ flags.key = db.key
           \/ pc = "stamp" /\ pc' = "load" /\ flags.key = db.key
           \/ pc = "key" /\ pc' = "running" /\ flags.key
    PROVE  StoringInv'
<1>1. db \in Storing!Database
  BY DEF StoringInv, StoringTypes
<1>2. /\ db' \in Storing!Database
      /\ db'.owner = db.owner /\ db'.users = db.users /\ db'.rows = db.rows /\ db'.base = db.base
      /\ db'.moved = db.moved /\ db'.owned = db.owned
      /\ db'.envs = flags.envs /\ db'.scoped = flags.scoped /\ db'.key = flags.key
  BY <1>1 DEF Storing!Database
<1>3. StoringTypes'
  BY <1>2 DEF StoringInv, StoringTypes
<1>4. OriginalInOrder' /\ Storing!Homeless' = Storing!Homeless
  BY OriginalStays DEF StoringInv
<1>5. Storing!Has(db') = Storing!Has(db) /\ \A e : Storing!In(db', e) = Storing!In(db, e)
  BY <1>2 DEF Storing!Has, Storing!In
<1>6. Unmoved'
  BY <1>2 DEF StoringInv, Unmoved
<1>7. Moved'
  BY <1>2, <1>4, <1>5 DEF StoringInv, Moved
<1>8. Settled => Settled'
  <2> SUFFICES ASSUME Settled PROVE Settled'
    OBVIOUS
  <2>1. Storing!ExpectedApps' = Storing!ExpectedApps
        /\ \A a : Storing!Expected(a)' = Storing!Expected(a)
    BY OriginalStays
  <2> QED BY <1>2, <1>5, <2>1 DEF Settled
<1>9. pc # "key" => (Unread' <=> Unread)
  BY <1>2, <1>5 DEF Unread, Storing!StateEmpty
<1>10. Owned'
  BY <1>2, <1>8, <1>9 DEF StoringInv, Owned
<1>11. InTurn'
  BY <1>2 DEF StoringInv, InTurn
<1> QED BY <1>3, <1>4, <1>6, <1>7, <1>10, <1>11 DEF StoringInv

\* by the steps that create, stamp and sign,
LEMMA FlagSteps ==
    ASSUME StoringInv,
           \/ Storing!CreateSchema \/ Storing!MigrateDefaultEnvironment \/ Storing!Stamp
           \/ Storing!SaveSigningKey
    PROVE  StoringInv'
<1>0. db \in Storing!Database /\ Default \in Storing!AllEnvironments
  BY MigratedIs DEF StoringInv, StoringTypes
<1>1. /\ db.ver \in BOOLEAN /\ db.tables \in BOOLEAN /\ db.scoped \in BOOLEAN /\ db.key \in BOOLEAN
      /\ db.envs \in SUBSET Storing!AllEnvironments
  BY <1>0, DatabaseIs
<1> DEFINE flags(v, t, e, s, k) == [ver |-> v, tables |-> t, envs |-> e, scoped |-> s, key |-> k]
<1>2. CASE Storing!CreateSchema
  <2>1. db' = [db EXCEPT !.ver = db.ver, !.tables = TRUE, !.envs = db.envs, !.scoped = TRUE,
                         !.key = db.key]
    BY <1>0, <1>2 DEF Storing!CreateSchema, Storing!Database
  <2>2. flags(db.ver, TRUE, db.envs, TRUE, db.key)
          \in [ver : BOOLEAN, tables : BOOLEAN, envs : SUBSET Storing!AllEnvironments,
               scoped : BOOLEAN, key : BOOLEAN]
    BY <1>1
  <2> QED BY <1>2, <2>1, <2>2, FlagStep DEF Storing!CreateSchema, Storing!history
<1>3. CASE Storing!MigrateDefaultEnvironment
  <2>1. db' = [db EXCEPT !.ver = db.ver, !.tables = db.tables, !.envs = db.envs \cup {Default},
                         !.scoped = db.scoped, !.key = db.key]
    BY <1>0, <1>3 DEF Storing!MigrateDefaultEnvironment, Storing!Database
  <2>2. flags(db.ver, db.tables, db.envs \cup {Default}, db.scoped, db.key)
          \in [ver : BOOLEAN, tables : BOOLEAN, envs : SUBSET Storing!AllEnvironments,
               scoped : BOOLEAN, key : BOOLEAN]
    BY <1>0, <1>1
  <2> QED BY <1>3, <2>1, <2>2, FlagStep DEF Storing!MigrateDefaultEnvironment, Storing!history
<1>4. CASE Storing!Stamp
  <2>1. db' = [db EXCEPT !.ver = TRUE, !.tables = db.tables, !.envs = db.envs,
                         !.scoped = db.scoped, !.key = db.key]
    BY <1>0, <1>4 DEF Storing!Stamp, Storing!Database
  <2>2. flags(TRUE, db.tables, db.envs, db.scoped, db.key)
          \in [ver : BOOLEAN, tables : BOOLEAN, envs : SUBSET Storing!AllEnvironments,
               scoped : BOOLEAN, key : BOOLEAN]
    BY <1>1
  <2> QED BY <1>4, <2>1, <2>2, FlagStep DEF Storing!Stamp, Storing!history
<1>5. CASE Storing!SaveSigningKey
  <2>1. db' = [db EXCEPT !.ver = db.ver, !.tables = db.tables, !.envs = db.envs,
                         !.scoped = db.scoped, !.key = TRUE]
    BY <1>0, <1>5 DEF Storing!SaveSigningKey, Storing!Database
  <2>2. flags(db.ver, db.tables, db.envs, db.scoped, TRUE)
          \in [ver : BOOLEAN, tables : BOOLEAN, envs : SUBSET Storing!AllEnvironments,
               scoped : BOOLEAN, key : BOOLEAN]
    BY <1>1
  <2> QED BY <1>5, <2>1, <2>2, FlagStep DEF Storing!SaveSigningKey, Storing!history
<1> QED BY <1>2, <1>3, <1>4, <1>5

\* by the first migration of data,
LEMMA MoveStep ==
    ASSUME StoringLimits, StoringInv, Storing!MigrateEnvironmentSCIMToApps PROVE StoringInv'
<1>1. /\ pc = "scim" /\ pc' = "own" /\ db.scoped
      /\ UNCHANGED <<json, copies, starts, original, touched, gone, torn>>
  BY DEF Storing!MigrateEnvironmentSCIMToApps, Storing!history, StoringInv, InTurn
<1>2. OriginalInOrder' /\ OriginalInOrder /\ Storing!Homeless' = Storing!Homeless
  BY <1>1, OriginalStays DEF StoringInv
<1>3. db \in Storing!Database
  BY DEF StoringInv, StoringTypes
<1>4. CASE db.moved
  <2>1. db' = db
    BY <1>4 DEF Storing!MigrateEnvironmentSCIMToApps
  <2>2. StoringTypes' /\ Unmoved' /\ InTurn'
    BY <1>1, <1>4, <2>1 DEF StoringInv, StoringTypes, Unmoved, InTurn
  <2>3. Moved'
    BY <1>1, <1>2, <2>1 DEF StoringInv, Moved
  <2>4. Settled => Settled'
    BY <1>1, <2>1, DirectoryStays
  <2>5. Unread' <=> Unread
    BY <1>1, <2>1 DEF Unread, Storing!StateEmpty, Storing!Has, Storing!In
  <2>6. Owned'
    BY <1>1, <2>1, <2>4, <2>5 DEF StoringInv, Owned
  <2> QED BY <1>2, <2>2, <2>3, <2>6 DEF StoringInv
<1>5. CASE ~db.moved
  <2> DEFINE homeless == {e \in db.base \cap db.envs : \A a \in Storing!Has(db) : db.owner[a] # e}
             apps == {Storing!Migrated(e) : e \in homeless}
             owner == [a \in Storing!Has(db) \cup apps |->
                          IF a \in Storing!Has(db) THEN db.owner[a]
                          ELSE CHOOSE e \in homeless : a = Storing!Migrated(e)]
             scim == {a \in DOMAIN owner : owner[a] \in db.base}
             rows == db.rows \cup (scim \X {p[2] : p \in db.users})
  <2>1. db' = [db EXCEPT !.owner = owner, !.scim = scim, !.rows = rows, !.moved = TRUE]
    BY <1>5 DEF Storing!MigrateEnvironmentSCIMToApps, Storing!SCIMToApps
  <2>2. /\ db.owner = original.owner /\ db.users = original.users /\ db.base = original.base
        /\ original.envs \subseteq db.envs /\ db.rows = {} /\ ~db.owned
    BY <1>5 DEF StoringInv, Unmoved
  <2>3. homeless = Storing!Homeless /\ Storing!Homeless \subseteq Olds
    BY <1>2, <2>2 DEF Storing!Homeless, Storing!Has, OriginalInOrder
  <2>4. Storing!Has(db) = Storing!Has(original) /\ Storing!Has(db) \subseteq Things
        /\ \A a \in Storing!Has(db) : db.owner[a] \in Olds
    BY <1>2, <2>2 DEF Storing!Has, OriginalInOrder
  <2>5. apps \subseteq Storing!AllApps /\ apps \cap Things = {}
    BY <2>3, MigratedIs DEF StoringLimits
  <2>6. \A e \in homeless : owner[Storing!Migrated(e)] = e
    <3> SUFFICES ASSUME NEW e \in homeless PROVE owner[Storing!Migrated(e)] = e
      OBVIOUS
    <3>1. Storing!Migrated(e) \in apps /\ Storing!Migrated(e) \notin Storing!Has(db)
      BY <2>4, <2>5
    <3>2. (CHOOSE f \in homeless : Storing!Migrated(e) = Storing!Migrated(f)) = e
      BY MigratedIs
    <3> QED BY <3>1, <3>2
  <2>7. \A a \in Storing!Has(db) : owner[a] = db.owner[a]
    OBVIOUS
  <2>8. DOMAIN owner = Storing!Has(db) \cup apps
    OBVIOUS
  <2>9. owner \in [Storing!Has(db) \cup apps -> Storing!AllEnvironments]
    <3>1. \A a \in Storing!Has(db) \cup apps : owner[a] \in Storing!AllEnvironments
      BY <2>3, <2>4, <2>6, <2>7, MigratedIs
    <3> QED BY <3>1
  <2>10. owner \in Owners
    <3>1. Storing!Has(db) \cup apps \in SUBSET Storing!AllApps
      BY <2>4, <2>5, MigratedIs
    <3> QED BY <2>9, <3>1, OwnersAre
  <2>11. scim \in SUBSET Storing!AllApps /\ scim \subseteq Storing!Has(db) \cup apps
    BY <2>4, <2>5, <2>8, MigratedIs
  <2>12. \A p \in db.users : p[2] \in Users
    BY <1>3, DatabaseIs
  <2>13. rows \subseteq (Storing!Has(db) \cup apps) \X Users
         /\ rows \in SUBSET (Storing!AllApps \X Users)
    BY <2>2, <2>11, <2>12
  <2> HIDE DEF owner, scim, rows
  <2>14. /\ db' \in Storing!Database
         /\ db'.owner = owner /\ db'.users = db.users /\ db'.rows = rows /\ db'.moved
         /\ db'.owned = db.owned /\ db'.scoped = db.scoped /\ db'.key = db.key
    BY <1>3, <2>1, <2>10, <2>11, <2>13 DEF Storing!Database, Owners
  <2>15. Storing!Has(db') = Storing!Has(original) \cup {Storing!Migrated(e) : e \in Storing!Homeless}
    BY <2>3, <2>4, <2>8, <2>14 DEF Storing!Has
  <2>16. StoringTypes' /\ Unmoved' /\ Owned' /\ InTurn'
    BY <1>1, <2>2, <2>14 DEF StoringInv, StoringTypes, Unmoved, Owned, InTurn
  <2>17. Moved'
    BY <1>1, <1>2, <2>2, <2>3, <2>4, <2>6, <2>7, <2>13, <2>14, <2>15 DEF Moved
  <2> QED BY <1>2, <2>16, <2>17 DEF StoringInv
<1> QED BY <1>4, <1>5

\* What distributing the directories to the apps makes of a database.
LEMMA DistributedIs ==
    ASSUME NEW d \in Storing!Database, d.scoped
    PROVE  LET r == Storing!Distributed(d) IN
           /\ r \in Storing!Database /\ Storing!Has(r) = Storing!Has(d)
           /\ \A a \in Storing!Has(d) : r.owner[a] = a /\ a \in r.envs
           /\ \A a \in Storing!Has(d) :
                 Storing!In(r, a) = Storing!In(d, a) \cup Storing!In(d, d.owner[a])
           /\ r.rows \subseteq r.users
           /\ r.moved = d.moved /\ r.scoped /\ r.key = d.key
<1> DEFINE users == {p \in d.users \cup Storing!Copied(d) : p[1] \in Storing!Has(d)}
           owner == [a \in Storing!Has(d) |-> a]
           envs == {Default} \cup Storing!Has(d)
           rows == d.rows \cap users
<1>1. Storing!Distributed(d)
        = [d EXCEPT !.users = users, !.owner = owner, !.envs = envs, !.rows = rows]
  BY DEF Storing!Distributed
<1>2. /\ Storing!Has(d) \subseteq Storing!AllApps /\ Storing!Has(d) \subseteq Storing!AllEnvironments
      /\ d.users \in SUBSET (Storing!AllEnvironments \X Users)
      /\ d.rows \in SUBSET (Storing!AllApps \X Users)
  BY DatabaseIs, MigratedIs
<1>3. owner \in Owners
  <2>1. owner \in [Storing!Has(d) -> Storing!AllEnvironments]
    BY <1>2
  <2> QED BY <1>2, <2>1, OwnersAre
<1>4. users \in SUBSET (Storing!AllEnvironments \X Users)
      /\ \A p \in users : p[1] \in Storing!Has(d) /\ p[2] \in Users
  <2>1. Storing!Copied(d) \subseteq Storing!Has(d) \X Users
    BY DEF Storing!Copied
  <2> QED BY <1>2, <2>1
<1>5. ASSUME NEW a \in Storing!Has(d), NEW u \in Users
      PROVE  <<a, u>> \in users
               <=> <<a, u>> \in d.users \/ <<d.owner[a], u>> \in d.users
  BY <1>5 DEF Storing!Copied, Storing!In
<1>6. envs \in SUBSET Storing!AllEnvironments /\ Storing!Has(d) \subseteq envs
  BY <1>2, MigratedIs
<1>7. DOMAIN owner = Storing!Has(d) /\ \A a \in Storing!Has(d) : owner[a] = a
  OBVIOUS
<1>8. rows \in SUBSET (Storing!AllApps \X Users) /\ rows \subseteq users
  BY <1>2
<1> HIDE DEF users, owner, envs, rows
<1> DEFINE r == Storing!Distributed(d)
<1>9. /\ r \in Storing!Database
      /\ r.users = users /\ r.owner = owner /\ r.envs = envs /\ r.rows = rows
      /\ r.moved = d.moved /\ r.scoped = d.scoped /\ r.key = d.key
  BY <1>1, <1>3, <1>4, <1>6, <1>8 DEF Storing!Database, Owners
<1>10. Storing!Has(r) = Storing!Has(d)
  BY <1>7, <1>9 DEF Storing!Has
<1>11. \A a \in Storing!Has(d) :
          Storing!In(r, a) = Storing!In(d, a) \cup Storing!In(d, d.owner[a])
  BY <1>5, <1>9 DEF Storing!In
<1> QED BY <1>6, <1>7, <1>8, <1>9, <1>10, <1>11

\* by the second migration of data,
LEMMA OwnStep ==
    ASSUME StoringLimits, StoringInv, Storing!MigrateDirectoryOwnershipToApps PROVE StoringInv'
<1>1. /\ pc = "own" /\ pc' = "stamp" /\ db.scoped /\ db.moved
      /\ UNCHANGED <<json, copies, starts, original, touched, gone, torn>>
  BY DEF Storing!MigrateDirectoryOwnershipToApps, Storing!history, StoringInv, InTurn
<1>2. /\ OriginalInOrder' /\ OriginalInOrder /\ Storing!Homeless' = Storing!Homeless
      /\ Storing!ExpectedApps' = Storing!ExpectedApps
      /\ \A a : Storing!Expected(a)' = Storing!Expected(a)
  BY <1>1, OriginalStays DEF StoringInv
<1>3. db \in Storing!Database
  BY DEF StoringInv, StoringTypes
<1>4. CASE db.owned
  <2>1. db' = db
    BY <1>4 DEF Storing!MigrateDirectoryOwnershipToApps
  <2>2. StoringTypes' /\ Unmoved' /\ InTurn'
    BY <1>1, <1>4, <2>1 DEF StoringInv, StoringTypes, Unmoved, InTurn
  <2>3. Moved'
    BY <1>1, <1>2, <2>1 DEF StoringInv, Moved
  <2>4. Settled => Settled'
    BY <1>1, <2>1, DirectoryStays
  <2>5. Unread' <=> Unread
    BY <1>1, <2>1 DEF Unread, Storing!StateEmpty, Storing!Has, Storing!In
  <2>6. Owned'
    BY <1>1, <2>1, <2>4, <2>5 DEF StoringInv, Owned
  <2> QED BY <1>2, <2>2, <2>3, <2>6 DEF StoringInv
<1>5. CASE ~db.owned
  <2>1. /\ Storing!Has(db) = Storing!Has(original) \cup {Storing!Migrated(e) : e \in Storing!Homeless}
        /\ \A a \in Storing!Has(original) : db.owner[a] = original.owner[a]
        /\ \A e \in Storing!Homeless : db.owner[Storing!Migrated(e)] = e
        /\ db.users = original.users /\ db.rows \subseteq Storing!Has(db) \X Users
    BY <1>1, <1>5 DEF StoringInv, Moved
  <2>2. touched = {} /\ gone = {} /\ (json.there => ~db.key)
    BY <1>1, <1>5 DEF StoringInv, InTurn, StoringTypes
  <2>3. Storing!Homeless \subseteq Olds /\ (json.there => Storing!Homeless = {})
    BY <1>2 DEF Storing!Homeless, OriginalInOrder
  <2>4. json.there => Storing!Has(db) = {} /\ db.users = {}
    BY <1>2, <2>1, <2>3 DEF OriginalInOrder
  <2>5. \A a \in Storing!Has(db) : a \notin Olds
    BY <1>2, <2>1, <2>3 DEF OriginalInOrder, StoringLimits
  <2>6. \A e : e \notin Olds => Storing!In(db, e) = {}
    BY <1>2, <2>1 DEF OriginalInOrder, Storing!In
  <2> DEFINE made == Storing!WithApp(db, TRUE)
             moved == IF Storing!Has(made) = {} THEN made ELSE Storing!Distributed(made)
  <2>7. db' = [moved EXCEPT !.owned = TRUE]
    <3>1. \A b : (b \/ TRUE) = TRUE
      OBVIOUS
    <3> QED BY <1>5, <3>1 DEF Storing!MigrateDirectoryOwnershipToApps, Storing!Distribute
  <2>8. ASSUME moved \in Storing!Database
        PROVE  /\ db' \in Storing!Database /\ db'.owned
               /\ db'.owner = moved.owner /\ db'.users = moved.users /\ db'.rows = moved.rows
               /\ db'.envs = moved.envs /\ db'.moved = moved.moved /\ db'.scoped = moved.scoped
               /\ db'.key = moved.key
    <3> HIDE DEF moved
    <3> QED BY <2>7, <2>8 DEF Storing!Database
  <2>9. ASSUME db' \in Storing!Database, db'.owned, db'.moved, db'.scoped, db'.key = db.key,
               Settled' \/ Unread'
        PROVE  StoringInv'
    <3>1. StoringTypes' /\ Unmoved' /\ Moved' /\ Owned' /\ InTurn'
      BY <1>1, <2>2, <2>9 DEF StoringInv, StoringTypes, Unmoved, Moved, Owned, InTurn
    <3> QED BY <1>2, <3>1 DEF StoringInv
  <2>10. CASE Storing!Has(db) # {}
    <3>1. made = db /\ moved = Storing!Distributed(db) /\ ~json.there
      BY <2>4, <2>10 DEF Storing!WithApp
    <3> HIDE DEF moved, made
    <3>2. /\ moved \in Storing!Database /\ Storing!Has(moved) = Storing!Has(db)
          /\ \A a \in Storing!Has(db) : moved.owner[a] = a /\ a \in moved.envs
          /\ \A a \in Storing!Has(db) :
                Storing!In(moved, a) = Storing!In(db, a) \cup Storing!In(db, db.owner[a])
          /\ moved.rows \subseteq moved.users
          /\ moved.moved /\ moved.scoped /\ moved.key = db.key
      BY <1>1, <1>3, <3>1, DistributedIs
    <3>3. Storing!Has(db') = Storing!Has(db) /\ \A a : Storing!In(db', a) = Storing!In(moved, a)
      BY <2>8, <3>2 DEF Storing!Has, Storing!In
    <3>4. Storing!ExpectedApps = Storing!Has(db)
      BY <2>1, <2>10, <3>1 DEF Storing!ExpectedApps
    <3>5. ASSUME NEW a \in Storing!Has(db)
          PROVE  Storing!In(moved, a) = Storing!Expected(a)
      <4>1. Storing!In(moved, a) = Storing!In(original, db.owner[a])
        BY <2>1, <2>5, <2>6, <3>2, <3>5 DEF Storing!In
      <4>2. CASE a \in Storing!Has(original)
        BY <2>1, <3>1, <4>1, <4>2 DEF Storing!Expected
      <4>3. CASE a \notin Storing!Has(original)
        <5>1. PICK e \in Storing!Homeless : a = Storing!Migrated(e)
          BY <2>1, <3>5, <4>3
        <5>2. \A f \in Storing!Homeless \cup {Default} :
                  a = Storing!Migrated(f) \/ a = f <=> f = e
          BY <2>3, <2>5, <3>5, <5>1, MigratedIs DEF Olds
        <5>3. {f \in Storing!Homeless \cup {Default} : a = Storing!Migrated(f) \/ a = f} = {e}
          BY <5>2
        <5>4. Storing!Expected(a) = UNION {Storing!In(original, f) : f \in {e}}
          BY <3>1, <4>3, <5>3 DEF Storing!Expected
        <5>5. UNION {Storing!In(original, f) : f \in {e}} = Storing!In(original, e)
          OBVIOUS
        <5> QED BY <2>1, <4>1, <5>1, <5>4, <5>5
      <4> QED BY <4>2, <4>3
    <3>6. Settled'
      BY <1>1, <1>2, <2>2, <2>8, <3>2, <3>3, <3>4, <3>5 DEF Settled
    <3> QED BY <2>8, <2>9, <3>2, <3>6
  <2>11. CASE Storing!Has(db) = {} /\ db.users # {}
    <3>1. made = [db EXCEPT !.owner = Storing!Owning(db, {Default}, Default)] /\ ~json.there
      BY <2>4, <2>11 DEF Storing!WithApp
    <3>2. Storing!Owning(db, {Default}, Default) = [a \in {Default} |-> Default]
      BY <2>11 DEF Storing!Owning
    <3>3. [a \in {Default} |-> Default] \in Owners
      <4>1. /\ [a \in {Default} |-> Default] \in [{Default} -> Storing!AllEnvironments]
            /\ {Default} \in SUBSET Storing!AllApps
        BY MigratedIs
      <4> QED BY <4>1, OwnersAre
    <3> HIDE DEF made
    <3>4. /\ made \in Storing!Database /\ made.owner = [a \in {Default} |-> Default]
          /\ made.users = db.users /\ made.moved = db.moved /\ made.scoped = db.scoped
          /\ made.key = db.key
      BY <1>3, <3>1, <3>2, <3>3 DEF Storing!Database, Owners
    <3>5. /\ Storing!Has(made) = {Default} /\ made.owner[Default] = Default
          /\ Storing!In(made, Default) = Storing!In(db, Default)
      BY <3>4 DEF Storing!Has, Storing!In
    <3>6. moved = Storing!Distributed(made)
      BY <3>5
    <3> HIDE DEF moved
    <3>7. /\ moved \in Storing!Database /\ Storing!Has(moved) = {Default}
          /\ moved.owner[Default] = Default /\ Default \in moved.envs
          /\ Storing!In(moved, Default) = Storing!In(db, Default)
          /\ moved.rows \subseteq moved.users
          /\ moved.moved /\ moved.scoped /\ moved.key = db.key
      <4> DEFINE r == Storing!Distributed(made)
      <4>1. made \in Storing!Database /\ made.scoped
        BY <1>1, <3>4
      <4>2. /\ r \in Storing!Database /\ Storing!Has(r) = Storing!Has(made)
            /\ \A a \in Storing!Has(made) : r.owner[a] = a /\ a \in r.envs
            /\ \A a \in Storing!Has(made) :
                  Storing!In(r, a) = Storing!In(made, a) \cup Storing!In(made, made.owner[a])
            /\ r.rows \subseteq r.users
            /\ r.moved = made.moved /\ r.scoped /\ r.key = made.key
        BY <4>1, DistributedIs
      <4>3. moved = r
        BY <3>6
      <4> HIDE DEF r
      <4>4. Default \in Storing!Has(made)
        BY <3>5
      <4>5. Storing!In(r, Default) = Storing!In(db, Default)
        BY <3>5, <4>2, <4>4
      <4> QED BY <1>1, <3>4, <3>5, <4>2, <4>3, <4>4, <4>5
    <3>8. Storing!Has(db') = {Default} /\ Storing!In(db', Default) = Storing!In(db, Default)
      BY <2>8, <3>7 DEF Storing!Has, Storing!In
    <3>9. Storing!Homeless = {} /\ Storing!Has(original) = {}
      BY <2>1, <2>11
    <3>10. Storing!ExpectedApps = {Default}
      BY <2>1, <2>11, <3>1, <3>9 DEF Storing!ExpectedApps
    <3>11. Storing!Expected(Default) = Storing!In(db, Default)
      <4>1. {f \in Storing!Homeless \cup {Default} : Default = Storing!Migrated(f) \/ Default = f}
              = {Default}
        BY <3>9
      <4>2. Storing!Expected(Default) = UNION {Storing!In(original, f) : f \in {Default}}
        BY <3>1, <3>9, <4>1 DEF Storing!Expected
      <4>3. UNION {Storing!In(original, f) : f \in {Default}} = Storing!In(original, Default)
        OBVIOUS
      <4> QED BY <2>1, <4>2, <4>3 DEF Storing!In
    <3>12. Settled'
      BY <1>1, <1>2, <2>2, <2>8, <3>7, <3>8, <3>10, <3>11 DEF Settled
    <3> QED BY <2>8, <2>9, <3>7, <3>12
  <2>12. CASE Storing!Has(db) = {} /\ db.users = {}
    <3>1. moved = db
      BY <2>12 DEF Storing!WithApp
    <3> HIDE DEF moved
    <3>2. Storing!Has(db') = {} /\ db'.users = {} /\ db'.rows = {} /\ db'.key = db.key
      BY <1>3, <2>1, <2>8, <2>12, <3>1 DEF Storing!Has
    <3>3. json.there => Unread'
      BY <1>1, <2>2, <3>2 DEF Unread, Storing!StateEmpty, Storing!In
    <3>4. ~json.there => Settled'
      <4> SUFFICES ASSUME ~json.there PROVE Settled'
        OBVIOUS
      <4>1. Storing!Homeless = {} /\ Storing!Has(original) = {} /\ original.users = {}
        BY <2>1, <2>12
      <4>2. Storing!ExpectedApps = {}
        BY <4>1 DEF Storing!ExpectedApps
      <4> QED BY <1>1, <1>2, <2>2, <3>2, <4>2 DEF Settled
    <3> QED BY <1>1, <1>3, <2>8, <2>9, <3>1, <3>3, <3>4
  <2> QED BY <2>10, <2>11, <2>12
<1> QED BY <1>4, <1>5

\* by the import of the JSON file,
LEMMA ImportStep ==
    ASSUME StoringLimits, StoringInv, Storing!Import PROVE StoringInv'
<1>1. /\ pc = "import" /\ pc' = "distribute"
      /\ db.scoped /\ db.moved /\ db.owned /\ json.there /\ ~db.key /\ touched = {}
      /\ UNCHANGED <<json, copies, starts, original, touched, gone, torn>>
  BY DEF Storing!Import, Storing!history, StoringInv, InTurn
<1>2. OriginalInOrder' /\ Storing!LegacyApps' = Storing!LegacyApps
  BY <1>1, OriginalStays DEF StoringInv
<1>3. /\ db \in Storing!Database /\ json.users \in SUBSET Users
      /\ Storing!LegacyApps \in SUBSET Storing!AllApps
  BY MigratedIs DEF StoringInv, StoringTypes, Storing!LegacyApps, Olds
<1> DEFINE scim == IF json.base THEN Storing!LegacyApps ELSE {}
           owner == [a \in Storing!LegacyApps |-> Default]
           users == {Default} \X json.users
           rows == scim \X json.users
<1>4. db' = [db EXCEPT !.owner = owner, !.envs = {Default}, !.users = users, !.scim = scim,
                       !.rows = rows, !.base = {}, !.moved = TRUE]
  BY DEF Storing!Import
<1>5. owner \in Owners
  <2>1. owner \in [Storing!LegacyApps -> Storing!AllEnvironments]
    BY MigratedIs
  <2> QED BY <1>3, <2>1, OwnersAre
<1>6. /\ {Default} \in SUBSET Storing!AllEnvironments
      /\ users \in SUBSET (Storing!AllEnvironments \X Users)
      /\ scim \in SUBSET Storing!AllApps /\ rows \in SUBSET (Storing!AllApps \X Users)
      /\ rows \subseteq Storing!LegacyApps \X Users
  BY <1>3, MigratedIs
<1> HIDE DEF scim, owner, users, rows
<1>7. /\ db' \in Storing!Database
      /\ db'.owner = owner /\ db'.users = users /\ db'.rows = rows /\ db'.moved
      /\ db'.owned = db.owned /\ db'.scoped = db.scoped /\ db'.key = db.key
  BY <1>3, <1>4, <1>5, <1>6 DEF Storing!Database, Owners
<1>8. Imported'
  BY <1>1, <1>2, <1>6, <1>7 DEF Imported, owner, users
<1>9. StoringTypes' /\ Unmoved' /\ Moved' /\ Owned' /\ InTurn'
  BY <1>1, <1>7, <1>8 DEF StoringInv, StoringTypes, Unmoved, Moved, Owned, InTurn
<1> QED BY <1>2, <1>9 DEF StoringInv

\* and by its distribution,
LEMMA DistributeImportStep ==
    ASSUME StoringLimits, StoringInv, Storing!DistributeImport PROVE StoringInv'
<1>1. /\ pc = "distribute" /\ pc' = "key"
      /\ db.scoped /\ db.moved /\ db.owned /\ json.there /\ ~db.key /\ touched = {} /\ gone = {}
      /\ UNCHANGED <<json, copies, starts, original, touched, gone, torn>>
  BY DEF Storing!DistributeImport, Storing!history, StoringInv, InTurn, StoringTypes
<1>2. /\ OriginalInOrder' /\ Storing!ExpectedApps' = Storing!ExpectedApps
      /\ \A a : Storing!Expected(a)' = Storing!Expected(a)
  BY <1>1, OriginalStays DEF StoringInv
<1>3. db \in Storing!Database /\ json.users \in SUBSET Users
  BY DEF StoringInv, StoringTypes
<1> DEFINE moved == IF Storing!Has(db) = {} THEN db ELSE Storing!Distributed(db)
<1>4. db' = [moved EXCEPT !.owned = @ \/ FALSE]
  BY DEF Storing!DistributeImport, Storing!Distribute, Storing!WithApp
<1>5. /\ moved \in Storing!Database /\ moved.moved /\ moved.scoped /\ moved.key = db.key
      /\ moved.owned = db.owned
  <2>1. CASE Storing!Has(db) = {}
    BY <1>1, <1>3, <2>1
  <2>2. CASE Storing!Has(db) # {}
    <3>1. moved = Storing!Distributed(db)
      BY <2>2
    <3>2. Storing!Distributed(db).owned = db.owned
      BY <1>3 DEF Storing!Distributed, Storing!Database
    <3> QED BY <1>1, <1>3, <3>1, <3>2, DistributedIs
  <2> QED BY <2>1, <2>2
<1>6. /\ db' \in Storing!Database /\ db'.owned
      /\ db'.owner = moved.owner /\ db'.users = moved.users /\ db'.rows = moved.rows
      /\ db'.envs = moved.envs /\ db'.moved = moved.moved /\ db'.scoped = moved.scoped
      /\ db'.key = moved.key
  <2> HIDE DEF moved
  <2> QED BY <1>1, <1>4, <1>5 DEF Storing!Database
<1>7. ~torn => Settled'
  <2> SUFFICES ASSUME ~torn PROVE Settled'
    OBVIOUS
  <2>1. Imported
    BY <1>1 DEF StoringInv, Owned
  <2>2. Storing!Has(db) = Storing!LegacyApps /\ \A a \in Storing!Has(db) : db.owner[a] = Default
    BY <2>1 DEF Imported, Storing!Has
  <2>3. Storing!ExpectedApps = Storing!LegacyApps /\ \A a : Storing!Expected(a) = json.users
    BY <1>1 DEF Storing!ExpectedApps, Storing!Expected
  <2>4. Storing!In(db, Default) = json.users /\ \A a : Storing!In(db, a) \subseteq json.users
    BY <1>3, <2>1 DEF Imported, Storing!In
  <2>5. /\ Storing!Has(moved) = Storing!Has(db)
        /\ \A a \in Storing!Has(db) : moved.owner[a] = a /\ a \in moved.envs
        /\ \A a \in Storing!Has(db) : Storing!In(moved, a) = json.users
        /\ moved.rows \subseteq moved.users
    <3>1. CASE Storing!Has(db) = {}
      BY <2>1, <2>2, <3>1 DEF Imported
    <3>2. CASE Storing!Has(db) # {}
      <4>1. moved = Storing!Distributed(db)
        BY <3>2
      <4> HIDE DEF moved
      <4>2. \A a \in Storing!Has(db) :
               Storing!In(moved, a) = Storing!In(db, a) \cup Storing!In(db, Default)
        BY <1>1, <1>3, <2>2, <4>1, DistributedIs
      <4>3. \A a \in Storing!Has(db) : Storing!In(moved, a) = json.users
        BY <2>4, <4>2
      <4> QED BY <1>1, <1>3, <4>1, <4>3, DistributedIs
    <3> QED BY <3>1, <3>2
  <2>6. Storing!Has(db') = Storing!Has(moved) /\ \A a : Storing!In(db', a) = Storing!In(moved, a)
    BY <1>6 DEF Storing!Has, Storing!In
  <2> HIDE DEF moved
  <2> QED BY <1>1, <1>2, <1>6, <2>2, <2>3, <2>5, <2>6 DEF Settled
<1> HIDE DEF moved
<1>8. StoringTypes' /\ Unmoved' /\ Moved' /\ Owned' /\ InTurn'
  BY <1>1, <1>5, <1>6, <1>7 DEF StoringInv, StoringTypes, Unmoved, Moved, Owned, InTurn
<1> QED BY <1>2, <1>8 DEF StoringInv

\* A request of a user: what is left of the environments it did not name.
LEMMA EditStep ==
    ASSUME StoringInv, pc = "running", pc' = pc,
           UNCHANGED <<json, copies, starts, original, torn>>,
           NEW a \in Storing!AllApps, touched' = touched \cup {a}, gone' \subseteq touched',
           db' \in Storing!Database,
           db'.moved = db.moved, db'.owned = db.owned, db'.scoped = db.scoped, db'.key = db.key,
           Storing!Has(db') \ {a} = Storing!Has(db) \ {a}, gone' \ {a} = gone \ {a},
           a \in Storing!Has(db') => db'.owner[a] = a /\ a \in db'.envs /\ a \notin gone',
           \A b \in Storing!Has(db) \ {a} :
               db'.owner[b] = db.owner[b] /\ (b \in db.envs => b \in db'.envs),
           \A b \in Storing!Has(db) \ {a} : Storing!In(db', b) = Storing!In(db, b),
           db.rows \subseteq db.users => db'.rows \subseteq db'.users
    PROVE  StoringInv'
<1>1. db.moved /\ db.owned /\ db.key /\ db.scoped
  BY DEF StoringInv, InTurn
<1>2. /\ OriginalInOrder' /\ Storing!ExpectedApps' = Storing!ExpectedApps
      /\ \A b : Storing!Expected(b)' = Storing!Expected(b)
  BY OriginalStays DEF StoringInv
<1>3. Settled => Settled'
  <2> SUFFICES ASSUME Settled PROVE Settled'
    OBVIOUS
  <2>1. \A b \in Storing!Has(db') : db'.owner[b] = b /\ b \in db'.envs
    BY DEF Settled
  <2>2. Storing!Has(db') \cap gone' = {}
    BY DEF Settled
  <2>3. Storing!Has(db') \ touched' = Storing!ExpectedApps \ touched'
    BY DEF Settled
  <2>4. \A b \in Storing!Has(db') \ touched' : Storing!In(db', b) = Storing!Expected(b)
    BY DEF Settled
  <2> QED BY <1>2, <2>1, <2>2, <2>3, <2>4 DEF Settled
<1>4. torn \/ Settled
  BY <1>1 DEF StoringInv, Owned
<1>5. StoringTypes' /\ Unmoved' /\ Moved' /\ InTurn'
  BY <1>1 DEF StoringInv, StoringTypes, Unmoved, Moved, InTurn
<1>6. Owned'
  BY <1>3, <1>4 DEF Owned
<1> QED BY <1>2, <1>5, <1>6 DEF StoringInv

\* by a saved environment,
LEMMA SaveStep ==
    ASSUME StoringInv, NEW a \in Storing!AllApps, NEW us \in SUBSET Users, NEW scim \in BOOLEAN,
           Storing!SaveEnvironment(a, us, scim)
    PROVE  StoringInv'
<1>1. /\ pc = "running" /\ pc' = pc /\ touched' = touched \cup {a} /\ gone' = gone \ {a}
      /\ UNCHANGED <<json, copies, starts, original, torn>>
  BY DEF Storing!SaveEnvironment
<1>2. db \in Storing!Database /\ gone \subseteq touched
  BY DEF StoringInv, StoringTypes
<1> DEFINE envs == db.envs \cup {a}
           owner == Storing!Owning(db, {a}, a)
           users == {p \in db.users : p[1] # a} \cup ({a} \X us)
           apps == IF scim THEN db.scim \cup {a} ELSE db.scim \ {a}
           rows == {p \in db.rows : p[1] # a \/ p[2] \in us} \cup (IF scim THEN {a} \X us ELSE {})
<1>3. db' = [db EXCEPT !.envs = envs, !.owner = owner, !.users = users, !.scim = apps,
                       !.rows = rows]
  BY DEF Storing!SaveEnvironment
<1>4. /\ a \in Storing!AllEnvironments /\ Storing!Has(db) \subseteq Storing!AllApps
      /\ \A b \in Storing!Has(db) : db.owner[b] \in Storing!AllEnvironments
      /\ db.envs \in SUBSET Storing!AllEnvironments
      /\ db.users \in SUBSET (Storing!AllEnvironments \X Users)
      /\ db.scim \in SUBSET Storing!AllApps
      /\ db.rows \in SUBSET (Storing!AllApps \X Users)
  BY <1>2, DatabaseIs, MigratedIs
<1>5. /\ owner = [b \in Storing!Has(db) \cup {a} |-> IF b = a THEN a ELSE db.owner[b]]
      /\ owner \in [Storing!Has(db) \cup {a} -> Storing!AllEnvironments]
  BY <1>4 DEF Storing!Owning
<1>6. owner \in Owners
  <2>1. Storing!Has(db) \cup {a} \in SUBSET Storing!AllApps
    BY <1>4
  <2> QED BY <1>5, <2>1, OwnersAre
<1>7. /\ envs \in SUBSET Storing!AllEnvironments
      /\ users \in SUBSET (Storing!AllEnvironments \X Users)
      /\ apps \in SUBSET Storing!AllApps
      /\ rows \in SUBSET (Storing!AllApps \X Users)
  BY <1>4
<1>8. ASSUME db.rows \subseteq db.users
      PROVE  rows \subseteq users
  <2>1. ASSUME NEW p \in db.rows, p[1] = a, p[2] \in us
        PROVE  p \in {a} \X us
    BY <1>4, <2>1
  <2>2. \A p \in db.rows : p[1] # a => p \in users
    BY <1>8
  <2> QED BY <2>1, <2>2
<1>9. \A b : b # a => \A u : <<b, u>> \in users <=> <<b, u>> \in db.users
  OBVIOUS
<1> HIDE DEF owner, users, apps, rows
<1>10. /\ db' \in Storing!Database
       /\ db'.owner = owner /\ db'.users = users /\ db'.rows = rows /\ db'.envs = envs
       /\ db'.moved = db.moved /\ db'.owned = db.owned /\ db'.scoped = db.scoped
       /\ db'.key = db.key
  BY <1>2, <1>3, <1>6, <1>7 DEF Storing!Database, Owners
<1>11. /\ Storing!Has(db') = Storing!Has(db) \cup {a}
       /\ \A b \in Storing!Has(db) \ {a} : db'.owner[b] = db.owner[b]
       /\ db'.owner[a] = a
  BY <1>5, <1>10 DEF Storing!Has
<1>12. \A b \in Storing!Has(db) \ {a} : Storing!In(db', b) = Storing!In(db, b)
  BY <1>9, <1>10 DEF Storing!In
<1>13. gone' \subseteq touched' /\ gone' \ {a} = gone \ {a} /\ a \notin gone'
  BY <1>1, <1>2
<1>14. a \in db'.envs /\ \A b \in db.envs : b \in db'.envs
  BY <1>10
<1>15. Storing!Has(db') \ {a} = Storing!Has(db) \ {a}
  BY <1>11
<1>16. db.rows \subseteq db.users => db'.rows \subseteq db'.users
  BY <1>8, <1>10
<1> HIDE DEF envs
<1>17. a \in Storing!Has(db') => db'.owner[a] = a /\ a \in db'.envs /\ a \notin gone'
  BY <1>11, <1>13, <1>14
<1>18. \A b \in Storing!Has(db) \ {a} :
          db'.owner[b] = db.owner[b] /\ (b \in db.envs => b \in db'.envs)
  BY <1>11, <1>14
<1>19. /\ db' \in Storing!Database
       /\ db'.moved = db.moved /\ db'.owned = db.owned /\ db'.scoped = db.scoped
       /\ db'.key = db.key
  BY <1>10
<1> QED BY <1>1, <1>12, <1>13, <1>15, <1>16, <1>17, <1>18, <1>19, EditStep

\* by a deleted one,
LEMMA DeletedStep ==
    ASSUME StoringInv, NEW a \in Storing!AllApps, Storing!DeleteEnvironment(a)
    PROVE  StoringInv'
<1>1. /\ pc = "running" /\ pc' = pc /\ touched' = touched \cup {a} /\ gone' = gone \cup {a}
      /\ UNCHANGED <<json, copies, starts, original, torn>>
  BY DEF Storing!DeleteEnvironment
<1>2. db \in Storing!Database /\ gone \subseteq touched
  BY DEF StoringInv, StoringTypes
<1> DEFINE envs == (db.envs \ {a}) \cup {Default}
           owner == [b \in Storing!Has(db) \ {a} |-> db.owner[b]]
           users == {p \in db.users : p[1] # a}
           rows == {p \in db.rows : p[1] # a}
<1>3. db' = [db EXCEPT !.envs = envs, !.owner = owner, !.users = users, !.scim = db.scim \ {a},
                       !.base = db.base \ {a}, !.rows = rows]
  BY DEF Storing!DeleteEnvironment
<1>4. /\ Default \in Storing!AllEnvironments /\ Storing!Has(db) \subseteq Storing!AllApps
      /\ \A b \in Storing!Has(db) : db.owner[b] \in Storing!AllEnvironments
      /\ db.envs \in SUBSET Storing!AllEnvironments
      /\ db.users \in SUBSET (Storing!AllEnvironments \X Users)
      /\ db.scim \in SUBSET Storing!AllApps /\ db.base \in SUBSET Storing!AllEnvironments
      /\ db.rows \in SUBSET (Storing!AllApps \X Users)
  BY <1>2, DatabaseIs, MigratedIs
<1>5. owner \in Owners
  <2>1. Storing!Has(db) \ {a} \in SUBSET Storing!AllApps
        /\ owner \in [Storing!Has(db) \ {a} -> Storing!AllEnvironments]
    BY <1>4
  <2> QED BY <2>1, OwnersAre
<1>6. /\ envs \in SUBSET Storing!AllEnvironments
      /\ users \in SUBSET (Storing!AllEnvironments \X Users)
      /\ db.scim \ {a} \in SUBSET Storing!AllApps
      /\ db.base \ {a} \in SUBSET Storing!AllEnvironments
      /\ rows \in SUBSET (Storing!AllApps \X Users)
  BY <1>4
<1>7. db.rows \subseteq db.users => rows \subseteq users
  OBVIOUS
<1>8. \A b : b # a => \A u : <<b, u>> \in users <=> <<b, u>> \in db.users
  OBVIOUS
<1>9. DOMAIN owner = Storing!Has(db) \ {a} /\ \A b \in Storing!Has(db) \ {a} : owner[b] = db.owner[b]
  OBVIOUS
<1> HIDE DEF owner, users, rows
<1>10. /\ db' \in Storing!Database
       /\ db'.owner = owner /\ db'.users = users /\ db'.rows = rows /\ db'.envs = envs
       /\ db'.moved = db.moved /\ db'.owned = db.owned /\ db'.scoped = db.scoped
       /\ db'.key = db.key
  BY <1>2, <1>3, <1>5, <1>6 DEF Storing!Database, Owners
<1>11. Storing!Has(db') = Storing!Has(db) \ {a}
       /\ \A b \in Storing!Has(db) \ {a} : db'.owner[b] = db.owner[b]
  BY <1>9, <1>10 DEF Storing!Has
<1>12. \A b \in Storing!Has(db) \ {a} : Storing!In(db', b) = Storing!In(db, b)
  BY <1>8, <1>10 DEF Storing!In
<1>13. gone' \subseteq touched' /\ gone' \ {a} = gone \ {a}
  BY <1>1, <1>2
<1> QED BY <1>1, <1>7, <1>10, <1>11, <1>12, <1>13, EditStep

\* and so by every step.
LEMMA StoringStep ==
    ASSUME StoringLimits, StoringInv, [Storing!Next]_Storing!vars PROVE StoringInv'
<1>1. CASE UNCHANGED Storing!vars
  <2>1. UNCHANGED <<db, json, copies, pc, starts, original, touched, gone, torn>>
    BY <1>1 DEF Storing!vars
  <2>2. OriginalInOrder' /\ Storing!Homeless' = Storing!Homeless
    BY <2>1, OriginalStays DEF StoringInv
  <2>3. StoringTypes' /\ Unmoved' /\ InTurn'
    BY <2>1 DEF StoringInv, StoringTypes, Unmoved, InTurn
  <2>4. Moved'
    BY <2>1, <2>2 DEF StoringInv, Moved
  <2>5. Owned'
    <3>1. Settled => Settled'
      BY <2>1, DirectoryStays
    <3>2. Unread' <=> Unread
      BY <2>1 DEF Unread, Storing!StateEmpty
    <3>3. Imported' <=> Imported
      BY <2>1, OriginalStays DEF Imported
    <3> QED BY <2>1, <3>1, <3>2, <3>3 DEF StoringInv, Owned
  <2> QED BY <2>2, <2>3, <2>4, <2>5 DEF StoringInv
<1>2. CASE \E a \in Storing!AllApps, us \in SUBSET Users, scim \in BOOLEAN :
               Storing!SaveEnvironment(a, us, scim)
  BY <1>2, SaveStep
<1>3. CASE \E a \in Storing!AllApps : Storing!DeleteEnvironment(a)
  BY <1>3, DeletedStep
<1> QED BY <1>1, <1>2, <1>3, OpenAndCrash, FlagSteps, MoveStep, OwnStep, ImportStep,
        DistributeImportStep DEF Storing!Next

-----------------------------------------------------------------------------
(* What holds of the component that runs.                                  *)

\* The invariant of logouts holds while that is what runs.
LEMMA LogoutsAlways == AllSpec => [](running = "logouts" => LogoutsInv)
<1>0. LogoutLimits
  BY ComponentsAssumption DEF LogoutLimits
<1>1. AllInit => (running = "logouts" => LogoutsInv)
  <2> SUFFICES ASSUME running = "logouts", Logouts!Init PROVE LogoutsInv
    BY DEF AllInit
  <2> QED BY <1>0, LogoutsInit
<1>2. (running = "logouts" => LogoutsInv) /\ [AllNext]_allVars
      => (running = "logouts" => LogoutsInv)'
  <2> SUFFICES ASSUME running' = "logouts", running = "logouts" => LogoutsInv, [AllNext]_allVars
               PROVE  LogoutsInv'
    OBVIOUS
  <2>1. running = "logouts" /\ [Logouts!Next]_<<x1, x2, x3, x4, x5, x6, x7>>
    BY DEF AllNext, allVars, state
  <2>2. [Logouts!Next]_Logouts!vars
    BY <2>1 DEF Logouts!vars
  <2> QED BY <1>0, <2>1, <2>2, LogoutsStep
<1> QED BY <1>1, <1>2, PTL DEF AllSpec

\* A step of a checklist that shows an answer shows the first one to its own
\* LogoutRequest, whatever tabs, answers and sign-outs interleave and however
\* short the log is (saml_logout.go).
THEOREM LogoutsShowTheirAnswer == AllSpec => []StepsShowTheirAnswer
<1>1. (running = "logouts" => LogoutsInv) => StepsShowTheirAnswer
  BY LogoutsImply DEF StepsShowTheirAnswer
<1> QED BY <1>1, LogoutsAlways, PTL

\* The invariant of signing holds while that is what runs.
LEMMA SigningAlways == AllSpec => [](running = "signing" => SigningInv)
<1>0. SigningBounds
  BY ComponentsAssumption DEF SigningBounds
<1>1. AllInit => (running = "signing" => SigningInv)
  <2> SUFFICES ASSUME running = "signing", Signing!Init PROVE SigningInv
    BY DEF AllInit
  <2> QED BY <1>0, SigningInit
<1>2. (running = "signing" => SigningInv) /\ [AllNext]_allVars
      => (running = "signing" => SigningInv)'
  <2> SUFFICES ASSUME running' = "signing", running = "signing" => SigningInv, [AllNext]_allVars
               PROVE  SigningInv'
    OBVIOUS
  <2>1. running = "signing" /\ [Signing!Next]_<<x1, x2, x3, x4, x5, x6>>
    BY DEF AllNext, allVars, state
  <2>2. [Signing!Next]_Signing!vars
    BY <2>1 DEF Signing!vars
  <2> QED BY <1>0, <2>1, <2>2, SigningStep
<1> QED BY <1>1, <1>2, PTL DEF AllSpec

\* A signing key is in the JWKS exactly as long as its rotation said, through
\* concurrent rotations and restored state files (signing_keys.go).
THEOREM KeysArePublished == AllSpec => []PublishedAsPromised
<1>0. SigningBounds
  BY ComponentsAssumption DEF SigningBounds
<1>1. (running = "signing" => SigningInv) => PublishedAsPromised
  BY <1>0, SigningImplies DEF PublishedAsPromised
<1> QED BY <1>1, SigningAlways, PTL

\* The invariant of enrolling holds while that is what runs.
LEMMA EnrollingAlways == AllSpec => [](running = "enrolling" => EnrollingInv)
<1>0. Proper
  BY ComponentsAssumption DEF Proper
<1>1. AllInit => (running = "enrolling" => EnrollingInv)
  <2> SUFFICES ASSUME running = "enrolling", Enrolling!Init PROVE EnrollingInv
    BY DEF AllInit
  <2> QED BY <1>0, EnrollingInit
<1>2. (running = "enrolling" => EnrollingInv) /\ [AllNext]_allVars
      => (running = "enrolling" => EnrollingInv)'
  <2> SUFFICES ASSUME running' = "enrolling", running = "enrolling" => EnrollingInv,
                      [AllNext]_allVars
               PROVE  EnrollingInv'
    OBVIOUS
  <2>1. running = "enrolling"
        /\ [Enrolling!Next]_<<x1, x2, x3, x4, x5, x6, x7, x8, x9, x10, x11, x12, x13, x14>>
    BY DEF AllNext, allVars, state
  <2>2. [Enrolling!Next]_Enrolling!vars
    BY <2>1 DEF Enrolling!vars, Enrolling!memory, Enrolling!stored, Enrolling!history
  <2> QED BY <1>0, <2>1, <2>2, EnrollingStep
<1> QED BY <1>1, <1>2, PTL DEF AllSpec

\* The maps an authorization is found by agree with the authorizations
\* (enrollment.go:648, :838; enrollment_replacement.go:308).
THEOREM IndexesStayInStep == AllSpec => []IndexesAgree
<1>1. (running = "enrolling" => EnrollingInv) => IndexesAgree
  BY DEF EnrollingInv, IndexesAgree
<1> QED BY <1>1, EnrollingAlways, PTL

\* What enrolled an installation is not pending any more, and approvals and
\* offers are for an account that confirmed their code (enrollment.go:724-744).
THEOREM GrantsAreSpentOnce == AllSpec => []GrantsAreSpent
<1>1. (running = "enrolling" => EnrollingInv) => GrantsAreSpent
  BY DEF EnrollingInv, GrantsAreSpent
<1> QED BY <1>1, EnrollingAlways, PTL

\* An account's installations grow above its limit only when an administrator
\* un-revokes one, for any number of accounts, installations, codes and tabs
\* (enrollment.go:697, enrollment_replacement.go:421).
THEOREM AccountsStayWithinLimit == AllSpec => WithinLimit
<1>0. Proper
  BY ComponentsAssumption DEF Proper
<1>1. (running = "enrolling" => EnrollingInv) /\ [AllNext]_allVars
         => [running = "enrolling" => Enrolling!AdmitsWithinLimit]_allVars
  <2> SUFFICES ASSUME running = "enrolling", EnrollingInv, [AllNext]_allVars
               PROVE  Enrolling!AdmitsWithinLimit \/ UNCHANGED allVars
    OBVIOUS
  <2>1. [Enrolling!Next]_allVars
    BY DEF AllNext, allVars, state
  <2>2. CASE Enrolling!Next
    BY <1>0, <2>2, StaysWithinLimit
  <2> QED BY <2>1, <2>2
<1> QED BY <1>1, EnrollingAlways, PTL DEF AllSpec, WithinLimit

\* The invariant of starting holds while that is what runs.
LEMMA StartingAlways == AllSpec => [](running = "starting" => Starting!IInv)
<1>0. Starting!Distinct
  BY ComponentsAssumption DEF Starting!Distinct
<1>1. AllInit => (running = "starting" => Starting!IInv)
  <2> SUFFICES ASSUME running = "starting", Starting!Init PROVE Starting!IInv
    BY DEF AllInit
  <2> QED BY <1>0, Starting!InvInit
<1>2. (running = "starting" => Starting!IInv) /\ [AllNext]_allVars
      => (running = "starting" => Starting!IInv)'
  <2> SUFFICES ASSUME running' = "starting", running = "starting" => Starting!IInv,
                      [AllNext]_allVars
               PROVE  Starting!IInv'
    OBVIOUS
  <2>1. running = "starting" /\ [Starting!Next]_<<x1, x2, x3, x4, x5, x6>>
    BY DEF AllNext, allVars, state
  <2>2. [Starting!Next]_Starting!vars
    BY <2>1 DEF Starting!vars
  <2> QED BY <1>0, <2>1, <2>2, Starting!InvStep
<1> QED BY <1>1, <1>2, PTL DEF AllSpec

\* A hand-off shows the process that runs on one's own state file, the
\* desktop's its own window (instance.go).
THEOREM HandoffsAreRight == AllSpec => []HandoffIsRight
<1>0. Starting!Distinct
  BY ComponentsAssumption DEF Starting!Distinct
<1>1. (running = "starting" => Starting!IInv) => HandoffIsRight
  BY <1>0, Starting!InvImplies DEF HandoffIsRight
<1> QED BY <1>1, StartingAlways, PTL

\* The invariant of tunnelling holds while that is what runs.
LEMMA TunnellingAlways == AllSpec => [](running = "tunnelling" => Tunnelling!IInv)
<1>0. Tunnelling!Bounds
  BY ComponentsAssumption DEF Tunnelling!Bounds
<1>1. AllInit => (running = "tunnelling" => Tunnelling!IInv)
  <2> SUFFICES ASSUME running = "tunnelling", Tunnelling!Init PROVE Tunnelling!IInv
    BY DEF AllInit
  <2> QED BY <1>0, Tunnelling!InvInit
<1>2. (running = "tunnelling" => Tunnelling!IInv) /\ [AllNext]_allVars
      => (running = "tunnelling" => Tunnelling!IInv)'
  <2> SUFFICES ASSUME running' = "tunnelling", running = "tunnelling" => Tunnelling!IInv,
                      [AllNext]_allVars
               PROVE  Tunnelling!IInv'
    OBVIOUS
  <2>1. running = "tunnelling"
        /\ [Tunnelling!Next]_<<x1, x2, x3, x4, x5, x6, x7, x8, x9, x10, x11, x12, x13, x14>>
    BY DEF AllNext, allVars, state
  <2>2. [Tunnelling!Next]_Tunnelling!vars
    BY <2>1 DEF Tunnelling!vars
  <2> QED BY <1>0, <2>1, <2>2, Tunnelling!InvStep
<1> QED BY <1>1, <1>2, PTL DEF AllSpec

\* Signing out leaves no half of the old tunnel identity in the database and
\* nothing that goes on with it (web.go, desktop_auth.go).
THEOREM SigningOutIsComplete == AllSpec => []SignedOutIsGone
<1>0. Tunnelling!Bounds
  BY ComponentsAssumption DEF Tunnelling!Bounds
<1>1. (running = "tunnelling" => Tunnelling!IInv) => SignedOutIsGone
  BY <1>0, Tunnelling!InvSignsOut DEF SignedOutIsGone
<1> QED BY <1>1, TunnellingAlways, PTL

\* The user is never left without a tunnel, an attempt and a Retry button,
\* except by a sign-out that cannot rotate the identity (tunnel.go).
THEOREM UserIsNeverStuck == AllSpec => []NeverStuck
<1>1. (running = "tunnelling" => Tunnelling!IInv) => NeverStuck
  BY DEF Tunnelling!IInv, NeverStuck
<1> QED BY <1>1, TunnellingAlways, PTL

\* The invariant of the lifecycle runs holds while they are what runs.
LEMMA LifecycleAlways == AllSpec => [](running = "lifecycle" => LifecycleInv)
<1>0. LifecycleBounds
  <2>1. NoJob \notin Nat /\ MaxStarted \in Nat /\ MaxRuns \in Nat
    BY ComponentsAssumption, NumbersAssumption
  <2>2. NoJob \notin Lifecycle!Job
    BY ComponentsAssumption DEF Lifecycle!Job, Lifecycle!JobIds
  <2> QED BY <2>1, <2>2 DEF LifecycleBounds
<1>1. AllInit => (running = "lifecycle" => LifecycleInv)
  <2> SUFFICES ASSUME running = "lifecycle", Lifecycle!Init PROVE LifecycleInv
    BY DEF AllInit
  <2> QED BY <1>0, LifecycleInit
<1>2. (running = "lifecycle" => LifecycleInv) /\ [AllNext]_allVars
      => (running = "lifecycle" => LifecycleInv)'
  <2> SUFFICES ASSUME running' = "lifecycle", running = "lifecycle" => LifecycleInv,
                      [AllNext]_allVars
               PROVE  LifecycleInv'
    OBVIOUS
  <2>1. running = "lifecycle" /\ [Lifecycle!Next]_<<x1, x2, x3, x4, x5, x6, x7, x8, x9>>
    BY DEF AllNext, allVars, state
  <2>2. [Lifecycle!Next]_Lifecycle!vars
    BY <2>1 DEF Lifecycle!vars
  <2> QED BY <1>0, <2>1, <2>2, LifecycleStep
<1> QED BY <1>1, <1>2, PTL DEF AllSpec

\* A push of a lifecycle run is shown as ok only if a sync job of its own
\* succeeded, whatever other jobs start and end meanwhile (lifecycle.go).
THEOREM PushesAreTruthful == AllSpec => []PushesTellTheTruth
<1>1. (running = "lifecycle" => LifecycleInv) => PushesTellTheTruth
  BY DEF LifecycleInv, PushesTellTheTruth, Lifecycle!PushesTellTheTruth
<1> QED BY <1>1, LifecycleAlways, PTL

\* The invariant of the updates holds while they are what runs.
LEMMA UpdatingAlways ==
    AllSpec => /\ [](running = "updating" => UpdatingInv)
               /\ NeverBackwards
<1>0. UpdatingLimits
  BY ComponentsAssumption DEF UpdatingLimits
<1>1. AllInit => (running = "updating" => UpdatingInv)
  <2> SUFFICES ASSUME running = "updating", Updating!Init PROVE UpdatingInv
    BY DEF AllInit
  <2> QED BY <1>0, UpdatingInit
<1>2. running = "updating" /\ [AllNext]_allVars => [Updating!Next]_Updating!vars
  <2> SUFFICES ASSUME running = "updating", [AllNext]_allVars PROVE [Updating!Next]_Updating!vars
    OBVIOUS
  <2>1. [Updating!Next]_<<x1, x2, x3, x4, x5>>
    BY DEF AllNext, allVars, state
  <2> QED BY <2>1 DEF Updating!vars
<1>3. (running = "updating" => UpdatingInv) /\ [AllNext]_allVars
      => (running = "updating" => UpdatingInv)'
  <2> SUFFICES ASSUME running' = "updating", running = "updating" => UpdatingInv,
                      [AllNext]_allVars
               PROVE  UpdatingInv'
    OBVIOUS
  <2>1. running = "updating"
    BY DEF AllNext, allVars
  <2> QED BY <1>0, <1>2, <2>1, UpdatingStep
<1>4. (running = "updating" => UpdatingInv) /\ [AllNext]_allVars
      => [running = "updating" => Updating!SwapsForward]_allVars
  BY UpdatingForward
<1> QED BY <1>1, <1>3, <1>4, PTL DEF AllSpec, NeverBackwards

\* An update that is offered for restart is on disk, whole and held by its
\* process (internal/update).
THEOREM OffersAreThere == AllSpec => []StagedIsThere
<1>1. (running = "updating" => UpdatingInv) => StagedIsThere
  BY UpdatingImplies DEF StagedIsThere
<1> QED BY <1>1, UpdatingAlways, PTL

\* No swap installs an older build, unless one was undone before.
THEOREM UpdatesGoForward == AllSpec => NeverBackwards
BY UpdatingAlways

\* The invariant of the state file holds while it is what runs.
LEMMA StoringAlways == AllSpec => [](running = "storing" => StoringInv)
<1>0. StoringLimits
  BY ComponentsAssumption DEF StoringLimits, Olds, Storing!Migrated
<1>1. AllInit => (running = "storing" => StoringInv)
  <2> SUFFICES ASSUME running = "storing", Storing!Init PROVE StoringInv
    BY DEF AllInit
  <2> QED BY <1>0, StoringInit
<1>2. (running = "storing" => StoringInv) /\ [AllNext]_allVars
      => (running = "storing" => StoringInv)'
  <2> SUFFICES ASSUME running' = "storing", running = "storing" => StoringInv,
                      [AllNext]_allVars
               PROVE  StoringInv'
    OBVIOUS
  <2>1. running = "storing" /\ [Storing!Next]_<<x1, x2, x3, x4, x5, x6, x7, x8, x9>>
    BY DEF AllNext, allVars, state
  <2>2. [Storing!Next]_Storing!vars
    BY <2>1 DEF Storing!vars
  <2> QED BY <1>0, <2>1, <2>2, StoringStep
<1> QED BY <1>1, <1>2, PTL DEF AllSpec

\* Whatever version the state file came from and wherever earlier starts died,
\* the program runs on the directories there were, and on what users made of
\* them since, unless a start died inside the import (state.go).
THEOREM UpgradesKeepDirectories == AllSpec => []UpgradeKeepsDirectory
<1>1. (running = "storing" => StoringInv) => UpgradeKeepsDirectory
  BY StoringImplies DEF UpgradeKeepsDirectory
<1> QED BY <1>1, StoringAlways, PTL

\* The invariant of the fault scenarios holds whatever runs.
LEMMA FaultsAlways == AllSpec => []IInv
<1>1. AllInit => IInv
  BY InvInit DEF AllInit
<1>2. IInv /\ [AllNext]_allVars => IInv'
  <2> SUFFICES ASSUME IInv, [AllNext]_allVars PROVE IInv'
    OBVIOUS
  <2>1. [Next]_vars
    <3>1. CASE UNCHANGED faults
      BY <3>1 DEF faults, vars
    <3>2. CASE AllNext /\ running = "faults" /\ Next
      BY <3>2
    <3> QED BY <3>1, <3>2 DEF AllNext, allVars
  <2> QED BY <2>1, InvStep
<1> QED BY <1>1, <1>2, PTL DEF AllSpec

\* Every component's state stays well-formed.
THEOREM EveryStateIsTyped == AllSpec => []AllTypeOK
<1> DEFINE OneRuns == running \in {"faults", "logouts", "enrolling", "updating", "tunnelling",
                                   "storing", "signing", "starting", "lifecycle"}
           Kept == /\ running = "logouts" => LogoutsInv
                   /\ running = "enrolling" => EnrollingInv
                   /\ running = "updating" => UpdatingInv
                   /\ running = "tunnelling" => Tunnelling!IInv
                   /\ running = "storing" => StoringInv
                   /\ running = "signing" => SigningInv
                   /\ running = "starting" => Starting!IInv
                   /\ running = "lifecycle" => LifecycleInv
<1>1. AllSpec => []OneRuns
  <2>1. AllInit => OneRuns
    BY DEF AllInit
  <2>2. OneRuns /\ [AllNext]_allVars => OneRuns'
    BY DEF AllNext, allVars
  <2> QED BY <2>1, <2>2, PTL DEF AllSpec
<1>2. OneRuns /\ IInv /\ Kept => AllTypeOK
  BY StoringImplies DEF AllTypeOK, IInv, LogoutsInv, EnrollingInv, UpdatingInv, Tunnelling!IInv,
     SigningInv, Starting!IInv, LifecycleInv
<1>3. AllSpec => []Kept
  BY LogoutsAlways, EnrollingAlways, UpdatingAlways, TunnellingAlways, StoringAlways,
     SigningAlways, StartingAlways, LifecycleAlways, PTL
<1> QED BY <1>1, <1>2, <1>3, FaultsAlways, PTL

=============================================================================
