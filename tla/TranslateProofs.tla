--------------------------- MODULE TranslateProofs ---------------------------
(***************************************************************************)
(* The pages of translate.mjs cover the project, for any number of runs,   *)
(* any page size and any number of additions and deletions.                *)
(***************************************************************************)
EXTENDS Translate, SequenceTheorems, TLAPS

LEMMA FunctionIsSeq ==
    ASSUME NEW S, NEW n \in Nat, NEW f \in [1..n -> S]
    PROVE  f \in Seq(S) /\ Len(f) = n
OBVIOUS

\* The page that makes the loop end is the last one: no key comes after it
\* (translate.mjs:120-122).
LEMMA LastPageCovers ==
    ASSUME TypeOK, NEW r \in Runs, LastPage(page[r])
    PROVE  Len(listing) <= page[r] * PageSize + PageSize
<1> DEFINE n == Len(listing)
           p == page[r]
<1>1. n \in Nat /\ p \in Nat /\ PageSize \in Nat \ {0}
  BY TranslateAssumption, LenProperties DEF TypeOK
<1> HIDE DEF n, p
<1>2. PICK q \in Int : q = (n + PageSize - 1) \div PageSize
  BY <1>1
<1>3. n + PageSize - 1 < PageSize * q + PageSize
  BY <1>1, <1>2
<1>4. q <= p + 1
  BY <1>1, <1>2 DEF LastPage, TotalPages, n, p
<1>5. PageSize * q <= PageSize * (p + 1)
  BY <1>1, <1>4
<1>6. PageSize * (p + 1) = p * PageSize + PageSize
  BY <1>1
<1> QED
  BY <1>1, <1>3, <1>5, <1>6 DEF n, p

\* No action changes the type of a variable (translate.mjs:56-148).
LEMMA TypeStep == ASSUME TypeOK, [Next]_vars PROVE TypeOK'
<1> USE TranslateAssumption DEF TypeOK, Goto, Busy, Ended
<1>1. CASE UNCHANGED vars
  BY <1>1 DEF vars, script, setup, keys, history
<1>2. ASSUME NEW r \in Runs, Login(r) PROVE TypeOK'
  BY <1>2 DEF Login, setup, keys, history
<1>3. ASSUME NEW r \in Runs, Script(r) PROVE TypeOK'
  <2>1. CASE Discover(r)
    BY <2>1 DEF Discover, setup, keys, history
  <2>2. CASE Describe(r)
    BY <2>2 DEF Describe, keys, history
  <2>3. CASE FindPrompt(r)
    BY <2>3 DEF FindPrompt, setup, keys, history
  <2>4. CASE FindNoPrompt(r)
    BY <2>4 DEF FindNoPrompt, setup, keys, history
  <2>5. CASE CreatePrompt(r)
    <3>1. prompt' \in [Runs -> Runs \cup {NoPrompt}]
      <4>1. prompt' = [prompt EXCEPT ![r] = r] \/ prompt' = prompt
        BY <2>5, Zenon DEF CreatePrompt
      <4>2. prompt \in [Runs -> Runs \cup {NoPrompt}] /\ r \in Runs
        BY <1>3
      <4> QED
        BY ONLY <4>1, <4>2
    <3>2. pc' \in [Runs -> {"idle"} \cup Busy \cup Ended]
      BY <2>5 DEF CreatePrompt
    <3>3. prompts' \subseteq Runs
      BY <2>5 DEF CreatePrompt
    <3> QED
      BY <2>5, <3>1, <3>2, <3>3 DEF CreatePrompt, keys, history
  <2>6. CASE CreateRefused(r)
    BY <2>6 DEF CreateRefused, setup, keys, history
  <2>7. CASE Bind(r)
    <3>1. {listing[k] : k \in DOMAIN listing} \subseteq Keys
      BY DEF TypeOK
    <3> QED
      BY <2>7, <3>1 DEF Bind, keys
  <2>8. CASE ReadPage(r)
    <3>1. PageKeys(page[r]) \subseteq Keys
      BY DEF PageKeys
    <3>2. pc' \in [Runs -> {"idle"} \cup Busy \cup Ended]
      BY <2>8 DEF ReadPage
    <3>3. page' \in [Runs -> Nat] /\ ids' \in [Runs -> SUBSET Keys]
      BY <2>8, <3>1 DEF ReadPage
    <3> QED
      BY <2>8, <3>2, <3>3 DEF ReadPage, setup, keys, history
  <2>9. CASE PageRefused(r)
    BY <2>9 DEF PageRefused, setup, keys
  <2>10. CASE StartBatch(r)
    BY <2>10 DEF StartBatch, setup, keys, history
  <2>11. CASE Relogin(r)
    BY <2>11 DEF Relogin, setup, keys, history
  <2>12. CASE PollAgain(r)
    BY <2>12 DEF PollAgain, setup, keys, history
  <2>13. CASE PollSettles(r)
    BY <2>13 DEF PollSettles, Outcome, setup, keys, history
  <2>14. CASE Dies(r)
    BY <2>14 DEF Dies, setup, keys, history
  <2> QED
    BY <1>3, <2>1, <2>2, <2>3, <2>4, <2>5, <2>6, <2>7, <2>8, <2>9, <2>10, <2>11,
       <2>12, <2>13, <2>14 DEF Script
<1>4. ASSUME NEW r \in Runs, Server(r) PROVE TypeOK'
  BY <1>4 DEF Server, JobSucceeds, JobFails, script, setup, keys, history
<1>5. ASSUME NEW r \in Runs, Expire(r) PROVE TypeOK'
  BY <1>5 DEF Expire, setup, keys, history
<1>6. CASE AddKey
  <2>1. PICK k \in Keys, at \in 1..Len(listing) + 1 :
          listing' = [j \in 1..Len(listing) + 1 |->
                        IF j < at THEN listing[j]
                        ELSE IF j = at THEN k ELSE listing[j - 1]]
    BY <1>6 DEF AddKey
  <2>2. listing' \in [1..Len(listing) + 1 -> Keys]
    BY <2>1, LenProperties
  <2>3. listing' \in Seq(Keys)
    <3>1. Len(listing) + 1 \in Nat
      BY LenProperties
    <3> QED
      BY <2>2, <3>1, FunctionIsSeq
  <2> QED
    BY <1>6, <2>3 DEF AddKey, script, setup, history
<1>7. CASE DeleteKey
  <2>1. PICK at \in DOMAIN listing :
          /\ listing' = [j \in 1..Len(listing) - 1 |->
                           IF j < at THEN listing[j] ELSE listing[j + 1]]
          /\ steady' = [r \in Runs |-> steady[r] \ {listing[at]}]
          /\ slipped' = [r \in Runs |-> slipped[r] \cup Slips(r, at)]
    BY <1>7 DEF DeleteKey
  <2>2. listing' \in [1..Len(listing) - 1 -> Keys]
    BY <2>1, LenProperties
  <2>3. Len(listing) - 1 \in Nat
    BY <2>1, LenProperties
  <2>4. listing' \in Seq(Keys)
    BY <2>2, <2>3, FunctionIsSeq
  <2>5. \A r \in Runs : Slips(r, at) \subseteq Keys
    BY DEF Slips
  <2>6. slipped' \in [Runs -> SUBSET Keys]
    BY <2>1, <2>5
  <2> QED
    BY <1>7, <2>1, <2>4, <2>6 DEF DeleteKey, script, setup
<1> QED
  BY <1>1, <1>2, <1>3, <1>4, <1>5, <1>6, <1>7 DEF Next

\* Steps that leave the listing alone, do not enter the loop or the phases
\* after it, and take nothing out of what was collected, keep the invariant.
LEMMA ElsewhereStep ==
    ASSUME CollectInv, NEW r \in Runs, UNCHANGED <<page, ids, listing, history>>,
           NEW to, pc' = [pc EXCEPT ![r] = to], to # "collect",
           to \in Collected => pc[r] \in Collected,
           to \in Preparing => pc[r] \in Preparing
    PROVE  LoopStartsAtFirstPage' /\ MissingIsAhead' /\ CollectedAll'
BY DEF CollectInv, LoopStartsAtFirstPage, MissingIsAhead, CollectedAll, TypeOK, history

\* The inductive step (translate.mjs:113-122).
LEMMA CollectStep == ASSUME CollectInv, [Next]_vars PROVE CollectInv'
<1> DEFINE Goal == LoopStartsAtFirstPage' /\ MissingIsAhead' /\ CollectedAll'
<1>1. TypeOK /\ TypeOK'
  BY TypeStep DEF CollectInv
<1> SUFFICES Goal
  BY <1>1 DEF CollectInv
<1> USE DEF Preparing, Collected
<1>2. CASE UNCHANGED <<pc, page, ids, listing, steady, slipped, refused>>
  BY <1>2 DEF CollectInv, LoopStartsAtFirstPage, MissingIsAhead, CollectedAll
<1>3. ASSUME NEW r \in Runs, Login(r) PROVE Goal
  BY <1>3, ElsewhereStep DEF Login, Goto, keys, history
<1>4. ASSUME NEW r \in Runs, Script(r) PROVE Goal
  <2>1. CASE Bind(r)
    <3>1. /\ pc[r] = "bind"
          /\ pc' = [pc EXCEPT ![r] = "collect"]
          /\ steady' = [steady EXCEPT ![r] = {listing[k] : k \in DOMAIN listing}]
          /\ UNCHANGED <<page, ids, listing, slipped, refused>>
      BY <2>1 DEF Bind, Goto, keys
    <3>2. CollectedAll' /\ LoopStartsAtFirstPage'
      BY <1>1, <3>1 DEF CollectInv, CollectedAll, LoopStartsAtFirstPage, TypeOK
    <3>3. page[r] * PageSize = 0
      BY <3>1, TranslateAssumption DEF CollectInv, LoopStartsAtFirstPage, FirstPage
    <3>4. \A j \in DOMAIN listing : j > 0
      BY <1>1, LenProperties DEF TypeOK
    <3>5. MissingIsAhead'
      BY <1>1, <3>1, <3>3, <3>4 DEF CollectInv, MissingIsAhead, TypeOK
    <3> QED
      BY <3>2, <3>5
  <2>2. CASE ReadPage(r)
    <3> DEFINE first == page[r] * PageSize
               last == page[r] * PageSize + PageSize
               to == IF LastPage(page[r]) THEN "launch" ELSE "collect"
    <3>1. /\ pc[r] = "collect" /\ pc' = [pc EXCEPT ![r] = to]
          /\ ids' = [ids EXCEPT ![r] = @ \cup PageKeys(page[r])]
          /\ page' = [page EXCEPT ![r] = @ + 1]
          /\ UNCHANGED <<listing, steady, slipped, refused>>
      BY <2>2 DEF ReadPage, Goto, keys, history
    <3>2. page[r] \in Nat /\ PageSize \in Nat /\ first \in Nat /\ last \in Nat
      BY <1>1, TranslateAssumption DEF TypeOK
    <3>3. page'[r] * PageSize = last
      BY <1>1, <3>1, <3>2 DEF TypeOK
    <3>4. \A j \in DOMAIN listing : j \in Nat /\ j <= Len(listing)
      BY <1>1, LenProperties DEF TypeOK
    <3>5. ASSUME r \notin refused, NEW k \in steady[r]
          PROVE  k \in ids'[r] \cup slipped[r] \/
                   \E j \in DOMAIN listing : j > last /\ listing[j] = k
      <4>1. CASE k \in ids[r] \cup slipped[r]
        BY <1>1, <3>1, <4>1 DEF TypeOK
      <4>2. CASE k \notin ids[r] \cup slipped[r]
        <5>1. PICK j \in DOMAIN listing : j > first /\ listing[j] = k
          BY <3>1, <3>5, <4>2 DEF CollectInv, MissingIsAhead
        <5>2. CASE j > last
          BY <5>1, <5>2
        <5>3. CASE j <= last
          <6>1. k \in PageKeys(page[r])
            BY <5>1, <5>3 DEF PageKeys
          <6> QED
            BY <1>1, <3>1, <6>1 DEF TypeOK
        <5> QED
          BY <3>2, <3>4, <5>2, <5>3
      <4> QED
        BY <4>1, <4>2
    <3>6. MissingIsAhead'
      <4> SUFFICES ASSUME NEW q \in Runs, pc'[q] = "collect", q \notin refused',
                          NEW k \in steady'[q]
                   PROVE  k \in ids'[q] \cup slipped'[q] \/
                            \E j \in DOMAIN listing' : j > page'[q] * PageSize /\ listing'[j] = k
        BY DEF MissingIsAhead
      <4>1. CASE q = r
        BY <3>1, <3>3, <3>5, <4>1
      <4>2. CASE q # r
        BY <1>1, <3>1, <4>2 DEF CollectInv, MissingIsAhead, TypeOK
      <4> QED
        BY <4>1, <4>2
    <3>7. CollectedAll'
      <4> SUFFICES ASSUME NEW q \in Runs, pc'[q] \in Collected, q \notin refused',
                          NEW k \in steady'[q]
                   PROVE  k \in ids'[q] \cup slipped'[q]
        BY DEF CollectedAll
      <4>1. CASE q = r
        <5>1. LastPage(page[r])
          BY <1>1, <3>1, <4>1 DEF TypeOK
        <5>2. Len(listing) <= last
          BY <1>1, <5>1, LastPageCovers
        <5>3. \A j \in DOMAIN listing : ~(j > last)
          <6>1. Len(listing) \in Nat
            BY <1>1, LenProperties DEF TypeOK
          <6> QED
            BY <3>2, <3>4, <5>2, <6>1
        <5> QED
          BY <3>1, <3>5, <4>1, <5>3
      <4>2. CASE q # r
        BY <1>1, <3>1, <4>2 DEF CollectInv, CollectedAll, TypeOK
      <4> QED
        BY <4>1, <4>2
    <3>8. LoopStartsAtFirstPage'
      BY <1>1, <3>1 DEF CollectInv, LoopStartsAtFirstPage, TypeOK
    <3> QED
      BY <3>6, <3>7, <3>8
  <2>3. CASE PageRefused(r)
    BY <1>1, <2>3 DEF PageRefused, Goto, keys, CollectInv, LoopStartsAtFirstPage,
       MissingIsAhead, CollectedAll, TypeOK
  <2>4. CASE Discover(r) \/ Describe(r) \/ FindPrompt(r) \/ FindNoPrompt(r)
             \/ CreateRefused(r)
    BY <2>4, ElsewhereStep DEF Discover, Describe, FindPrompt, FindNoPrompt, CreateRefused,
       Goto, keys, history
  <2>5. CASE CreatePrompt(r) \/ StartBatch(r)
    BY <2>5, ElsewhereStep DEF CreatePrompt, StartBatch, Goto, keys, history
  <2>6. CASE Relogin(r) \/ PollAgain(r) \/ PollSettles(r)
    BY <2>6, ElsewhereStep DEF Relogin, PollAgain, PollSettles, Outcome, Goto, keys, history
  <2>7. CASE Dies(r)
    BY <2>7, ElsewhereStep DEF Dies, Goto, keys, history
  <2> QED
    BY <1>4, <2>1, <2>2, <2>3, <2>4, <2>5, <2>6, <2>7 DEF Script
<1>5. ASSUME NEW r \in Runs, Server(r) \/ Expire(r) PROVE Goal
  BY <1>2, <1>5 DEF Server, JobSucceeds, JobFails, Expire, script, keys, history
<1>6. CASE AddKey
  <2>1. PICK k \in Keys, at \in 1..Len(listing) + 1 :
          listing' = [j \in 1..Len(listing) + 1 |->
                        IF j < at THEN listing[j]
                        ELSE IF j = at THEN k ELSE listing[j - 1]]
    BY <1>6 DEF AddKey
  <2>2. UNCHANGED <<pc, page, ids, steady, slipped, refused>>
    BY <1>6 DEF AddKey, script, history
  <2>3. Len(listing) \in Nat /\ DOMAIN listing = 1..Len(listing)
    BY <1>1, LenProperties DEF TypeOK
  <2>4. ASSUME NEW j \in DOMAIN listing
        PROVE  \E i \in DOMAIN listing' : i >= j /\ listing'[i] = listing[j]
    <3>1. CASE j < at
      BY <2>1, <2>3, <3>1
    <3>2. CASE j >= at
      <4>1. j + 1 \in DOMAIN listing' /\ listing'[j + 1] = listing[j]
        BY <2>1, <2>3, <3>2
      <4> QED
        BY <2>3, <4>1
    <3> QED
      BY <2>1, <2>3, <3>1, <3>2
  <2>5. MissingIsAhead'
    <3> SUFFICES ASSUME NEW q \in Runs, pc[q] = "collect", q \notin refused,
                        NEW m \in steady[q], m \notin ids[q] \cup slipped[q]
                 PROVE  \E i \in DOMAIN listing' : i > page[q] * PageSize /\ listing'[i] = m
      BY <2>2 DEF MissingIsAhead
    <3>1. PICK j \in DOMAIN listing : j > page[q] * PageSize /\ listing[j] = m
      BY DEF CollectInv, MissingIsAhead
    <3>2. PICK i \in DOMAIN listing' : i >= j /\ listing'[i] = m
      BY <2>4, <3>1
    <3>3. page[q] * PageSize \in Nat /\ i \in Int /\ j \in Int
      BY <1>1, <2>1, <2>3, <3>1, <3>2, TranslateAssumption DEF TypeOK
    <3> QED
      BY <3>1, <3>2, <3>3
  <2> QED
    BY <2>2, <2>5 DEF CollectInv, CollectedAll, LoopStartsAtFirstPage
<1>7. CASE DeleteKey
  <2>1. PICK at \in DOMAIN listing :
          /\ listing' = [j \in 1..Len(listing) - 1 |->
                           IF j < at THEN listing[j] ELSE listing[j + 1]]
          /\ steady' = [r \in Runs |-> steady[r] \ {listing[at]}]
          /\ slipped' = [r \in Runs |-> slipped[r] \cup Slips(r, at)]
    BY <1>7 DEF DeleteKey
  <2>2. UNCHANGED <<pc, page, ids, refused>>
    BY <1>7 DEF DeleteKey, script
  <2>3. Len(listing) \in Nat /\ DOMAIN listing = 1..Len(listing)
    BY <1>1, LenProperties DEF TypeOK
  <2>4. \A q \in Runs : /\ steady'[q] = steady[q] \ {listing[at]}
                       /\ slipped'[q] = slipped[q] \cup Slips(q, at)
    BY <2>1
  <2>5. MissingIsAhead'
    <3> SUFFICES ASSUME NEW q \in Runs, pc[q] = "collect", q \notin refused,
                        NEW k \in steady[q], k # listing[at],
                        k \notin ids[q] \cup slipped[q] \cup Slips(q, at)
                 PROVE  \E i \in DOMAIN listing' : i > page[q] * PageSize /\ listing'[i] = k
      BY <2>2, <2>4 DEF MissingIsAhead
    <3> DEFINE read == page[q] * PageSize
    <3>1. PICK j \in DOMAIN listing : j > read /\ listing[j] = k
      BY DEF CollectInv, MissingIsAhead
    <3>2. read \in Nat
      BY <1>1, TranslateAssumption DEF TypeOK
    <3>3. j = read + 1 => ~(at < j)
      BY <3>1 DEF Slips
    <3> HIDE DEF read
    <3>4. CASE j < at
      <4>1. j \in DOMAIN listing' /\ listing'[j] = k
        BY <2>1, <2>3, <3>1, <3>4
      <4> QED
        BY <3>1, <4>1 DEF read
    <3>5. CASE j > at
      <4>1. j - 1 \in DOMAIN listing' /\ listing'[j - 1] = k
        BY <2>1, <2>3, <3>1, <3>5
      <4>2. j - 1 > read
        BY <2>1, <2>3, <3>1, <3>2, <3>3, <3>5
      <4> QED
        BY <4>1, <4>2 DEF read
    <3> QED
      BY <2>1, <2>3, <3>1, <3>4, <3>5
  <2>6. CollectedAll' /\ LoopStartsAtFirstPage'
    BY <2>2, <2>4 DEF CollectInv, CollectedAll, LoopStartsAtFirstPage
  <2> QED
    BY <2>5, <2>6
<1> QED
  BY <1>2, <1>3, <1>4, <1>5, <1>6, <1>7 DEF Next, vars, script, keys, history

LEMMA CollectInit == Init => CollectInv
<1> SUFFICES ASSUME Init PROVE CollectInv
  OBVIOUS
<1>1. TypeOK
  <2>1. described \in BOOLEAN
    BY Zenon DEF Init
  <2>2. /\ pc \in [Runs -> {"idle"} \cup Busy \cup Ended]
        /\ token \in [Runs -> BOOLEAN]
        /\ prompt \in [Runs -> Runs \cup {NoPrompt}]
        /\ page \in [Runs -> Nat] /\ ids \in [Runs -> SUBSET Keys]
        /\ job \in [Runs -> {"none", "RUNNING", "SUCCESS", "FAILED"}]
        /\ steady \in [Runs -> SUBSET Keys]
    BY DEF Init, FirstPage
  <2>3. listing \in Seq(Keys) /\ edits \in 0..MaxEdits
    BY TranslateAssumption DEF Init
  <2> QED
    BY <2>1, <2>2, <2>3 DEF Init, TypeOK
<1> QED
  BY <1>1 DEF Init, CollectInv, LoopStartsAtFirstPage, MissingIsAhead, CollectedAll,
     Preparing, Collected

\* At every turn of the loop, what a run still misses is on a page to come, for
\* any number of runs, any page size and any edits (translate.mjs:113-122).
THEOREM MissingKeysAreAhead == Spec => []CollectInv
<1>1. CollectInv /\ [Next]_vars => CollectInv'
  BY CollectStep
<1> QED
  BY CollectInit, <1>1, PTL DEF Spec

\* For any number of concurrent runs, any page size and any additions and deletions
\* by others, the batch of a run no page was refused to holds every key that was
\* there from its first page to its last, but for those a deletion moved over the
\* boundary between what was read and what was to come (translate.mjs:113-122).
THEOREM PagesCoverTheProject == Spec => []CollectedAll
<1>1. CollectInv => CollectedAll
  BY DEF CollectInv
<1> QED
  BY <1>1, MissingKeysAreAhead, PTL

-----------------------------------------------------------------------------
(* What "translation complete" means.                                      *)

\* A job is started once, over the ids as they are from then on.
BeforeJob == Preparing \cup {"collect", "launch"}

JobInv ==
    \A r \in Runs :
        /\ pc[r] \in BeforeJob => job[r] = "none"
        /\ job[r] = "SUCCESS" => ids[r] \subseteq translated
        /\ pc[r] = "done" => job[r] = "SUCCESS"

\* A step that leaves the jobs alone and starts nothing over keeps JobInv.
LEMMA JoblessStep ==
    ASSUME TypeOK, JobInv, NEW r \in Runs, UNCHANGED <<job, ids, translated>>,
           NEW to, pc' = [pc EXCEPT ![r] = to],
           to \in BeforeJob => pc[r] \in BeforeJob,
           to = "done" => job[r] = "SUCCESS"
    PROVE  JobInv'
BY DEF JobInv, TypeOK

\* The inductive step (translate.mjs:113-148).
LEMMA JobStep == ASSUME TypeOK, JobInv, [Next]_vars PROVE JobInv'
<1> USE DEF BeforeJob, Preparing
<1>1. CASE UNCHANGED <<pc, job, ids, translated>>
  BY <1>1 DEF JobInv
<1>2. ASSUME NEW r \in Runs, Login(r) PROVE JobInv'
  BY <1>2, JoblessStep DEF Login, Goto
<1>3. ASSUME NEW r \in Runs, Script(r) PROVE JobInv'
  <2>1. CASE ReadPage(r)
    <3>1. /\ pc[r] = "collect"
          /\ pc' = [pc EXCEPT ![r] = IF LastPage(page[r]) THEN "launch" ELSE "collect"]
          /\ ids' = [ids EXCEPT ![r] = @ \cup PageKeys(page[r])]
          /\ UNCHANGED <<job, translated>>
      BY <2>1 DEF ReadPage, Goto
    <3>2. job[r] = "none"
      BY <3>1 DEF JobInv
    <3> QED
      BY <3>1, <3>2 DEF JobInv, TypeOK
  <2>2. CASE StartBatch(r)
    <3>1. PICK to \in {"relogin", "dead"} : pc' = [pc EXCEPT ![r] = to]
      BY <2>2 DEF StartBatch, Goto
    <3>2. job' = [job EXCEPT ![r] = "RUNNING"] /\ UNCHANGED <<ids, translated>>
      BY <2>2 DEF StartBatch
    <3> QED
      BY <3>1, <3>2 DEF JobInv, TypeOK
  <2>3. CASE PollSettles(r)
    BY <2>3, JoblessStep DEF PollSettles, Outcome, Goto
  <2>4. CASE Discover(r) \/ Describe(r) \/ FindPrompt(r) \/ FindNoPrompt(r)
             \/ CreateRefused(r) \/ Bind(r) \/ PageRefused(r)
    BY <2>4, JoblessStep DEF Discover, Describe, FindPrompt, FindNoPrompt, CreateRefused,
       Bind, PageRefused, Goto
  <2>5. CASE CreatePrompt(r)
    BY <2>5, JoblessStep DEF CreatePrompt, Goto
  <2>6. CASE Relogin(r) \/ PollAgain(r) \/ Dies(r)
    BY <2>6, JoblessStep DEF Relogin, PollAgain, Dies, Goto
  <2> QED
    BY <1>3, <2>1, <2>2, <2>3, <2>4, <2>5, <2>6 DEF Script
<1>4. ASSUME NEW r \in Runs, JobSucceeds(r) PROVE JobInv'
  BY <1>4 DEF JobSucceeds, script, JobInv, TypeOK
<1>5. ASSUME NEW r \in Runs, JobFails(r) PROVE JobInv'
  BY <1>5 DEF JobFails, script, JobInv, TypeOK
<1>6. ASSUME NEW r \in Runs, Expire(r) PROVE JobInv'
  BY <1>1, <1>6 DEF Expire
<1>7. CASE AddKey \/ DeleteKey
  BY <1>1, <1>7 DEF AddKey, DeleteKey, script
<1> QED
  BY <1>1, <1>2, <1>3, <1>4, <1>5, <1>6, <1>7 DEF Next, Server, vars, script

\* "translation complete" is said only of a batch whose every key is translated,
\* for any number of runs on one project, whatever the polls were answered and
\* however often a token expired (translate.mjs:125-147).
THEOREM DoneIsTranslated == Spec => []DoneMeansTranslated
<1>1. Init => JobInv
  BY DEF Init, JobInv
<1>2. TypeOK /\ JobInv /\ [Next]_vars => JobInv'
  BY JobStep
<1>3. Spec => []TypeOK
  <2>1. CollectInv => TypeOK
    BY DEF CollectInv
  <2> QED
    BY <2>1, MissingKeysAreAhead, PTL
<1>4. JobInv => DoneMeansTranslated
  BY DEF JobInv, DoneMeansTranslated
<1> QED
  BY <1>1, <1>2, <1>3, <1>4, PTL DEF Spec
=============================================================================
