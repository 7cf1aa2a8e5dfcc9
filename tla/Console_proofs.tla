---------------------------- MODULE Console_proofs ----------------------------
(***************************************************************************)
(* Proofs about Console, for any set of requests, peers and bodies.        *)
(***************************************************************************)
EXTENDS Console, SetLemmas, FiniteSetTheorems

Walks == [size : Int, page : Int, from : SUBSET (1..MaxRow), got : SUBSET (1..MaxRow),
          count : Int]

\* What is true of the types in every state.
TypeInv == TypeOK /\ walk \in [Requests -> Walks]

\* A transaction was sent by a request that waits for it or has stopped to wait, and
\* what it turned is in the token.
Sending ==
  \A r \in Requests :
    /\ tx[r] = "sent" => pc[r] \in {"invoke", "refused", "broken"}
    /\ tx[r] # "none" => pc[r] \in {"invoke", "refused", "broken", "listing", "accepted"}
    /\ tx[r] = "committed" => /\ body[r].good \cup body[r].bad \subseteq Peers
                              /\ body[r].bad \subseteq ever

\* A request that lists peers goes through those it has turned.
Listing ==
  \A r \in Requests :
    /\ todo[r] \subseteq ever
    /\ pc[r] \in {"listing", "accepted"} =>
         /\ tx[r] = "committed"
         /\ body[r].bad \subseteq listed \cup lost \cup todo[r]
    /\ pc[r] = "accepted" => todo[r] = {}

\* A request is answered on the timer last of all; until then, if nobody has switched
\* the timer since it looked, it has seen what the timer does.
Answering ==
  \A r \in Requests :
    /\ told[r] # "nothing" => pc[r] = "done"
    /\ r \in since /\ pc[r] = "answering" => reg[r] = timerFlag

\* A timer that is stopped has started a transfer since, or is about to, but not both.
Stopping ==
  /\ late <= ticks
  /\ tpc = "due" => ticks < MaxTicks
  /\ ~timerFlag => late <= 1 /\ (tpc = "due" => late = 0)

TimerInv == Answering /\ Stopping /\ ToldTheTruth

IInv ==
  /\ TypeInv /\ Sending /\ Listing
  /\ TimerInv /\ ListedWereByzantine /\ UnlistedExcused

-----------------------------------------------------------------------------
(* Types.                                                                  *)

LEMMA TypeInit == Init => TypeInv
BY ConsoleAssumption DEF Init, TypeInv, TypeOK, Walks, Walk, NoWalk, NoBody

\* A page is a set of rows, of which there are finitely many.
LEMMA PageType ==
  ASSUME rows \subseteq 1..MaxRow, NEW id, NEW size
  PROVE  Page(id, size) \subseteq rows /\ Cardinality(Page(id, size)) \in Nat
<1>1. Page(id, size) \subseteq rows
  BY DEF Page
<1>2. IsFiniteSet(1..MaxRow)
  BY ConsoleAssumption, FS_Interval
<1>3. IsFiniteSet(Page(id, size))
  BY <1>1, <1>2, FS_Subset
<1> QED
  BY <1>1, <1>3, FS_CardinalityType

\* What a browser keeps while it pages.
LEMMA WalkType ==
  ASSUME NEW size \in Int, NEW page \in Int, NEW from \in SUBSET (1..MaxRow),
         NEW got \in SUBSET (1..MaxRow), NEW count \in Int
  PROVE  /\ Walk(size, page, from, got, count) \in Walks
         /\ Walk(size, page, from, got, count).got = got
BY DEF Walk, Walks

\* The steps of timerTask, timerControl and controllerState.
LEMMA TypeTimer ==
  ASSUME TypeInv, TimerInv,
         \/ Check \/ Tick
         \/ \E r \in Requests :
              Press(r) \/ Switch(r) \/ LookAgain(r) \/ ControllerState(r) \/ Answer(r)
  PROVE  TypeInv'
<1> USE DEF TypeInv, TypeOK, Goto, registry, pages
<1>1. CASE Check
  BY <1>1 DEF Check, answers
<1>2. CASE Tick
  <2>1. ticks + 1 \in 0..MaxTicks /\ late + 1 \in 0..MaxTicks
    BY <1>2, ConsoleAssumption DEF Tick, TimerInv, Stopping
  <2> QED
    BY <1>2, <2>1 DEF Tick, answers
<1>3. ASSUME NEW r \in Requests, Press(r) PROVE TypeInv'
  BY <1>3 DEF Press, timer, answers
<1>4. ASSUME NEW r \in Requests, Switch(r) PROVE TypeInv'
  BY <1>4, ConsoleAssumption DEF Switch
<1>5. ASSUME NEW r \in Requests, LookAgain(r) \/ ControllerState(r) PROVE TypeInv'
  BY <1>5 DEF LookAgain, ControllerState, Look
<1>6. ASSUME NEW r \in Requests, Answer(r) PROVE TypeInv'
  BY <1>6 DEF Answer, Told
<1> QED
  BY <1>1, <1>2, <1>3, <1>4, <1>5, <1>6

\* The steps of muma.
LEMMA TypeMuma ==
  ASSUME TypeInv, Sending, NEW r \in Requests,
         \/ Preflight(r) \/ Muma(r) \/ Commit(r) \/ Refuse(r)
         \/ Accept(r) \/ UpdatePeers(r) \/ Respond(r)
  PROVE  TypeInv'
<1> USE DEF TypeInv, TypeOK, Goto, timer, answers, registry, pages
<1>1. CASE Preflight(r)
  BY <1>1 DEF Preflight
<1>2. CASE Muma(r)
  BY <1>2 DEF Muma
<1>3. CASE Commit(r)
  BY <1>3 DEF Commit
<1>4. CASE Refuse(r)
  BY <1>4 DEF Refuse
<1>5. CASE Accept(r)
  <2>1. body[r].bad \subseteq Peers
    BY <1>5 DEF Accept, Sending
  <2> QED
    BY <1>5, <2>1 DEF Accept
<1>6. CASE UpdatePeers(r)
  BY <1>6, ConsoleAssumption DEF UpdatePeers
<1>7. CASE Respond(r)
  BY <1>7 DEF Respond
<1> QED
  BY <1>1, <1>2, <1>3, <1>4, <1>5, <1>6, <1>7

\* The steps of a browser that pages, of the listener, and a crash.
LEMMA TypePages ==
  ASSUME TypeInv, Insert \/ Restart \/ \E r \in Requests : Open(r) \/ Turn(r)
  PROVE  TypeInv'
<1> USE DEF TypeInv, TypeOK, Goto, timer, answers, registry, pages
<1>1. CASE Insert
  BY <1>1 DEF Insert
<1>2. CASE Restart
  BY <1>2, ConsoleAssumption DEF Restart
<1>3. ASSUME NEW r \in Requests, Open(r) PROVE TypeInv'
  <2>1. PICK size \in Sizes :
          /\ Goto(r, IF size < 1 THEN "refused" ELSE "walk")
          /\ walk' = [walk EXCEPT ![r] = Walk(size, 1, rows, {}, 0)]
    BY <1>3 DEF Open
  <2>2. Walk(size, 1, rows, {}, 0) \in Walks /\ Walk(size, 1, rows, {}, 0).got = {}
    <3>1. size \in Int /\ rows \in SUBSET (1..MaxRow)
      BY ConsoleAssumption
    <3>2. 1 \in Int /\ 0 \in Int /\ {} \in SUBSET (1..MaxRow)
      OBVIOUS
    <3> QED
      BY ONLY <3>1, <3>2, WalkType
  <2>3. walk' \in [Requests -> Walks]
    BY <2>1, <2>2
  <2>4. \A q \in Requests : walk'[q].got \subseteq rows
    BY <2>1, <2>2
  <2> QED
    BY <1>3, <2>1, <2>3, <2>4 DEF Open
<1>4. ASSUME NEW r \in Requests, Turn(r) PROVE TypeInv'
  <2> DEFINE shown == Page(walk[r].page, walk[r].size)
             turned == Walk(walk[r].size, walk[r].page + 1, walk[r].from, walk[r].got \cup shown,
                            walk[r].count + Cardinality(shown))
  <2>1. shown \subseteq rows /\ Cardinality(shown) \in Nat
    BY PageType
  <2>2. walk' = [walk EXCEPT ![r] = turned]
    BY <1>4 DEF Turn
  <2>3. turned \in Walks /\ turned.got = walk[r].got \cup shown
    <3> HIDE DEF shown
    <3>1. walk[r] \in Walks
      OBVIOUS
    <3>2. /\ walk[r].size \in Int /\ walk[r].page \in Int /\ walk[r].count \in Int
          /\ walk[r].from \in SUBSET (1..MaxRow) /\ walk[r].got \in SUBSET (1..MaxRow)
      BY ONLY <3>1 DEF Walks
    <3>3. walk[r].page + 1 \in Int /\ walk[r].count + Cardinality(shown) \in Int
      BY ONLY <3>2, <2>1
    <3>4. walk[r].got \cup shown \in SUBSET (1..MaxRow)
      <4>1. rows \subseteq 1..MaxRow
        OBVIOUS
      <4> QED
        BY ONLY <3>2, <2>1, <4>1
    <3> QED
      BY ONLY <3>2, <3>3, <3>4, WalkType
  <2>4. walk' \in [Requests -> Walks] /\ \A q \in Requests : walk'[q].got \subseteq rows
    <3> HIDE DEF turned, shown
    <3> QED
      BY <2>1, <2>2, <2>3
  <2>5. pc' = pc \/ pc' = [pc EXCEPT ![r] = "done"]
    BY <1>4 DEF Turn
  <2> QED
    BY <1>4, <2>4, <2>5 DEF Turn
<1> QED
  BY <1>1, <1>2, <1>3, <1>4

-----------------------------------------------------------------------------
(* The requests that muma answers.                                         *)

LEMMA InvInit == Init => IInv
<1> SUFFICES ASSUME Init PROVE IInv
  OBVIOUS
<1>1. TypeInv
  BY TypeInit
<1>2. Sending /\ Listing
  BY DEF Init, Sending, Listing
<1>3. TimerInv /\ ListedWereByzantine
  BY ConsoleAssumption
     DEF Init, TimerInv, Answering, Stopping, ToldTheTruth, ListedWereByzantine
<1>4. UnlistedExcused
  BY DEF Init, UnlistedExcused, Excused
<1> QED
  BY <1>1, <1>2, <1>3, <1>4 DEF IInv

\* A step that muma has no part in: of another request, the timer or the listener.
Aside ==
  /\ UNCHANGED registry
  /\ \A r \in Requests :
       \/ pc'[r] = pc[r]
       \/ /\ pc[r] \in {"idle", "pressed", "switched", "answering", "walk"}
          /\ pc'[r] \in {"pressed", "switched", "answering", "walk", "refused", "done"}

LEMMA AsideKeeps ==
  ASSUME TypeInv, Sending, Listing, ListedWereByzantine, UnlistedExcused, Aside
  PROVE  Sending' /\ Listing' /\ ListedWereByzantine' /\ UnlistedExcused'
<1>1. UNCHANGED <<byz, ever, listed, body, tx, todo, lost>>
  BY DEF Aside, registry
<1>2. \A r \in Requests : pc'[r] = pc[r] \/ tx[r] = "none"
  BY DEF Aside, Sending, TypeInv, TypeOK
<1>3. Sending'
  BY <1>1, <1>2 DEF Sending, Aside
<1>4. Listing'
  BY <1>1 DEF Listing, Aside
<1>5. ListedWereByzantine'
  BY <1>1 DEF ListedWereByzantine
<1>6. UnlistedExcused'
  <2> SUFFICES ASSUME NEW k, k \in byz \ listed PROVE Excused(k)'
    BY <1>1 DEF UnlistedExcused
  <2>1. Excused(k)
    BY DEF UnlistedExcused
  <2> QED
    BY <2>1, <1>1, <1>2 DEF Excused
<1> QED
  BY <1>3, <1>4, <1>5, <1>6

LEMMA SendingKept ==
  ASSUME TypeInv, Sending, Listing, NEW r \in Requests,
         Muma(r) \/ Commit(r) \/ Refuse(r) \/ Accept(r) \/ UpdatePeers(r) \/ Respond(r)
  PROVE  Sending'
<1> USE DEF Sending, TypeInv, TypeOK, Goto
<1>1. CASE Muma(r)
  BY <1>1 DEF Muma
<1>2. CASE Commit(r)
  BY <1>2 DEF Commit
<1>3. CASE Refuse(r)
  BY <1>3 DEF Refuse
<1>4. CASE Accept(r)
  BY <1>4 DEF Accept
<1>5. CASE UpdatePeers(r)
  BY <1>5 DEF UpdatePeers
<1>6. CASE Respond(r)
  BY <1>6 DEF Respond, registry, Listing
<1> QED
  BY <1>1, <1>2, <1>3, <1>4, <1>5, <1>6

LEMMA ListingKept ==
  ASSUME TypeInv, Sending, Listing, ListedWereByzantine, NEW r \in Requests,
         Muma(r) \/ Commit(r) \/ Refuse(r) \/ Accept(r) \/ UpdatePeers(r) \/ Respond(r)
  PROVE  Listing' /\ ListedWereByzantine'
<1> USE DEF Listing, ListedWereByzantine, TypeInv, TypeOK, Goto
<1>1. CASE Muma(r)
  BY <1>1 DEF Muma
<1>2. CASE Commit(r)
  BY <1>2 DEF Commit
<1>3. CASE Refuse(r)
  BY <1>3 DEF Refuse
<1>4. CASE Accept(r)
  <2>1. tx[r] = "committed" /\ body[r].bad \subseteq ever
    BY <1>4 DEF Accept, Sending
  <2> QED
    BY <1>4, <2>1 DEF Accept
<1>5. CASE UpdatePeers(r)
  BY <1>5 DEF UpdatePeers
<1>6. CASE Respond(r)
  BY <1>6 DEF Respond, registry
<1> QED
  BY <1>1, <1>2, <1>3, <1>4, <1>5, <1>6

\* Whatever excuses that a peer is not listed stays, or the peer is listed.
LEMMA ExcusedKept ==
  ASSUME TypeInv, Sending, Listing, UnlistedExcused, NEW r \in Requests,
         Muma(r) \/ Commit(r) \/ Refuse(r) \/ Accept(r) \/ UpdatePeers(r) \/ Respond(r)
  PROVE  UnlistedExcused'
<1> USE DEF TypeInv, TypeOK, Goto
<1> SUFFICES ASSUME NEW k, k \in byz', k \notin listed' PROVE Excused(k)'
  BY DEF UnlistedExcused
<1>1. CASE Muma(r)
  <2>1. Excused(k) /\ tx[r] = "none"
    BY <1>1 DEF Muma, UnlistedExcused, Sending
  <2> QED
    BY <1>1, <2>1 DEF Muma, Excused
<1>2. CASE Commit(r)
  <2>1. pc[r] \in {"invoke", "refused", "broken"}
    BY <1>2 DEF Commit, Sending
  <2>2. CASE k \in body[r].bad
    BY <1>2, <2>1, <2>2 DEF Commit, Excused
  <2>3. CASE k \notin body[r].bad
    <3>1. Excused(k)
      BY <1>2, <2>3 DEF Commit, UnlistedExcused
    <3> QED
      BY <1>2, <3>1 DEF Commit, Excused
  <2> QED
    BY <2>2, <2>3
<1>3. CASE Refuse(r)
  <2>1. Excused(k)
    BY <1>3 DEF Refuse, UnlistedExcused
  <2> QED
    BY <1>3, <2>1 DEF Refuse, Excused
<1>4. CASE Accept(r)
  <2>1. Excused(k)
    BY <1>4 DEF Accept, UnlistedExcused
  <2> QED
    BY <1>4, <2>1 DEF Accept, Excused
<1>5. CASE UpdatePeers(r)
  <2>1. Excused(k)
    BY <1>5 DEF UpdatePeers, UnlistedExcused
  <2> QED
    BY <1>5, <2>1 DEF UpdatePeers, Excused
<1>6. CASE Respond(r)
  <2>1. Excused(k)
    BY <1>6 DEF Respond, registry, UnlistedExcused
  <2> QED
    BY <1>6, <2>1 DEF Respond, registry, Excused
<1> QED
  BY <1>1, <1>2, <1>3, <1>4, <1>5, <1>6

\* A crash breaks the requests off, and leaves the ledger and the tables.
LEMMA RestartKeeps ==
  ASSUME TypeInv, Sending, Listing, ListedWereByzantine, UnlistedExcused, Restart
  PROVE  Sending' /\ Listing' /\ ListedWereByzantine' /\ UnlistedExcused'
<1> USE DEF TypeInv, TypeOK
<1>1. UNCHANGED <<byz, ever, listed, body, tx, todo, lost>>
  BY DEF Restart, registry
<1>2. \A r \in Requests :
        \/ pc'[r] = pc[r]
        \/ /\ pc[r] \in {"pressed", "switched", "answering", "invoke", "listing"}
           /\ pc'[r] = "broken"
  BY DEF Restart
<1>3. Sending'
  BY <1>1, <1>2 DEF Sending
<1>4. Listing' /\ ListedWereByzantine'
  BY <1>1, <1>2 DEF Listing, ListedWereByzantine
<1>5. UnlistedExcused'
  <2> SUFFICES ASSUME NEW k, k \in byz \ listed PROVE Excused(k)'
    BY <1>1 DEF UnlistedExcused
  <2>1. Excused(k)
    BY DEF UnlistedExcused
  <2> QED
    BY <2>1, <1>1, <1>2 DEF Excused
<1> QED
  BY <1>3, <1>4, <1>5

-----------------------------------------------------------------------------
(* The timer.                                                              *)

LEMMA TimerStep ==
  ASSUME TypeInv, TimerInv,
         \/ Check \/ Tick \/ Restart
         \/ \E r \in Requests :
              Press(r) \/ Switch(r) \/ LookAgain(r) \/ ControllerState(r) \/ Answer(r)
  PROVE  TimerInv'
<1> USE DEF TimerInv, Answering, Stopping, ToldTheTruth, TypeInv, TypeOK, Goto
<1>1. CASE Check
  BY <1>1 DEF Check, answers
<1>2. CASE Tick
  BY <1>2 DEF Tick, answers
<1>3. ASSUME NEW r \in Requests, Press(r) PROVE TimerInv'
  BY <1>3 DEF Press, timer, answers
<1>4. ASSUME NEW r \in Requests, Switch(r) PROVE TimerInv'
  <2>1. Answering' /\ ToldTheTruth'
    BY <1>4 DEF Switch
  <2>2. Stopping'
    BY <1>4 DEF Switch
  <2> QED
    BY <2>1, <2>2
<1>5. ASSUME NEW r \in Requests, LookAgain(r) \/ ControllerState(r) PROVE TimerInv'
  <2>1. /\ pc[r] \in {"idle", "switched"} /\ told[r] = "nothing"
        /\ pc' = [pc EXCEPT ![r] = "answering"]
        /\ reg' = [reg EXCEPT ![r] = timerFlag] /\ since' = since \cup {r}
        /\ UNCHANGED <<timerFlag, tpc, ticks, late, told>>
    BY <1>5 DEF LookAgain, ControllerState, Look
  <2> QED
    BY <2>1
<1>6. ASSUME NEW r \in Requests, Answer(r) PROVE TimerInv'
  BY <1>6 DEF Answer, Told
<1>7. CASE Restart
  BY <1>7, ConsoleAssumption DEF Restart
<1> QED
  BY <1>1, <1>2, <1>3, <1>4, <1>5, <1>6, <1>7

\* The other requests have no part in it.
LEMMA TimerOthers ==
  ASSUME TypeInv, TimerInv,
         \/ Insert
         \/ \E r \in Requests :
              \/ Preflight(r) \/ Muma(r) \/ Commit(r) \/ Refuse(r)
              \/ Accept(r) \/ UpdatePeers(r) \/ Respond(r) \/ Open(r) \/ Turn(r)
  PROVE  TimerInv'
<1> USE DEF TypeInv, TypeOK, Goto
<1>1. UNCHANGED <<timer, reg>>
  BY DEF Insert, Preflight, Muma, Commit, Refuse, Accept, UpdatePeers, Respond, Open, Turn
<1> DEFINE Apart == \A q \in Requests :
                      pc'[q] = pc[q] \/ (pc[q] # "done" /\ pc'[q] # "answering")
<1>2. Apart
  <2>1. CASE Insert
    BY <2>1 DEF Insert
  <2>2. ASSUME NEW r \in Requests,
               Preflight(r) \/ Muma(r) \/ Commit(r) \/ Refuse(r) \/ Accept(r)
        PROVE  Apart
    BY <2>2 DEF Preflight, Muma, Commit, Refuse, Accept
  <2>3. ASSUME NEW r \in Requests, UpdatePeers(r) \/ Respond(r) PROVE Apart
    BY <2>3 DEF UpdatePeers, Respond
  <2>4. ASSUME NEW r \in Requests, Open(r) \/ Turn(r) PROVE Apart
    BY <2>4 DEF Open, Turn
  <2> QED
    BY <2>1, <2>2, <2>3, <2>4
<1>3. Answering'
  BY <1>1, <1>2 DEF TimerInv, Answering, timer, answers
<1>4. Stopping' /\ ToldTheTruth'
  BY <1>1 DEF TimerInv, Stopping, ToldTheTruth, timer, answers
<1> QED
  BY <1>3, <1>4 DEF TimerInv

-----------------------------------------------------------------------------
(* The invariant, and what follows from it.                                *)

\* The steps of muma once it has a body.
MumaStep(r) ==
  Muma(r) \/ Commit(r) \/ Refuse(r) \/ Accept(r) \/ UpdatePeers(r) \/ Respond(r)

LEMMA AsideSteps ==
  ASSUME TypeInv,
         \/ Check \/ Tick \/ Insert
         \/ \E r \in Requests :
              \/ Press(r) \/ Switch(r) \/ LookAgain(r) \/ ControllerState(r) \/ Answer(r)
              \/ Preflight(r) \/ Open(r) \/ Turn(r)
  PROVE  Aside
<1> USE DEF TypeInv, TypeOK, Goto, Aside
<1>1. CASE Check \/ Tick \/ Insert
  BY <1>1 DEF Check, Tick, Insert
<1>2. ASSUME NEW r \in Requests, Press(r) \/ Switch(r) \/ Answer(r) PROVE Aside
  BY <1>2 DEF Press, Switch, Answer
<1>3. ASSUME NEW r \in Requests, LookAgain(r) \/ ControllerState(r) \/ Preflight(r)
      PROVE  Aside
  BY <1>3 DEF LookAgain, ControllerState, Look, Preflight
<1>4. ASSUME NEW r \in Requests, Open(r) \/ Turn(r) PROVE Aside
  BY <1>4 DEF Open, Turn
<1> QED
  BY <1>1, <1>2, <1>3, <1>4

LEMMA InvStep == IInv /\ [Next]_vars => IInv'
<1> SUFFICES ASSUME IInv, [Next]_vars PROVE IInv'
  OBVIOUS
<1> USE DEF IInv
<1>1. CASE \/ Check \/ Tick \/ Insert
           \/ \E r \in Requests :
                \/ Press(r) \/ Switch(r) \/ LookAgain(r) \/ ControllerState(r) \/ Answer(r)
                \/ Preflight(r) \/ Open(r) \/ Turn(r)
  <2>1. TypeInv'
    BY <1>1, TypeTimer, TypeMuma, TypePages
  <2>2. Sending' /\ Listing' /\ ListedWereByzantine' /\ UnlistedExcused'
    BY <1>1, AsideSteps, AsideKeeps
  <2>3. TimerInv'
    BY <1>1, TimerStep, TimerOthers
  <2> QED
    BY <2>1, <2>2, <2>3
<1>2. ASSUME NEW r \in Requests, MumaStep(r) PROVE IInv'
  <2>1. TypeInv'
    BY <1>2, TypeMuma DEF MumaStep
  <2>2. Sending' /\ Listing' /\ ListedWereByzantine'
    BY <1>2, SendingKept, ListingKept DEF MumaStep
  <2>3. UnlistedExcused'
    BY <1>2, ExcusedKept DEF MumaStep
  <2>4. TimerInv'
    BY <1>2, TimerOthers DEF MumaStep
  <2> QED
    BY <2>1, <2>2, <2>3, <2>4
<1>3. CASE Restart
  BY <1>3, TypePages, RestartKeeps, TimerStep
<1>4. CASE UNCHANGED vars
  <2> USE <1>4 DEF vars, timer, answers, registry, pages
  <2>1. TypeInv'
    BY DEF TypeInv, TypeOK
  <2>2. Sending' /\ Listing' /\ ListedWereByzantine'
    BY DEF Sending, Listing, ListedWereByzantine
  <2>3. UnlistedExcused' /\ TimerInv'
    BY DEF UnlistedExcused, Excused, TimerInv, Answering, Stopping, ToldTheTruth
  <2> QED
    BY <2>1, <2>2, <2>3
<1> QED
  BY <1>1, <1>2, <1>3, <1>4 DEF Next, MumaStep

\* The state of the handlers has its types, and everything the other proofs need.
THEOREM Invariance == Spec => []IInv
<1>1. Init => IInv
  BY InvInit
<1>2. IInv /\ [Next]_vars => IInv'
  BY InvStep
<1> QED
  BY <1>1, <1>2, PTL DEF Spec

\* The variables of the handlers have their types: a peer that muma lists is one of
\* the token, what a browser got are rows.
THEOREM ConsoleTypes == Spec => []TypeOK
<1>1. IInv => TypeOK
  BY DEF IInv, TypeInv
<1> QED
  BY <1>1, Invariance, PTL

\* Whatever overlaps at timerControl and controllerState, the press that switched the
\* timer last and everybody who has looked since are answered with what it does now.
THEOREM AnswersAreTrue == Spec => []ToldTheTruth
<1>1. IInv => ToldTheTruth
  BY DEF IInv, TimerInv
<1> QED
  BY <1>1, Invariance, PTL

\* While an answer "false" is still true timerTask starts one more transfer at most,
\* the one it had decided on: there is no second tick without a look at timerFlag.
THEOREM AtMostOneLate == Spec => []StoppedStops
<1>1. IInv => StoppedStops
  <2> SUFFICES ASSUME IInv, NEW r \in since, told[r] = "stopped" PROVE late <= 1
    BY DEF StoppedStops
  <2>1. ~timerFlag
    BY DEF IInv, TimerInv, ToldTheTruth, Told
  <2> QED
    BY <2>1 DEF IInv, TimerInv, Stopping
<1> QED
  BY <1>1, Invariance, PTL

\* muma lists in MySQL no peer the token never called byzantine.
THEOREM ListedByToken == Spec => []ListedWereByzantine
<1>1. IInv => ListedWereByzantine
  BY DEF IInv
<1> QED
  BY <1>1, Invariance, PTL

\* A byzantine peer that MySQL does not list has one of the known reasons, however
\* requests, late commits, failing updates and crashes fall together.
THEOREM DriftExplained == Spec => []UnlistedExcused
<1>1. IInv => UnlistedExcused
  BY DEF IInv
<1> QED
  BY <1>1, Invariance, PTL

\* A request of muma that was answered with success has listed all it turned, but for
\* failing updates.
THEOREM SuccessIsListed == Spec => []AcceptedListed
<1>1. IInv => AcceptedListed
  BY DEF IInv, Listing, AcceptedListed
<1> QED
  BY <1>1, Invariance, PTL

-----------------------------------------------------------------------------
(* The pages.                                                              *)

Above(n) == {m \in rows : m > n}

LEMMA AboveType ==
  ASSUME rows \subseteq 1..MaxRow
  PROVE  /\ IsFiniteSet(rows)
         /\ \A S \in SUBSET rows : IsFiniteSet(S) /\ Cardinality(S) \in Nat
         /\ \A n : IsFiniteSet(Above(n)) /\ Cardinality(Above(n)) \in Nat
<1>1. IsFiniteSet(rows)
  <2>1. IsFiniteSet(1..MaxRow)
    BY ConsoleAssumption, FS_Interval
  <2> QED
    BY <2>1, FS_Subset
<1>2. \A S \in SUBSET rows : IsFiniteSet(S) /\ Cardinality(S) \in Nat
  BY <1>1, FS_Subset, FS_CardinalityType
<1> QED
  BY <1>1, <1>2 DEF Above

\* The first rows a page shows, counted from the highest.
First(k) == {n \in rows : Cardinality(Above(n)) < k}

\* There are as many of them as are asked for, or else they are all the rows.
LEMMA FirstRows ==
  ASSUME rows \subseteq 1..MaxRow, NEW k \in Nat
  PROVE  /\ IsFiniteSet(First(k)) /\ Cardinality(First(k)) \in Nat
         /\ Cardinality(First(k)) <= k
         /\ Cardinality(First(k)) >= k \/ First(k) = rows
<1> DEFINE C(n) == Cardinality(Above(n))
           High == {n \in rows : C(n) >= k}
<1>1. \A n \in rows : C(n) \in Nat
  BY AboveType
<1>2. First(k) \subseteq rows /\ rows \subseteq Nat
  <2>1. First(k) \subseteq rows
    BY DEF First
  <2>2. rows \subseteq Nat
    BY ONLY rows \subseteq 1..MaxRow, ConsoleAssumption
  <2> QED
    BY <2>1, <2>2
<1>3. IsFiniteSet(First(k)) /\ Cardinality(First(k)) \in Nat
  BY <1>2, AboveType
<1>4. Cardinality(First(k)) >= k \/ First(k) = rows
  <2>1. CASE High = {}
    <3>1. \A n \in rows : C(n) < k
      BY <1>1, <2>1
    <3> QED
      BY <3>1 DEF First
  <2>2. CASE High # {}
    <3>1. High \subseteq 1..MaxRow /\ MaxRow \in Nat
      BY ConsoleAssumption
    <3>2. PICK h \in High : \A n \in High : n <= h
      BY ONLY <2>2, <3>1, Greatest
    <3>3. Above(h) \subseteq First(k)
      <4> SUFFICES ASSUME NEW n \in rows, n > h PROVE C(n) < k
        BY DEF Above, First
      <4>1. n \in Int /\ h \in Int
        OBVIOUS
      <4>2. n \notin High
        BY <4>1, <3>2
      <4> QED
        BY <4>2, <1>1
    <3>4. C(h) <= Cardinality(First(k))
      BY <1>3, <3>3, FS_Subset
    <3> QED
      BY <1>1, <1>3, <3>2, <3>4
  <2> QED
    BY <2>1, <2>2
<1>5. Cardinality(First(k)) <= k
  <2>1. CASE First(k) = {}
    BY <2>1, FS_EmptySet
  <2>2. CASE First(k) # {}
    <3>1. PICK l \in First(k) : \A n \in First(k) : l <= n
      BY ONLY <1>2, <2>2, Least
    <3>2. First(k) \subseteq Above(l) \cup {l}
      <4> SUFFICES ASSUME NEW n \in First(k), n # l PROVE n \in Above(l)
        OBVIOUS
      <4>1. n \in rows /\ n \in Nat /\ l \in Nat /\ l <= n
        BY ONLY <1>2, <3>1, n \in First(k)
      <4>2. n > l
        BY <4>1
      <4> QED
        BY <4>1, <4>2 DEF Above
    <3>3. /\ IsFiniteSet(Above(l) \cup {l}) /\ Cardinality(Above(l) \cup {l}) <= C(l) + 1
          /\ Cardinality(Above(l) \cup {l}) \in Nat
      <4>1. IsFiniteSet(Above(l)) /\ C(l) \in Nat
        BY AboveType
      <4>2. IsFiniteSet(Above(l) \cup {l})
        BY ONLY <4>1, FS_AddElement
      <4>3. Cardinality(Above(l) \cup {l}) = IF l \in Above(l) THEN C(l) ELSE C(l) + 1
        BY ONLY <4>1, FS_AddElement
      <4> QED
        BY ONLY <4>1, <4>2, <4>3, FS_CardinalityType
    <3>4. Cardinality(First(k)) <= Cardinality(Above(l) \cup {l})
      BY <3>2, <3>3, FS_Subset
    <3>5. C(l) < k /\ C(l) \in Nat
      BY <1>1 DEF First
    <3> QED
      BY <1>3, <3>3, <3>4, <3>5
  <2> QED
    BY <2>1, <2>2
<1> QED
  BY <1>3, <1>4, <1>5

\* A page is what the rows up to its end have beyond the rows up to its beginning.
LEMMA PageIs ==
  ASSUME rows \subseteq 1..MaxRow, NEW id \in Int, NEW size \in Int, id >= 1, size >= 1
  PROVE  /\ id * size \in Nat /\ (id - 1) * size \in Nat
         /\ id * size = (id - 1) * size + size
         /\ First(id * size) = First((id - 1) * size) \cup Page(id, size)
         /\ First((id - 1) * size) \cap Page(id, size) = {}
<1>1. /\ id * size \in Nat /\ (id - 1) * size \in Nat
      /\ id * size = (id - 1) * size + size
  OBVIOUS
<1>2. \A n : Cardinality(Above(n)) \in Nat
  BY AboveType
<1>3. Page(id, size) = {n \in rows : Cardinality(Above(n)) \in (id - 1) * size .. id * size - 1}
  BY DEF Page, Above
<1>4. \A n : /\ Cardinality(Above(n)) < id * size
               <=> \/ Cardinality(Above(n)) < (id - 1) * size
                   \/ Cardinality(Above(n)) \in (id - 1) * size .. id * size - 1
             /\ ~ (/\ Cardinality(Above(n)) < (id - 1) * size
                   /\ Cardinality(Above(n)) \in (id - 1) * size .. id * size - 1)
  BY ONLY <1>1, <1>2, size \in Int, size >= 1
<1> QED
  BY ONLY <1>1, <1>3, <1>4 DEF First

LEMMA PageCard ==
  ASSUME rows \subseteq 1..MaxRow, NEW id \in Int, NEW size \in Int, id >= 1, size >= 1
  PROVE  /\ Cardinality(Page(id, size)) \in Nat
         /\ Cardinality(First(id * size)) = Cardinality(First((id - 1) * size)) + Cardinality(Page(id, size))
<1> DEFINE A == First((id - 1) * size)
           B == Page(id, size)
<1>1. IsFiniteSet(A) /\ IsFiniteSet(B) /\ Cardinality(A) \in Nat /\ Cardinality(B) \in Nat
  BY AboveType DEF First, Page
<1>2. Cardinality(A \cup B) = Cardinality(A) + Cardinality(B)
  <2>1. A \cap B = {}
    BY PageIs
  <2>2. Cardinality(A \cup B) = Cardinality(A) + Cardinality(B) - Cardinality(A \cap B)
    BY ONLY <1>1, FS_Union
  <2>3. Cardinality(A \cap B) = 0
    BY ONLY <2>1, FS_EmptySet
  <2> HIDE DEF A, B
  <2> QED
    BY ONLY <1>1, <2>2, <2>3
<1>3. First(id * size) = A \cup B
  BY PageIs
<1> QED
  BY <1>1, <1>2, <1>3

\* If a row has a whole number of pages above it, or more, the last of them is full.
LEMMA FullPage ==
  ASSUME rows \subseteq 1..MaxRow, NEW id \in Int, NEW size \in Int, id >= 1, size >= 1,
         NEW x \in rows, Cardinality(Above(x)) >= id * size
  PROVE  Cardinality(Page(id, size)) >= size
<1>1. /\ id * size \in Nat /\ (id - 1) * size \in Nat
      /\ id * size = (id - 1) * size + size
  BY PageIs
<1>2. x \notin First(id * size)
  BY <1>1, AboveType DEF First
<1>3. Cardinality(First(id * size)) \in Nat /\ Cardinality(First(id * size)) >= id * size
  BY <1>1, <1>2, FirstRows
<1>4. /\ Cardinality(First((id - 1) * size)) \in Nat
      /\ Cardinality(First((id - 1) * size)) <= (id - 1) * size
  BY <1>1, FirstRows
<1> QED
  BY <1>1, <1>3, <1>4, PageCard

\* A row a browser has not seen yet has at least the pages above it that it has read.
WalkInv ==
  \A r \in Requests :
    /\ walk[r].from \subseteq rows
    /\ pc[r] \in {"idle", "pressed", "switched", "answering"} => walk[r].from = {}
    /\ pc[r] = "walk" =>
         /\ walk[r].size >= 1 /\ walk[r].page >= 1
         /\ \A n \in walk[r].from \ walk[r].got :
              Cardinality(Above(n)) >= (walk[r].page - 1) * walk[r].size
    /\ pc[r] = "done" => walk[r].from \subseteq walk[r].got

\* A step that leaves the rows and the pages, and ends no walk.
LEMMA WalkAside ==
  ASSUME WalkInv, UNCHANGED pages,
         \A r \in Requests :
           \/ pc'[r] = pc[r]
           \/ pc[r] \in {"idle", "pressed", "switched", "answering"} /\ pc'[r] # "walk"
           \/ pc'[r] \notin {"idle", "pressed", "switched", "answering", "walk", "done"}
  PROVE  WalkInv'
BY DEF WalkInv, Above, pages

LEMMA WalkInsert ==
  ASSUME TypeInv, TypeInv', WalkInv, Insert
  PROVE  WalkInv'
<1>1. rows \subseteq rows' /\ walk' = walk /\ pc' = pc
  BY DEF Insert
<1>2. rows \subseteq 1..MaxRow /\ rows' \subseteq 1..MaxRow
  BY DEF TypeInv, TypeOK
<1>3. \A n : Cardinality(Above(n)) \in Nat /\ Cardinality(Above(n)') \in Nat
             /\ Cardinality(Above(n)') >= Cardinality(Above(n))
  <2> TAKE n
  <2>1. IsFiniteSet(1..MaxRow)
    BY ConsoleAssumption, FS_Interval
  <2>2. Above(n)' \in SUBSET (1..MaxRow) /\ Above(n) \in SUBSET Above(n)'
    BY <1>1, <1>2 DEF Above
  <2>3. IsFiniteSet(Above(n)')
    BY ONLY <2>1, <2>2, FS_Subset
  <2>4. IsFiniteSet(Above(n)) /\ Cardinality(Above(n)) <= Cardinality(Above(n)')
    BY ONLY <2>2, <2>3, FS_Subset
  <2> QED
    BY <2>3, <2>4, FS_CardinalityType
<1> SUFFICES ASSUME NEW r \in Requests
             PROVE  WalkInv!(r)'
  BY DEF WalkInv
<1>4. \A n : pc[r] = "walk" => (walk[r].page - 1) * walk[r].size \in Int
  BY DEF TypeInv, Walks
<1> QED
  BY <1>1, <1>3, <1>4 DEF WalkInv

LEMMA WalkOpen ==
  ASSUME TypeInv, WalkInv, NEW r \in Requests, Open(r)
  PROVE  WalkInv'
<1>1. PICK size \in Sizes :
        /\ Goto(r, IF size < 1 THEN "refused" ELSE "walk")
        /\ walk' = [walk EXCEPT ![r] = Walk(size, 1, rows, {}, 0)]
        /\ rows' = rows
  BY DEF Open
<1>2. \A q \in Requests : q # r => pc'[q] = pc[q] /\ walk'[q] = walk[q]
  BY <1>1 DEF Goto, TypeInv, TypeOK
<1>3. /\ walk'[r] = Walk(size, 1, rows, {}, 0)
      /\ pc'[r] = IF size < 1 THEN "refused" ELSE "walk"
  BY <1>1 DEF Goto, TypeInv, TypeOK
<1>4. \A n : Cardinality(Above(n)) \in Nat
  BY AboveType DEF TypeInv, TypeOK
<1>5. size \in Int /\ (1 - 1) * size = 0
  BY ConsoleAssumption
<1> SUFFICES ASSUME NEW q \in Requests PROVE WalkInv!(q)'
  BY DEF WalkInv
<1>6. CASE q = r
  BY <1>1, <1>3, <1>4, <1>5, <1>6 DEF Walk, Above
<1>7. CASE q # r
  BY <1>1, <1>2, <1>7 DEF WalkInv, Above
<1> QED
  BY <1>6, <1>7

LEMMA WalkTurn ==
  ASSUME TypeInv, WalkInv, NEW r \in Requests, Turn(r)
  PROVE  WalkInv'
<1> DEFINE w == walk[r]
           shown == Page(w.page, w.size)
<1>1. /\ pc[r] = "walk" /\ rows' = rows
      /\ walk' = [walk EXCEPT ![r] = Walk(w.size, w.page + 1, w.from, w.got \cup shown,
                                          w.count + Cardinality(shown))]
      /\ IF Cardinality(shown) < w.size THEN pc' = [pc EXCEPT ![r] = "done"] ELSE pc' = pc
  BY DEF Turn, Goto
<1>2. \A q \in Requests : q # r => pc'[q] = pc[q] /\ walk'[q] = walk[q]
  BY <1>1 DEF TypeInv, TypeOK
<1>3. /\ walk'[r].size = w.size /\ walk'[r].page = w.page + 1
      /\ walk'[r].from = w.from /\ walk'[r].got = w.got \cup shown
  BY <1>1 DEF Walk, TypeInv
<1>4. /\ w.size \in Int /\ w.page \in Int /\ w.size >= 1 /\ w.page >= 1
      /\ w.from \subseteq rows
      /\ \A n \in w.from \ w.got : Cardinality(Above(n)) >= (w.page - 1) * w.size
  BY <1>1 DEF WalkInv, TypeInv, Walks
<1>5. rows \subseteq 1..MaxRow /\ \A n : Cardinality(Above(n)) \in Nat
  BY AboveType DEF TypeInv, TypeOK
<1>6. \A n \in w.from \ (w.got \cup shown) : Cardinality(Above(n)) >= w.page * w.size
  <2> SUFFICES ASSUME NEW n \in w.from \ (w.got \cup shown)
               PROVE  Cardinality(Above(n)) >= w.page * w.size
    OBVIOUS
  <2>1. n \in rows /\ Cardinality(Above(n)) >= (w.page - 1) * w.size
    BY <1>4
  <2>2. Cardinality(Above(n)) \notin (w.page - 1) * w.size .. w.page * w.size - 1
    BY <2>1 DEF Page, Above
  <2>3. (w.page - 1) * w.size \in Int /\ w.page * w.size \in Int
    BY <1>4
  <2> QED
    BY ONLY <2>1, <2>2, <2>3, <1>5
<1>7. Cardinality(shown) < w.size => w.from \subseteq w.got \cup shown
  <2> SUFFICES ASSUME NEW n \in w.from \ (w.got \cup shown), Cardinality(shown) < w.size
               PROVE  FALSE
    OBVIOUS
  <2>1. n \in rows /\ Cardinality(Above(n)) >= w.page * w.size
    BY <1>4, <1>6
  <2>2. Cardinality(shown) >= w.size
    BY ONLY <2>1, <1>4, <1>5, FullPage
  <2>3. Cardinality(shown) \in Nat
    BY <1>5, PageType
  <2> QED
    BY ONLY <2>2, <2>3, <1>4, Cardinality(shown) < w.size
<1> HIDE DEF shown, w
<1> SUFFICES ASSUME NEW q \in Requests PROVE WalkInv!(q)'
  BY DEF WalkInv
<1>8. CASE q = r
  <2>1. pc'[r] = "done" \/ (pc'[r] = "walk" /\ ~(Cardinality(shown) < w.size))
    BY <1>1 DEF TypeInv, TypeOK
  <2>2. pc'[r] = "done" => Cardinality(shown) < w.size
    BY <1>1
  <2>3. /\ walk'[r].size >= 1 /\ walk'[r].page >= 1
        /\ walk'[r].page - 1 = w.page
    BY ONLY <1>3, <1>4
  <2>4. (walk'[r].page - 1) * walk'[r].size = w.page * w.size
    BY ONLY <1>3, <2>3
  <2>5. \A n \in walk'[r].from \ walk'[r].got :
          Cardinality(Above(n)') >= (walk'[r].page - 1) * walk'[r].size
    <3>1. \A n : Above(n)' = Above(n)
      BY <1>1 DEF Above
    <3> QED
      BY ONLY <1>3, <1>6, <2>4, <3>1
  <2>6. walk'[r].from \subseteq rows'
    BY <1>1, <1>3, <1>4
  <2>7. pc'[r] = "done" => walk'[r].from \subseteq walk'[r].got
    BY <1>3, <1>7, <2>2
  <2> QED
    BY ONLY <1>8, <2>1, <2>3, <2>5, <2>6, <2>7
<1>9. CASE q # r
  BY <1>1, <1>2, <1>9 DEF WalkInv, Above
<1> QED
  BY <1>8, <1>9

LEMMA WalkStep == IInv /\ IInv' /\ WalkInv /\ [Next]_vars => WalkInv'
<1> SUFFICES ASSUME TypeInv, TypeInv', WalkInv, [Next]_vars PROVE WalkInv'
  BY DEF IInv
<1>1. CASE Insert
  BY <1>1, WalkInsert
<1>2. ASSUME NEW r \in Requests, Open(r) PROVE WalkInv'
  BY <1>2, WalkOpen
<1>3. ASSUME NEW r \in Requests, Turn(r) PROVE WalkInv'
  BY <1>3, WalkTurn
<1>4. CASE UNCHANGED vars \/ Check \/ Tick \/ Restart
  BY <1>4, WalkAside DEF vars, pages, Check, Tick, Restart, TypeInv, TypeOK
<1>5. ASSUME NEW r \in Requests,
             \/ Press(r) \/ Switch(r) \/ LookAgain(r) \/ ControllerState(r) \/ Answer(r)
             \/ Preflight(r)
      PROVE  WalkInv'
  BY <1>5, WalkAside
     DEF Press, Switch, Answer, LookAgain, ControllerState, Look, Preflight, Goto,
         pages, TypeInv, TypeOK
<1>6. ASSUME NEW r \in Requests, MumaStep(r) PROVE WalkInv'
  BY <1>6, WalkAside DEF MumaStep, Muma, Commit, Refuse, Accept, UpdatePeers, Respond,
                         Goto, pages, TypeInv, TypeOK
<1> QED
  BY <1>1, <1>2, <1>3, <1>4, <1>5, <1>6 DEF Next, MumaStep

\* A browser that walks through the pages misses no row there was when it began, for
\* every number of rows, page size and row recorded meanwhile.
THEOREM WalksAreComplete == Spec => []WalkComplete
<1>1. Init => WalkInv
  BY DEF Init, WalkInv, NoWalk, Walk
<1>2. IInv /\ IInv' /\ WalkInv /\ [Next]_vars => WalkInv'
  BY WalkStep
<1>3. WalkInv => WalkComplete
  BY DEF WalkInv, WalkComplete
<1> QED
  BY <1>1, <1>2, <1>3, Invariance, PTL DEF Spec

\* A browser has been shown at most the rows of full pages, at most all rows, and
\* nothing twice for which no row was inserted.
CountInv ==
  \A r \in Requests :
    /\ walk[r].count \in Nat
    /\ pc[r] \in {"idle", "pressed", "switched", "answering"} => walk[r] = NoWalk
    /\ pc[r] = "walk" => /\ walk[r].count <= (walk[r].page - 1) * walk[r].size
                         /\ walk[r].count <= Cardinality(rows)
    /\ walk[r].count - Cardinality(walk[r].got) <= Cardinality(rows \ walk[r].from)

\* What is shown with a page and was not there at first, or not shown before, makes up
\* for all that was counted.
LEMMA CountTurn ==
  ASSUME TypeInv, WalkInv, CountInv, NEW r \in Requests, Turn(r)
  PROVE  CountInv'
<1> DEFINE w == walk[r]
           shown == Page(w.page, w.size)
           all == First(w.page * w.size)
           old == First((w.page - 1) * w.size)
<1>1. /\ pc[r] = "walk" /\ rows' = rows
      /\ walk' = [walk EXCEPT ![r] = Walk(w.size, w.page + 1, w.from, w.got \cup shown,
                                          w.count + Cardinality(shown))]
      /\ pc' = [pc EXCEPT ![r] = "done"] \/ pc' = pc
  BY DEF Turn, Goto
<1>2. \A q \in Requests : q # r => pc'[q] = pc[q] /\ walk'[q] = walk[q]
  BY <1>1 DEF TypeInv, TypeOK
<1>3. /\ walk'[r].size = w.size /\ walk'[r].page = w.page + 1
      /\ walk'[r].from = w.from /\ walk'[r].got = w.got \cup shown
      /\ walk'[r].count = w.count + Cardinality(shown)
  BY <1>1 DEF Walk, TypeInv
<1>4. /\ w.size \in Int /\ w.page \in Int /\ w.size >= 1 /\ w.page >= 1
      /\ w.from \subseteq rows
      /\ \A n \in w.from \ w.got : Cardinality(Above(n)) >= (w.page - 1) * w.size
  BY <1>1 DEF WalkInv, TypeInv, Walks
<1>5. /\ w.count \in Nat /\ w.count <= (w.page - 1) * w.size /\ w.count <= Cardinality(rows)
  BY <1>1 DEF CountInv
<1>6. rows \subseteq 1..MaxRow /\ w.got \subseteq rows
  BY DEF TypeInv, TypeOK
<1>7. \A S \in SUBSET rows : IsFiniteSet(S) /\ Cardinality(S) \in Nat
  BY <1>6, AboveType
<1> HIDE DEF w
<1>8. /\ w.page * w.size \in Nat /\ (w.page - 1) * w.size \in Nat
      /\ w.page * w.size = (w.page - 1) * w.size + w.size
      /\ all = old \cup shown
      /\ Cardinality(shown) \in Nat
      /\ Cardinality(all) = Cardinality(old) + Cardinality(shown)
  BY ONLY <1>4, <1>6, PageIs, PageCard
<1>9. /\ Cardinality(old) \in Nat /\ Cardinality(old) >= w.count
      /\ Cardinality(all) \in Nat /\ Cardinality(all) <= w.page * w.size
  <2>1. Cardinality(old) \in Nat /\ (Cardinality(old) >= (w.page - 1) * w.size \/ old = rows)
    BY ONLY <1>6, <1>8, FirstRows
  <2>2. Cardinality(all) \in Nat /\ Cardinality(all) <= w.page * w.size
    BY ONLY <1>6, <1>8, FirstRows
  <2> HIDE DEF old, all
  <2> QED
    BY ONLY <1>5, <1>8, <2>1, <2>2
<1>10. all \subseteq rows /\ shown \subseteq rows /\ old \subseteq rows
  BY DEF First, Page
<1>11. old \subseteq w.got \cup (rows \ w.from)
  <2> SUFFICES ASSUME NEW n \in old, n \in w.from, n \notin w.got PROVE FALSE
    BY <1>10
  <2>1. Cardinality(Above(n)) < (w.page - 1) * w.size
    BY DEF First
  <2>2. Cardinality(Above(n)) >= (w.page - 1) * w.size
    BY <1>4
  <2>3. Cardinality(Above(n)) \in Nat
    BY <1>6, AboveType
  <2> QED
    BY ONLY <1>8, <2>1, <2>2, <2>3
<1> HIDE DEF all, old, shown
<1>12. w.count + Cardinality(shown) <= Cardinality(all)
  BY ONLY <1>5, <1>8, <1>9
<1>13. Cardinality(all) <= Cardinality(rows)
  BY <1>7, <1>10, FS_Subset
<1>14. Cardinality(all) <= Cardinality(w.got \cup shown) + Cardinality(rows \ w.from)
  <2> DEFINE A == w.got \cup shown
             B == rows \ w.from
  <2>1. all \subseteq A \cup B
    BY ONLY <1>8, <1>10, <1>11
  <2>2. A \subseteq rows /\ B \subseteq rows
    BY <1>6, <1>10
  <2> HIDE DEF A, B
  <2>3. /\ IsFiniteSet(A) /\ Cardinality(A) \in Nat /\ IsFiniteSet(B) /\ Cardinality(B) \in Nat
        /\ Cardinality(A \cap B) \in Nat
        /\ IsFiniteSet(A \cup B) /\ Cardinality(A \cup B) \in Nat
    BY <1>7, <2>2
  <2>4. Cardinality(A \cup B) = Cardinality(A) + Cardinality(B) - Cardinality(A \cap B)
    BY ONLY <2>3, FS_Union
  <2>5. Cardinality(all) <= Cardinality(A \cup B)
    BY ONLY <2>1, <2>3, FS_Subset
  <2>6. Cardinality(all) <= Cardinality(A) + Cardinality(B)
    BY ONLY <1>9, <2>3, <2>4, <2>5
  <2> QED
    BY ONLY <2>6 DEF A, B
<1>15. /\ Cardinality(w.got \cup shown) \in Nat /\ Cardinality(rows \ w.from) \in Nat
       /\ Cardinality(rows) \in Nat
  BY <1>6, <1>7, <1>10
<1> SUFFICES ASSUME NEW q \in Requests PROVE CountInv!(q)'
  BY DEF CountInv
<1>16. CASE q = r
  <2>1. w.count + Cardinality(shown) \in Nat
    BY ONLY <1>5, <1>8
  <2>2. /\ w.count + Cardinality(shown) <= w.page * w.size
        /\ w.count + Cardinality(shown) <= Cardinality(rows)
        /\ w.count + Cardinality(shown) - Cardinality(w.got \cup shown) <= Cardinality(rows \ w.from)
    BY ONLY <1>5, <1>8, <1>9, <1>12, <1>13, <1>14, <1>15
  <2>3. pc'[r] \in {"walk", "done"}
    BY <1>1 DEF TypeInv, TypeOK
  <2>4. (walk'[r].page - 1) * walk'[r].size = w.page * w.size
    <3>1. walk'[r].page - 1 = w.page
      BY ONLY <1>3, <1>4
    <3> QED
      BY ONLY <1>3, <3>1
  <2>5. rows' \ walk'[r].from = rows \ w.from
    BY ONLY <1>1, <1>3
  <2>6. walk'[r].count \in Nat
    BY ONLY <1>3, <2>1
  <2>7. /\ walk'[r].count <= (walk'[r].page - 1) * walk'[r].size
        /\ walk'[r].count <= Cardinality(rows')
    BY ONLY <1>1, <1>3, <2>2, <2>4
  <2>8. walk'[r].count - Cardinality(walk'[r].got) <= Cardinality(rows' \ walk'[r].from)
    <3>1. Cardinality(rows' \ walk'[r].from) = Cardinality(rows \ w.from)
      BY ONLY <2>5
    <3>2. Cardinality(walk'[r].got) = Cardinality(w.got \cup shown)
      BY ONLY <1>3
    <3>3. walk'[r].count = w.count + Cardinality(shown)
      BY ONLY <1>3
    <3> QED
      BY ONLY <1>5, <1>8, <1>15, <2>1, <2>2, <3>1, <3>2, <3>3
  <2> QED
    BY ONLY <1>16, <2>3, <2>6, <2>7, <2>8
<1>17. CASE q # r
  BY <1>1, <1>2, <1>17 DEF CountInv
<1> QED
  BY <1>16, <1>17

\* A step that leaves the rows and the pages, and begins no walk.
LEMMA CountAside ==
  ASSUME CountInv, UNCHANGED pages,
         \A r \in Requests :
           \/ pc'[r] = pc[r]
           \/ pc[r] \in {"idle", "pressed", "switched", "answering"} /\ pc'[r] # "walk"
           \/ pc'[r] \notin {"idle", "pressed", "switched", "answering", "walk"}
  PROVE  CountInv'
BY DEF CountInv, pages

\* A row that is recorded may be shown twice, or push one into the next page.
LEMMA CountInsert ==
  ASSUME TypeInv, TypeInv', CountInv, Insert
  PROVE  CountInv'
<1>1. rows \subseteq rows' /\ walk' = walk /\ pc' = pc
  BY DEF Insert
<1>2. rows' \subseteq 1..MaxRow
  BY DEF TypeInv, TypeOK
<1>3. \A S \in SUBSET rows' : IsFiniteSet(S) /\ Cardinality(S) \in Nat
  <2>1. IsFiniteSet(1..MaxRow)
    BY ConsoleAssumption, FS_Interval
  <2> QED
    BY ONLY <1>2, <2>1, FS_Subset, FS_CardinalityType
<1>4. Cardinality(rows) \in Nat /\ Cardinality(rows') \in Nat
      /\ Cardinality(rows) <= Cardinality(rows')
  BY ONLY <1>1, <1>3, FS_Subset
<1> SUFFICES ASSUME NEW r \in Requests
             PROVE  CountInv!(r)'
  BY DEF CountInv
<1>5. /\ Cardinality(rows \ walk[r].from) \in Nat
      /\ Cardinality(rows' \ walk[r].from) \in Nat
      /\ Cardinality(rows \ walk[r].from) <= Cardinality(rows' \ walk[r].from)
  <2>1. /\ rows \ walk[r].from \subseteq rows' \ walk[r].from
        /\ rows' \ walk[r].from \in SUBSET rows'
        /\ rows \ walk[r].from \in SUBSET rows'
    BY ONLY <1>1
  <2> QED
    BY ONLY <1>3, <2>1, FS_Subset
<1>6. Cardinality(walk[r].got) \in Nat
  BY <1>1, <1>3 DEF TypeInv, TypeOK
<1>7. pc[r] = "walk" => (walk[r].page - 1) * walk[r].size \in Int
  BY DEF TypeInv, Walks
<1>8. CountInv!(r)
  BY DEF CountInv
<1> QED
  BY ONLY <1>1, <1>4, <1>5, <1>6, <1>7, <1>8

LEMMA CountOpen ==
  ASSUME TypeInv, CountInv, NEW r \in Requests, Open(r)
  PROVE  CountInv'
<1>1. PICK size \in Sizes :
        /\ Goto(r, IF size < 1 THEN "refused" ELSE "walk")
        /\ walk' = [walk EXCEPT ![r] = Walk(size, 1, rows, {}, 0)]
        /\ rows' = rows
  BY DEF Open
<1>2. \A q \in Requests : q # r => pc'[q] = pc[q] /\ walk'[q] = walk[q]
  BY <1>1 DEF Goto, TypeInv, TypeOK
<1>3. /\ walk'[r] = Walk(size, 1, rows, {}, 0)
      /\ pc'[r] = IF size < 1 THEN "refused" ELSE "walk"
  BY <1>1 DEF Goto, TypeInv, TypeOK
<1>4. Cardinality(rows) \in Nat /\ Cardinality({}) = 0 /\ rows \ rows = {}
  BY AboveType, FS_EmptySet DEF TypeInv, TypeOK
<1>5. size \in Int /\ (1 - 1) * size = 0
  BY ConsoleAssumption
<1> SUFFICES ASSUME NEW q \in Requests PROVE CountInv!(q)'
  BY DEF CountInv
<1>6. CASE q = r
  <2>1. /\ walk'[r].count = 0 /\ walk'[r].got = {} /\ walk'[r].from = rows
        /\ walk'[r].page = 1 /\ walk'[r].size = size
    BY ONLY <1>3 DEF Walk
  <2>2. walk'[r].count - Cardinality(walk'[r].got) = 0
    BY ONLY <1>4, <2>1
  <2>3. Cardinality(rows' \ walk'[r].from) = 0
    BY ONLY <1>1, <1>4, <2>1
  <2>4. (walk'[r].page - 1) * walk'[r].size = 0
    BY ONLY <1>5, <2>1
  <2> QED
    BY ONLY <1>1, <1>3, <1>4, <1>6, <2>1, <2>2, <2>3, <2>4
<1>7. CASE q # r
  BY <1>1, <1>2, <1>7 DEF CountInv
<1> QED
  BY <1>6, <1>7

\* A browser that pages sees rows again at most as often as rows were recorded since it
\* began, wherever in the table they came to stand.
THEOREM RepeatsAreFew == Spec => []RepeatsBounded
<1>1. Init => WalkInv /\ CountInv
  <2>1. Cardinality({}) = 0 /\ {} \ {} = {}
    BY FS_EmptySet
  <2>2. Init => CountInv
    <3> SUFFICES ASSUME Init, NEW r \in Requests PROVE CountInv!(r)
      BY DEF CountInv
    <3>1. walk[r] = NoWalk /\ pc[r] = "idle" /\ rows = {}
      BY DEF Init
    <3>2. walk[r].count = 0 /\ walk[r].got = {} /\ walk[r].from = {}
      BY <3>1 DEF NoWalk, Walk
    <3>3. walk[r].count - Cardinality(walk[r].got) = 0
      BY ONLY <2>1, <3>2
    <3>4. Cardinality(rows \ walk[r].from) = 0
      BY ONLY <2>1, <3>1, <3>2
    <3> QED
      BY ONLY <3>1, <3>2, <3>3, <3>4
  <2> QED
    BY <2>2 DEF Init, WalkInv, NoWalk, Walk
<1>2. IInv /\ IInv' /\ WalkInv /\ [Next]_vars => WalkInv'
  BY WalkStep
<1>3. IInv /\ IInv' /\ WalkInv /\ CountInv /\ [Next]_vars => CountInv'
  <2> SUFFICES ASSUME TypeInv, TypeInv', WalkInv, CountInv, [Next]_vars PROVE CountInv'
    BY DEF IInv
  <2>1. CASE Insert
    BY <2>1, CountInsert
  <2>2. ASSUME NEW r \in Requests, Open(r) PROVE CountInv'
    BY <2>2, CountOpen
  <2>3. ASSUME NEW r \in Requests, Turn(r) PROVE CountInv'
    BY <2>3, CountTurn
  <2>4. CASE UNCHANGED vars \/ Check \/ Tick \/ Restart
    BY <2>4, CountAside DEF vars, pages, Check, Tick, Restart, TypeInv, TypeOK
  <2>5. ASSUME NEW r \in Requests,
               \/ Press(r) \/ Switch(r) \/ LookAgain(r) \/ ControllerState(r) \/ Answer(r)
               \/ Preflight(r)
        PROVE  CountInv'
    BY <2>5, CountAside
       DEF Press, Switch, Answer, LookAgain, ControllerState, Look, Preflight, Goto,
         pages, TypeInv, TypeOK
  <2>6. ASSUME NEW r \in Requests, MumaStep(r) PROVE CountInv'
    BY <2>6, CountAside DEF MumaStep, Muma, Commit, Refuse, Accept, UpdatePeers, Respond,
                            Goto, pages, TypeInv, TypeOK
  <2> QED
    BY <2>1, <2>2, <2>3, <2>4, <2>5, <2>6 DEF Next, MumaStep
<1>4. CountInv => RepeatsBounded
  BY DEF CountInv, RepeatsBounded
<1> QED
  BY <1>1, <1>2, <1>3, <1>4, Invariance, PTL DEF Spec
=============================================================================
