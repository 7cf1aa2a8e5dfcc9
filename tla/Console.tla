------------------------------- MODULE Console -------------------------------
(***************************************************************************)
(* The HTTP handlers of main.go beside the websockets, and timerTask: the  *)
(* switch of the timer (timerControl, controllerState), the change of      *)
(* peers (muma), which writes the token and then the table peer, and the   *)
(* pages of blocks and transactions.  Each request is a goroutine of its   *)
(* own.  The network is what TokenLedger promises, the tables of blocks    *)
(* and transactions what BlockStore promises; peers are those of the       *)
(* table.  A bool is one byte, read and written at once by the build.      *)
(*                                                                         *)
(* A definition marked (mutant) is the next one with a bug the properties  *)
(* have to notice.                                                         *)
(***************************************************************************)
EXTENDS Integers, FiniteSets

CONSTANTS
  Requests,     (* HTTP requests; a browser that pages is one of them       *)
  Peers,        (* the names in the token and in the table peer             *)
  Bodies,       (* what muma is sent: the names with a true value, and the  *)
                (* others                                                   *)
  Initial,      (* the byzantine peers the token was issued with            *)
  Sizes,        (* page sizes browsers ask for                              *)
  MaxRow,       (* bound: the rows are 1 .. MaxRow                          *)
  MaxTicks,     (* bound on the transfers of the timer                      *)
  MaxFaults,    (* bound on failing updates of the table peer               *)
  MaxRestarts   (* bound on crashes of the process                          *)

ASSUME ConsoleAssumption ==
  /\ \A b \in Bodies : b.good \cap b.bad = {}
  /\ Initial \subseteq Peers
  /\ Sizes \subseteq Int
  /\ {MaxRow, MaxTicks, MaxFaults, MaxRestarts} \subseteq Nat

VARIABLES
  timerFlag,    (* does the timer send transfers?                           *)
  tpc,          (* timerTask: has it found timerFlag set at this tick?      *)
  ticks,        (* the transfers the timer has started                      *)
  late,         (* bookkeeping: those of them since it was switched off     *)
  told,         (* bookkeeping: what each request was answered on it        *)
  since,        (* bookkeeping: who switched timerFlag last, and who has    *)
                (* read it for an answer since then                         *)
  byz,          (* the byzantine peers of the token                         *)
  ever,         (* bookkeeping: the peers that muma ever made byzantine     *)
  listed,       (* the peers with peer_type 1 in the table peer             *)
  rows,         (* the rows of the table a browser reads                    *)
  pc,           (* where each request is                                    *)
  reg,          (* timerControl: the value it has read, negated, and then   *)
                (* the one it has read for the answer                       *)
  body,         (* muma: what it was sent                                   *)
  tx,           (* muma: its transaction                                    *)
  todo,         (* muma: names it has still to update                       *)
  lost,         (* bookkeeping: names whose update failed                   *)
  walk,         (* a browser that reads page after page                     *)
  faults, restarts

answers  == <<told, since>>
timer    == <<timerFlag, tpc, ticks, late, answers>>
registry == <<byz, ever, listed, body, tx, todo, lost, faults>>
pages    == <<rows, walk>>
vars     == <<timer, registry, pages, pc, reg, restarts>>

NoBody == [good |-> {}, bad |-> {}]
\* the page a browser asks for next, the rows there were when it began, and those it got
Walk(size, page, from, got, count) ==
  [size |-> size, page |-> page, from |-> from, got |-> got, count |-> count]
NoWalk == Walk(0, 0, {}, {}, 0)

Init ==
  /\ timerFlag = TRUE /\ tpc = "wait" /\ ticks = 0 /\ late = 0
  /\ told = [r \in Requests |-> "nothing"] /\ since = {}
  /\ byz = Initial /\ ever = {} /\ listed = {}
  /\ rows = {}
  /\ pc = [r \in Requests |-> "idle"]
  /\ reg = [r \in Requests |-> FALSE]
  /\ body = [r \in Requests |-> NoBody]
  /\ tx = [r \in Requests |-> "none"]
  /\ todo = [r \in Requests |-> {}]
  /\ lost = {}
  /\ walk = [r \in Requests |-> NoWalk]
  /\ faults = 0 /\ restarts = 0

Goto(r, l) == pc' = [pc EXCEPT ![r] = l]

(******************************** the timer ********************************)

\* timerTask reads timerFlag, at each tick anew
Check ==
  /\ tpc = "wait" /\ timerFlag /\ ticks < MaxTicks
  /\ tpc' = "due"
  /\ UNCHANGED <<timerFlag, ticks, late, answers, registry, pages, pc, reg, restarts>>

\* (mutant) goes on without another look at timerFlag
TickAgain ==
  /\ tpc = "due" /\ ticks < MaxTicks
  /\ ticks' = ticks + 1
  /\ late' = IF timerFlag THEN late ELSE late + 1
  /\ UNCHANGED <<timerFlag, tpc, answers, registry, pages, pc, reg, restarts>>

\* and starts InvokeCC, when a press may have been answered in between
Tick ==
  /\ tpc = "due" /\ tpc' = "wait"
  /\ ticks' = ticks + 1
  /\ late' = IF timerFlag THEN late ELSE late + 1
  /\ UNCHANGED <<timerFlag, answers, registry, pages, pc, reg, restarts>>

\* timerFlag = !timerFlag is a read and a write
Press(r) ==
  /\ pc[r] = "idle" /\ Goto(r, "pressed")
  /\ reg' = [reg EXCEPT ![r] = ~timerFlag]
  /\ UNCHANGED <<timer, registry, pages, restarts>>

Switch(r) ==
  /\ pc[r] = "pressed" /\ Goto(r, "switched")
  /\ timerFlag' = reg[r]
  /\ late' = IF reg[r] # timerFlag THEN 0 ELSE late
  /\ since' = {r}
  /\ UNCHANGED <<tpc, ticks, told, registry, pages, reg, restarts>>

\* (mutant) answers what it has written
AnswerOwn(r) ==
  /\ pc[r] = "switched" /\ Goto(r, "answering")
  /\ since' = since \cup {r}
  /\ UNCHANGED <<timerFlag, tpc, ticks, late, told, registry, pages, reg, restarts>>

Look(r) ==
  /\ Goto(r, "answering")
  /\ reg' = [reg EXCEPT ![r] = timerFlag]
  /\ since' = since \cup {r}
  /\ UNCHANGED <<timerFlag, tpc, ticks, late, told, registry, pages, restarts>>

\* FormatBool(timerFlag) of timerControl is a second read
LookAgain(r) == pc[r] = "switched" /\ Look(r)

ControllerState(r) == pc[r] = "idle" /\ Look(r)

Told(b) == IF b THEN "running" ELSE "stopped"

\* the answer is written after timerFlag was read for it
Answer(r) ==
  /\ pc[r] = "answering" /\ Goto(r, "done")
  /\ told' = [told EXCEPT ![r] = Told(reg[r])]
  /\ UNCHANGED <<timerFlag, tpc, ticks, late, since, registry, pages, reg, restarts>>

(********************************** muma ***********************************)

\* an OPTIONS request, or one whose body cannot be read
Preflight(r) ==
  /\ pc[r] = "idle" /\ Goto(r, "done")
  /\ UNCHANGED <<timer, registry, pages, reg, restarts>>

Muma(r) ==
  /\ pc[r] = "idle" /\ Goto(r, "invoke")
  /\ \E b \in Bodies : body' = [body EXCEPT ![r] = b]
  /\ tx' = [tx EXCEPT ![r] = "sent"]
  /\ UNCHANGED <<timer, byz, ever, listed, todo, lost, faults, pages, reg, restarts>>

\* setPeer takes effect, also when nobody waits for it any more
Commit(r) ==
  /\ tx[r] = "sent" /\ body[r].good \cup body[r].bad \subseteq Peers
  /\ tx' = [tx EXCEPT ![r] = "committed"]
  /\ byz' = (byz \ body[r].good) \cup body[r].bad
  /\ ever' = ever \cup body[r].bad
  /\ UNCHANGED <<timer, listed, body, todo, lost, faults, pages, pc, reg, restarts>>

\* InvokeCC returns an error: the endorsement or the transaction failed, or
\* its event did not come in time
Refuse(r) ==
  /\ pc[r] = "invoke" /\ Goto(r, "refused")
  /\ \/ tx[r] = "sent" /\ tx' = [tx EXCEPT ![r] = "none"]
     \/ UNCHANGED tx
  /\ UNCHANGED <<timer, byz, ever, listed, body, todo, lost, faults, pages, reg, restarts>>

\* (mutant) takes every name
AcceptAll(r) ==
  /\ pc[r] = "invoke" /\ tx[r] = "committed" /\ Goto(r, "listing")
  /\ todo' = [todo EXCEPT ![r] = body[r].good \cup body[r].bad]
  /\ UNCHANGED <<timer, byz, ever, listed, body, tx, lost, faults, pages, reg, restarts>>

Accept(r) ==
  /\ pc[r] = "invoke" /\ tx[r] = "committed" /\ Goto(r, "listing")
  /\ todo' = [todo EXCEPT ![r] = body[r].bad]
  /\ UNCHANGED <<timer, byz, ever, listed, body, tx, lost, faults, pages, reg, restarts>>

\* (mutant) updates one row and answers
UpdateOne(r) ==
  /\ pc[r] = "listing"
  /\ \E k \in todo[r] :
       /\ listed' = listed \cup {k}
       /\ todo' = [todo EXCEPT ![r] = {}]
  /\ UNCHANGED <<timer, byz, ever, body, tx, lost, faults, pages, pc, reg, restarts>>

\* the map is ranged over in any order; the error of UpdatePeers is dropped
UpdatePeers(r) ==
  /\ pc[r] = "listing"
  /\ \E k \in todo[r] :
       /\ todo' = [todo EXCEPT ![r] = @ \ {k}]
       /\ \/ listed' = listed \cup {k} /\ UNCHANGED <<lost, faults>>
          \/ /\ faults < MaxFaults /\ faults' = faults + 1
             /\ lost' = lost \cup {k} /\ UNCHANGED listed
  /\ UNCHANGED <<timer, byz, ever, body, tx, pages, pc, reg, restarts>>

Respond(r) ==
  /\ pc[r] = "listing" /\ todo[r] = {} /\ Goto(r, "accepted")
  /\ UNCHANGED <<timer, registry, pages, reg, restarts>>

(********************************** pages **********************************)

\* the listener records a block, not necessarily above the others
Insert ==
  /\ \E n \in (1..MaxRow) \ rows : rows' = rows \cup {n}
  /\ UNCHANGED <<timer, registry, walk, pc, reg, restarts>>

\* (mutant) counts the pages from 0
PageFrom0(id, size) ==
  {n \in rows : Cardinality({m \in rows : m > n}) \in id * size .. (id + 1) * size - 1}

\* (mutant) shows the row after the page as well
PageOver(id, size) ==
  {n \in rows : Cardinality({m \in rows : m > n}) \in (id - 1) * size .. id * size}

\* order by ... desc limit (id-1)*size, size
Page(id, size) ==
  {n \in rows : Cardinality({m \in rows : m > n}) \in (id - 1) * size .. id * size - 1}

Open(r) ==
  /\ pc[r] = "idle"
  /\ \E size \in Sizes :
       /\ Goto(r, IF size < 1 THEN "refused" ELSE "walk")
       /\ walk' = [walk EXCEPT ![r] = Walk(size, 1, rows, {}, 0)]
  /\ UNCHANGED <<timer, registry, rows, reg, restarts>>

\* the browser asks for the next page until one is not full
Turn(r) ==
  /\ pc[r] = "walk"
  /\ LET w == walk[r]
         shown == Page(w.page, w.size)
     IN  /\ walk' = [walk EXCEPT ![r] = Walk(w.size, w.page + 1, w.from, w.got \cup shown,
                                             w.count + Cardinality(shown))]
         /\ IF Cardinality(shown) < w.size THEN Goto(r, "done") ELSE UNCHANGED pc
  /\ UNCHANGED <<timer, registry, rows, reg, restarts>>

(********************************* restarts ********************************)

\* the process ends and is started again: what it was doing is gone
Restart ==
  /\ restarts < MaxRestarts /\ restarts' = restarts + 1
  /\ timerFlag' = TRUE /\ tpc' = "wait" /\ late' = 0
  /\ told' = [r \in Requests |-> "nothing"] /\ since' = {}
  /\ pc' = [r \in Requests |->
              IF pc[r] \in {"pressed", "switched", "answering", "invoke", "listing"}
              THEN "broken" ELSE pc[r]]
  /\ UNCHANGED <<ticks, registry, pages, reg>>

Next ==
  \/ Check \/ Tick \/ Insert \/ Restart
  \/ \E r \in Requests :
       \/ Press(r) \/ ControllerState(r) \/ Preflight(r) \/ Muma(r) \/ Open(r)
       \/ Commit(r) \/ Refuse(r) \/ Switch(r) \/ LookAgain(r) \/ Answer(r)
       \/ Accept(r) \/ UpdatePeers(r) \/ Respond(r) \/ Turn(r)

Spec == Init /\ [][Next]_vars

(******************************** properties *******************************)

TypeOK ==
  /\ timerFlag \in BOOLEAN /\ tpc \in {"wait", "due"}
  /\ ticks \in 0..MaxTicks /\ late \in 0..MaxTicks
  /\ told \in [Requests -> {"nothing", "running", "stopped"}] /\ since \subseteq Requests
  /\ byz \subseteq Peers /\ ever \subseteq Peers /\ listed \subseteq Peers
  /\ rows \subseteq 1..MaxRow
  /\ pc \in [Requests -> {"idle", "pressed", "switched", "answering", "invoke", "listing",
                          "walk", "refused", "accepted", "broken", "done"}]
  /\ reg \in [Requests -> BOOLEAN]
  /\ body \in [Requests -> Bodies \cup {NoBody}]
  /\ tx \in [Requests -> {"none", "sent", "committed"}]
  /\ todo \in [Requests -> SUBSET Peers]
  /\ lost \subseteq Peers
  /\ \A r \in Requests : walk[r].got \subseteq rows
  /\ faults \in 0..MaxFaults /\ restarts \in 0..MaxRestarts

\* However requests overlap, the press that switched the timer last is answered with
\* what the timer does now, and so is everybody whose handler has looked since then:
\* timerControl looks again for its answer.  (An answer may be delivered late, when the
\* timer has been switched after the look; the last answer to arrive need not be true.)
ToldTheTruth == \A r \in since : told[r] \in {"nothing", Told(timerFlag)}

\* Who is answered that the timer is stopped may see one more transfer that timerTask
\* had decided on, but not a second, until somebody presses again or the process is
\* started again.
StoppedStops == \A r \in since : told[r] = "stopped" => late <= 1

\* The table peer calls no peer byzantine that the token never did.
ListedWereByzantine == listed \subseteq ever

Excused(k) ==
  \/ k \in Initial \cup lost
  \/ \E r \in Requests :
       /\ k \in body[r].bad /\ tx[r] = "committed"
       /\ \/ pc[r] \in {"invoke", "refused", "broken"}
          \/ pc[r] = "listing" /\ k \in todo[r]

\* A peer that the token calls byzantine and the table peer does not has a reason:
\* it was issued like that, the update of its row failed, or the request that turned
\* it is not that far, was answered with an error, or was broken off by a crash.
UnlistedExcused == \A k \in byz \ listed : Excused(k)

\* Who was answered with success finds in the table the peers he turned, but for rows
\* that could not be updated.
AcceptedListed ==
  \A r \in Requests : pc[r] = "accepted" => body[r].bad \subseteq listed \cup lost

\* A browser that walks through the pages has seen every row there was when it
\* started, also when rows were recorded above or below the page it was at.
WalkComplete ==
  \A r \in Requests : pc[r] = "done" => walk[r].from \subseteq walk[r].got

\* It saw rows again no more often than rows were recorded meanwhile.
RepeatsBounded ==
  \A r \in Requests :
    walk[r].count - Cardinality(walk[r].got) <= Cardinality(rows \ walk[r].from)
=============================================================================
