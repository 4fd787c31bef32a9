---------------------------- MODULE CircuitBreaker ---------------------------
(***************************************************************************)
(* The emergency halt of the blockchains.                                  *)
(*                                                                         *)
(*   CircuitBreakerService    pauseChain, resumeChain, pauseAllChains      *)
(*   SecurityWatchdogService  checkAnomalies, which may pause all chains   *)
(*   TransferFacet            paused() and togglePause() of the contract   *)
(*                            on an EVM chain                              *)
(*                                                                         *)
(* The state of an EVM chain is in its contract, which can only be         *)
(* toggled: a call reads it, decides, toggles, and waits.  A toggle that   *)
(* was sent and not waited for is mined at any later time, or never.  Of   *)
(* the other chains there is only the map that each server process keeps   *)
(* in memory.                                                              *)
(* PanicLog rows tell operators what is still unresolved.                  *)
(*                                                                         *)
(* Chains are numbered in the order in which pauseAllChains visits them.   *)
(***************************************************************************)
EXTENDS Integers, FiniteSets

CONSTANTS
  Chains,     \* the supported chains
  EVM,        \* those with a contract (ETHEREUM, POLYGON)
  Servers,    \* server processes
  Calls,      \* concurrent calls of the service
  MaxActive,  \* bound: calls in progress at once
  MaxFaults   \* bound: failures and restarts

VARIABLES
  paused,  \* TransferFacet's flag on each EVM chain
  sent,    \* toggles under way that nobody waits for, by chain
  local,   \* chainStates: the chains that each server believes to be paused
  logged,  \* chainScope of the unresolved rows of PanicLog
  pc,      \* where each call stands
  job,     \* what it does: [op, server, chain, rest]
  faults,  \* failures so far
  told,    \* history: chains that a call reported paused, and no call came to resume since
  held,    \* history: those of them that nothing else was about to change meanwhile
  missed   \* history: chains that a call failed at, or that something else was about to
           \* change while it worked on them, or that were resumed since

history == <<told, held, missed>>
vars == <<paused, sent, local, logged, pc, job, faults, history>>

ALL   == 0
NoJob == [op |-> "none", server |-> ALL, chain |-> ALL, rest |-> {}]
Least(S) == CHOOSE x \in S : \A y \in S : x <= y

Active     == {c \in Calls : pc[c] # "idle"}
Pausing(c) == job[c].op # "resume"
At(c, ch)  == pc[c] \in {"toggle", "note", "log"} /\ job[c].chain = ch
Fault      == faults < MaxFaults /\ faults' = faults + 1
-----------------------------------------------------------------------------
(* Calls *)

Begin(c, op, s, ch, rest) ==
  /\ pc[c] = "idle" /\ Cardinality(Active) < MaxActive
  /\ pc' = [pc EXCEPT ![c] = "read"]
  /\ job' = [job EXCEPT ![c] = [op |-> op, server |-> s, chain |-> ch, rest |-> rest]]
  /\ UNCHANGED <<paused, sent, local, logged, faults, held, missed>>

PauseChain(c, s, ch)  == Begin(c, "pause", s, ch, {}) /\ UNCHANGED told
ResumeChain(c, s, ch) == Begin(c, "resume", s, ch, {}) /\ told' = told \ {ch}
PauseAllChains(c, op, s) ==
  Begin(c, op, s, Least(Chains), Chains \ {Least(Chains)}) /\ UNCHANGED told

Critical == {"DEPOSIT_SPIKE", "VOLUME_SPIKE"}
Anomalies == Critical \cup {"HIGH_FAILURE_RATE", "STALE_DEPOSITS"}

\* checkAnomalies: one failure rate that is too high, or more than two critical
\* anomalies.  The scheduler of a server runs one check at a time.
Escalates(found) == "HIGH_FAILURE_RATE" \in found \/ Cardinality(found \cap Critical) > 2

CheckAnomalies(c, s) ==
  /\ \A d \in Active : ~ (job[d].op = "watchdog" /\ job[d].server = s)
  /\ \E found \in SUBSET Anomalies : Escalates(found)
  /\ PauseAllChains(c, "watchdog", s)
-----------------------------------------------------------------------------
(* One chain *)

Goto(c, place) == pc' = [pc EXCEPT ![c] = place] /\ UNCHANGED job

IsPanic(c) == job[c].op \in {"all", "watchdog"}

Finish(c) ==
  /\ pc' = [pc EXCEPT ![c] = "idle"]
  /\ job' = [job EXCEPT ![c] = NoJob]
  /\ missed' = [missed EXCEPT ![c] = {}]

\* The next chain of a panic, or the row for all of them at its end.
Advance(c) ==
  LET next == Least(job[c].rest)
  IN  IF job[c].rest = {}
      THEN Goto(c, "global")
      ELSE /\ pc' = [pc EXCEPT ![c] = "read"]
           /\ job' = [job EXCEPT ![c] = [op |-> job[c].op, server |-> job[c].server,
                                         chain |-> next, rest |-> job[c].rest \ {next}]]

Done(c) == IF IsPanic(c) THEN Advance(c) /\ UNCHANGED missed ELSE Finish(c)
Miss(c) == missed' = [missed EXCEPT ![c] = @ \cup {job[c].chain}]

\* Mutation: nothing catches the exception inside the loop over the chains.
Thrown_Uncaught(c) == IF IsPanic(c) THEN Goto(c, "global") /\ Miss(c) ELSE Finish(c)

\* An exception ends a call; a panic goes on with the next chain.
Thrown(c) == IF IsPanic(c) THEN Advance(c) /\ Miss(c) ELSE Finish(c)

\* Something else is about to change chain ch: a toggle that is due or under way; where
\* there is no contract, a call that resumes.
Contended(ch) ==
  IF ch \in EVM
    THEN sent[ch] > 0 \/ \E d \in Calls : pc[d] = "toggle" /\ job[d].chain = ch
    ELSE \E d \in Calls : At(d, ch) /\ ~ Pausing(d)

\* What the histories keep of a call that looks at a chain, and of the calls that a
\* toggle of it catches at work there.
Looked(c, ch, toggles) ==
  IF Pausing(c)
    THEN /\ missed' = [d \in Calls |->
                         IF d = c THEN IF Contended(ch) THEN missed[c] \cup {ch} ELSE missed[c] \ {ch}
                         ELSE IF toggles /\ At(d, ch) THEN missed[d] \cup {ch} ELSE missed[d]]
         /\ UNCHANGED <<told, held>>
    ELSE /\ held' = held \ {ch}
         /\ missed' = [d \in Calls |-> IF d \in Active THEN missed[d] \cup {ch} ELSE {}]
         /\ UNCHANGED told

\* The call reports: no call to resume is at work beside it, or its report says nothing.
Reported(c, ch) ==
  /\ told' = IF Pausing(c) /\ ~ (\E d \in Active : job[d].op = "resume" /\ job[d].chain = ch)
                THEN told \cup {ch} ELSE told
  /\ held' = IF Pausing(c) /\ ch \notin missed[c] THEN held \cup {ch} ELSE held

\* Mutation: the current state is not looked at.
Read_Blind(c) ==
  LET ch == job[c].chain IN
  /\ pc[c] = "read"
  /\ Goto(c, IF ch \in EVM THEN "toggle" ELSE "note")
  /\ Looked(c, ch, ch \in EVM)
  /\ UNCHANGED <<paused, sent, local, logged, faults>>

\* paused(): nothing to toggle when the contract is in the state asked for.
Read(c) ==
  LET ch      == job[c].chain
      toggles == ch \in EVM /\ (ch \in paused) # Pausing(c)
  IN  /\ pc[c] = "read"
      /\ Goto(c, IF toggles THEN "toggle" ELSE "note")
      /\ Looked(c, ch, toggles)
      /\ UNCHANGED <<paused, sent, local, logged, faults>>

\* togglePause: whatever the flag is by now, it is the other one afterwards.
Flip(ch) == paused' = IF ch \in paused THEN paused \ {ch} ELSE paused \cup {ch}

Toggle(c) ==
  /\ pc[c] = "toggle"
  /\ Flip(job[c].chain)
  /\ Goto(c, "note")
  /\ UNCHANGED <<sent, local, logged, faults, history>>

\* The server's own map.  An EVM chain is through; of the others a row is kept.
Note(c) ==
  LET ch == job[c].chain
      s  == job[c].server
  IN  /\ pc[c] = "note"
      /\ local' = [local EXCEPT ![s] = IF Pausing(c) THEN @ \cup {ch} ELSE @ \ {ch}]
      /\ IF ch \in EVM THEN Reported(c, ch) /\ Done(c) ELSE Goto(c, "log") /\ UNCHANGED history
      /\ UNCHANGED <<paused, sent, logged, faults>>

\* panicLog.create, or updateMany of every unresolved row of the chain.
Log(c) ==
  LET ch == job[c].chain IN
  /\ pc[c] = "log"
  /\ logged' = IF Pausing(c) THEN logged \cup {ch} ELSE logged \ {ch}
  /\ Reported(c, ch) /\ Done(c)
  /\ UNCHANGED <<paused, sent, local, faults>>

\* The row of a panic, which no call about one of the chains resolves.
LogAll(c) ==
  /\ pc[c] = "global"
  /\ logged' = logged \cup {ALL}
  /\ Finish(c)
  /\ UNCHANGED <<paused, sent, local, faults, told, held>>
-----------------------------------------------------------------------------
(* Failures *)

\* The chain or the database throws.  A toggle may have been sent all the same: wait()
\* failed, and the transaction is on its way.
Throw(c) ==
  /\ pc[c] \in {"read", "toggle", "log"}
  /\ \/ UNCHANGED sent
     \/ pc[c] = "toggle" /\ sent' = [sent EXCEPT ![job[c].chain] = @ + 1]
  /\ Thrown(c) /\ Fault
  /\ UNCHANGED <<paused, local, logged, told, held>>

\* A toggle under way is mined.
Mine(ch) ==
  /\ sent[ch] > 0
  /\ sent' = [sent EXCEPT ![ch] = @ - 1]
  /\ Flip(ch)
  /\ UNCHANGED <<local, logged, pc, job, faults, history>>

\* triggerPanic catches the failure of the row for all chains.
LogAllFails(c) ==
  /\ pc[c] = "global"
  /\ Finish(c) /\ Fault
  /\ UNCHANGED <<paused, sent, local, logged, told, held>>

\* A server restarts: its calls are gone, those that sent their toggle and those
\* that did not, and its map says that all is active.
Restart(s) ==
  /\ Fault
  /\ \E senders \in SUBSET {c \in Calls : pc[c] = "toggle" /\ job[c].server = s} :
       sent' = [ch \in EVM |-> sent[ch] + Cardinality({c \in senders : job[c].chain = ch})]
  /\ local' = [local EXCEPT ![s] = {}]
  /\ pc' = [c \in Calls |-> IF job[c].server = s THEN "idle" ELSE pc[c]]
  /\ job' = [c \in Calls |-> IF job[c].server = s THEN NoJob ELSE job[c]]
  /\ missed' = [c \in Calls |-> IF job[c].server = s THEN {} ELSE missed[c]]
  /\ UNCHANGED <<paused, logged, told, held>>
-----------------------------------------------------------------------------
Init ==
  /\ paused \in SUBSET EVM
  /\ sent = [ch \in EVM |-> 0]
  /\ local = [s \in Servers |-> {}]
  /\ logged = {}
  /\ pc = [c \in Calls |-> "idle"]
  /\ job = [c \in Calls |-> NoJob]
  /\ faults = 0
  /\ told = {} /\ held = {}
  /\ missed = [c \in Calls |-> {}]

Step(c) == Read(c) \/ Toggle(c) \/ Note(c) \/ Log(c) \/ LogAll(c)

Next ==
  \/ \E c \in Calls, s \in Servers :
       \/ \E ch \in Chains : PauseChain(c, s, ch) \/ ResumeChain(c, s, ch)
       \/ PauseAllChains(c, "all", s)
       \/ CheckAnomalies(c, s)
  \/ \E c \in Calls : Step(c) \/ Throw(c) \/ LogAllFails(c)
  \/ \E ch \in EVM : Mine(ch)
  \/ \E s \in Servers : Restart(s)

Spec == Init /\ [][Next]_vars
-----------------------------------------------------------------------------
(* Properties *)

\* Flags, maps and rows are about the chains they can be about: only EVM chains
\* have a flag, and none of them ever has a row of its own.
TypeOK ==
  /\ paused \subseteq EVM
  /\ sent \in [EVM -> Nat]
  /\ local \in [Servers -> SUBSET Chains]
  /\ logged \subseteq (Chains \ EVM) \cup {ALL}
  /\ pc \in [Calls -> {"idle", "read", "toggle", "note", "log", "global"}]
  /\ job \in [Calls -> [op : {"none", "pause", "resume", "all", "watchdog"},
                        server : Servers \cup {ALL}, chain : Chains \cup {ALL},
                        rest : SUBSET Chains]]
  /\ faults \in 0..MaxFaults
  /\ told \subseteq Chains
  /\ held \subseteq Chains
  /\ missed \in [Calls -> SUBSET Chains]

\* circuitBreakerRoutes.ts:85-86 says that all operations on the paused chain are
\* rejected until resume is called: a chain with a contract that a call has reported
\* paused stays paused until a call comes to resume it.  Two calls that both saw it
\* active toggle twice; a toggle whose receipt was lost arrives later.
ReportedStaysPaused == told \cap EVM \subseteq paused

\* And nothing but that undoes a pause: once a call has reported an EVM chain paused,
\* with no other toggle due or under way while it worked, the contract stays paused
\* until a call resumes it, whatever fails or restarts and whoever else pauses.
PausedUntilResumed == held \cap EVM \subseteq paused

\* When a panic has visited all chains, each of them is paused, in its contract or in
\* the map of the panic's server, except those that failed, that another toggle was
\* about to change, or that were resumed: a chain that fails does not keep the others
\* running.
PanicReachesAll ==
  \A c \in Calls : pc[c] = "global" =>
    \A ch \in Chains \ missed[c] : ch \in IF ch \in EVM THEN paused ELSE local[job[c].server]

\* A chain without a contract that a call reported paused, with no call to resume it at
\* work meanwhile, has an unresolved row until a call resumes it: the rows outlive the
\* map of the server, and a panic leaves one for each chain that resumeChain can resolve.
PausedIsLogged == held \ EVM \subseteq logged

\* Both together: a chain that a call reported paused is held paused, where it has a
\* contract, or on record as paused, where it has none, until a call resumes it.
PauseHolds == PausedUntilResumed /\ PausedIsLogged
=============================================================================
