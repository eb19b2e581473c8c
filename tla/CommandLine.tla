----------------------------- MODULE CommandLine ----------------------------
(***************************************************************************)
(* Invocations of ndo_cli (src/tools/ndo_cli.cpp) on one state file: load  *)
(* the ledger, run one command, save the ledger, exit with a code. There   *)
(* is no lock on the state file; whether the operators see to it that one  *)
(* invocation ends before the next begins is the variable exclusive.       *)
(***************************************************************************)
EXTENDS LedgerFile

CONSTANTS MaxChanges,      \* bound: changes made in a behaviour
          MaxInvocations   \* bound: processes started in a behaviour

ASSUME CommandLineAssumption ==
    /\ MaxChanges \in Nat
    /\ MaxInvocations \in Nat

VARIABLES
    exclusive,     \* invocations do not overlap
    changes,       \* bound: changes made so far
    invocations,   \* bound: processes started so far
    confirmed      \* history: changes of invocations that did not exit with 1, until
                   \* a process that could not open the file has replaced it

mainVars == <<exclusive, changes, invocations, confirmed>>
vars     == <<fileVars, proc, encoded, mainVars>>

kExitActionableDrift == 2
kExitUndecidable     == 3

Init ==
    /\ node = [n \in Nodes |-> <<>>]
    /\ name = [n \in Names |-> NoNode]
    /\ proc = [p \in Processes |-> Idle]
    /\ encoded = {}
    /\ exclusive \in BOOLEAN
    /\ changes = 0
    /\ invocations = 0
    /\ confirmed = {}

-----------------------------------------------------------------------------
(* main, up to the command *)

IsIdle(p) == proc[p].step = "idle"

\* ParseOptions and the policy are fine; the observatory starts. The command
\* and --evaluate are chosen below, where main looks at them.
Invoke(p, e) ==
    /\ IsIdle(p)
    /\ invocations < MaxInvocations
    /\ exclusive => \A q \in Processes : IsIdle(q)
    /\ proc' = [proc EXCEPT ![p] = [Idle EXCEPT !.step = "probe", !.epoch = e]]
    /\ invocations' = invocations + 1
    /\ UNCHANGED <<fileVars, encoded, exclusive, changes, confirmed>>

\* Without a file the ledger stays empty. A file that is there and cannot be
\* opened counts as no file.
Probe(p) ==
    /\ proc[p].step = "probe"
    /\ \E opened \in BOOLEAN :
          /\ opened => Exists("ledger")
          /\ proc' = [proc EXCEPT ![p].step = IF opened THEN "inspect" ELSE "run",
                                  ![p].blind = Exists("ledger") /\ ~opened]
    /\ UNCHANGED <<fileVars, encoded, mainVars>>

\* The file is not one this process can load: it exits and saves nothing.
LoadRefused(p) ==
    /\ proc[p].step = "read"
    /\ ~Readable(p)
    /\ proc' = [proc EXCEPT ![p] = Idle]
    /\ UNCHANGED <<fileVars, encoded, mainVars>>

-----------------------------------------------------------------------------
(* The commands *)

\* The ledger of p takes a change, and p goes on with the given step and code.
Makes(p, next, exit) ==
    /\ changes < MaxChanges
    /\ changes' = changes + 1
    /\ proc' = [proc EXCEPT ![p].ledger = Append(@, Change(changes + 1)),
                            ![p].made = @ \cup {changes + 1},
                            ![p].step = next,
                            ![p].code = exit]
    /\ UNCHANGED <<fileVars, encoded, exclusive, invocations, confirmed>>

Proceeds(p, next, exit) ==
    /\ proc' = [proc EXCEPT ![p].step = next, ![p].code = exit]
    /\ UNCHANGED <<fileVars, encoded, mainVars>>

At(p, s) == proc[p].step = s

CommitOrObserve(p) == At(p, "run") /\ Makes(p, "after", kExitOk)

SuppressOrAcknowledge(p) == At(p, "run") /\ Makes(p, "after", kExitOk)

Query(p)    == At(p, "run") /\ Proceeds(p, "after", kExitOk)
Timeline(p) == At(p, "run") /\ Proceeds(p, "after", kExitOk)
Report(p)   == At(p, "run") /\ Proceeds(p, "after", kExitOk)
Stats(p)    == At(p, "run") /\ Proceeds(p, "after", kExitOk)

\* A finding that is found is explained and the ledger saved at once.
Explain(p) ==
    /\ At(p, "run")
    /\ proc' = [proc EXCEPT ![p].step = "encode", ![p].codeFixed = TRUE]
    /\ UNCHANGED <<fileVars, encoded, mainVars>>

\* What was asked for is refused, does not parse or is not there, or a single
\* session could not be served: main returns 1 and saves nothing.
Refuse(p) ==
    /\ proc[p].step \in {"run", "serve"}
    /\ proc' = [proc EXCEPT ![p] = Idle]
    /\ UNCHANGED <<fileVars, encoded, mainVars>>

\* CommandEvaluate: applied, with one of three exit codes, or refused.
CommandEvaluate(p, next) ==
    \/ \E exit \in {kExitOk, kExitActionableDrift, kExitUndecidable} :
          Makes(p, next, IF exit = kExitOk THEN proc[p].code ELSE exit)
    \/ Proceeds(p, next, kExitUsage)

Evaluate(p) == At(p, "run") /\ CommandEvaluate(p, "after")

\* Snapshots are admitted and evaluations applied until somebody ends it.
Serve(p)       == At(p, "run") /\ Proceeds(p, "serve", kExitOk)
ServeChange(p) == At(p, "serve") /\ Makes(p, "serve", kExitOk)
ServeQuit(p)   == At(p, "serve") /\ Proceeds(p, "after", kExitOk)

-----------------------------------------------------------------------------
(* main, after the command *)

EvaluateAfter(p) ==
    /\ At(p, "after")
    /\ \/ CommandEvaluate(p, "encode")
       \/ Proceeds(p, "encode", proc[p].code)

Exit(p) ==
    /\ proc[p].step = "exit"
    /\ proc' = [proc EXCEPT ![p] = Idle]
    /\ confirmed' = IF proc[p].code = kExitUsage THEN confirmed
                    ELSE confirmed \cup proc[p].made
    /\ UNCHANGED <<fileVars, encoded, exclusive, changes, invocations>>

\* The process dies. Its writes so far stay.
Crash(p) ==
    /\ ~IsIdle(p)
    /\ proc' = [proc EXCEPT ![p] = Idle]
    /\ UNCHANGED <<fileVars, encoded, mainVars>>

FileStep(p) ==
    /\ \/ InspectFile(p)   \/ ReadFile(p)        \/ Encode(p)
       \/ OpenTemporary(p) \/ WriteBlocks(p)     \/ CloseTemporary(p)
       \/ SaveFails(p)
    /\ UNCHANGED mainVars

\* The last step of a save, and what it does to a file the process never read.
Replace(p) ==
    /\ ReplaceLedger(p)
    /\ confirmed' = IF proc[p].blind THEN {} ELSE confirmed
    /\ UNCHANGED <<exclusive, changes, invocations>>

Command(p) ==
    \/ CommitOrObserve(p) \/ SuppressOrAcknowledge(p) \/ Query(p) \/ Timeline(p)
    \/ Report(p) \/ Stats(p) \/ Explain(p) \/ Refuse(p) \/ Evaluate(p)
    \/ Serve(p) \/ ServeChange(p) \/ ServeQuit(p)

Next ==
    \E p \in Processes :
        \/ \E e \in Epochs : Invoke(p, e)
        \/ Probe(p) \/ LoadRefused(p) \/ FileStep(p) \/ Replace(p) \/ Command(p)
        \/ EvaluateAfter(p) \/ Exit(p) \/ Crash(p)

Spec == Init /\ [][Next]_vars

-----------------------------------------------------------------------------
(* Properties *)

InFile == {b.number : b \in {Bytes("ledger")[i] : i \in 2..Len(Bytes("ledger"))}}

\* However saves, loads and crashes of several processes overlap, what a
\* process loads is a ledger exactly as some process encoded it: the digest
\* keeps a mixture of two saves out (persistence.cpp:1175-1181).
LoadedWasSaved ==
    \A p \in Processes : proc[p].origin = <<>> \/ proc[p].origin \in encoded

\* While invocations do not overlap, the changes of every invocation that
\* exited with a code other than 1 are in the ledger file (ndo_cli.cpp:571-581)
\* whatever is refused, fails or crashes afterwards, until an invocation that
\* could not open the file (ndo_cli.cpp:560-561) replaces it: that one starts
\* from an empty ledger and exits with 0.
ConfirmedIsDurable ==
    exclusive /\ confirmed # {} => Exists("ledger") /\ confirmed \subseteq InFile

\* The README's claim without the condition that invocations do not overlap:
\* once every process has ended or crashed, the ledger file is whole.
CrashKeepsLedger ==
    (\A p \in Processes : IsIdle(p)) /\ Exists("ledger") => Verified(Bytes("ledger"))
=============================================================================
