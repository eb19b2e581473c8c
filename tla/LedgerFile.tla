----------------------------- MODULE LedgerFile -----------------------------
(***************************************************************************)
(* The ledger file: SaveLedgerFile and LoadLedgerFile of                   *)
(* src/src/persistence.cpp, system call by system call.                    *)
(*                                                                         *)
(* A ledger is the sequence of the changes made to it. Its encoding is a   *)
(* header, which names the epoch of the writer and the digest of the       *)
(* payload, followed by the payload, one block per change. A save writes   *)
(* the blocks to <path>.tmp, any number at a time, and renames that file   *)
(* to <path>. All processes that are given the same path share both names, *)
(* and a process that opened the temporary file goes on writing to the     *)
(* same node after another process has truncated it or renamed it.         *)
(***************************************************************************)
EXTENDS Integers, Sequences, FiniteSets

CONSTANTS Processes,   \* processes that use the path
          Epochs,      \* fabric epochs they run in
          MaxBlocks,   \* max_ledger_bytes, in blocks
          MaxPayload   \* max_record_payload_bytes, in blocks

ASSUME LedgerFileAssumption ==
    /\ IsFiniteSet(Processes)
    /\ Epochs \subseteq Nat \ {0}
    /\ MaxBlocks \in Nat \ {0}
    /\ MaxPayload \in Nat

VARIABLES
    node,     \* file system: the contents of its nodes
    name,     \* file system: the node behind each of the two names
    proc,     \* the processes
    encoded   \* history: every encoding handed to a save

fileVars == <<node, name>>

NoNode == 0
Nodes  == 1..(Cardinality(Processes) + 2)
Names  == {"ledger", "tmp"}

kExitOk    == 0
kExitUsage == 1

(* step: the next thing the process does; ledger and epoch: ledger_ and    *)
(* config_.epoch of its observatory; saved, offset, target: the encoding   *)
(* being written, the blocks written, the node opened; size: of the file,  *)
(* when it was inspected; code: the exit code so far, and codeFixed: main  *)
(* returns it whatever the save reports; origin, made, blind: histories of *)
(* what was loaded, of the changes made, and of whether there was a file   *)
(* that could not be opened.                                               *)
Idle == [step |-> "idle", ledger |-> <<>>, epoch |-> 0,
         saved |-> <<>>, offset |-> 0, target |-> NoNode, size |-> 0,
         code |-> kExitOk, codeFixed |-> FALSE, origin |-> <<>>, made |-> {},
         blind |-> FALSE]

-----------------------------------------------------------------------------
(* Blocks: a header, a change, or the hole left where nothing was written. *)

Header(e, changes) == [kind |-> "header", number |-> e, changes |-> changes]
Change(n)          == [kind |-> "change", number |-> n, changes |-> <<>>]
Hole               == [kind |-> "hole", number |-> 0, changes |-> <<>>]

EncodeLedger(changes, e) == <<Header(e, changes)>> \o changes

\* Variant: the digest of the payload is not compared with the header's.
VerifiedByLength(bytes) ==
    /\ Len(bytes) >= 1
    /\ bytes[1].kind = "header"
    /\ Len(bytes[1].changes) = Len(bytes) - 1

\* Magic, declared length and payload digest.
Verified(bytes) ==
    /\ Len(bytes) >= 1
    /\ bytes[1].kind = "header"
    /\ Len(bytes[1].changes) = Len(bytes) - 1
    /\ bytes[1].changes = Tail(bytes)

\* What DecodeLedger checks before it looks into the payload. A save looks at
\* the first of the two bounds only.
Decodable(bytes, e) ==
    /\ Len(bytes) <= MaxBlocks
    /\ Len(bytes) - 1 <= MaxPayload
    /\ Verified(bytes)
    /\ bytes[1].number <= e

-----------------------------------------------------------------------------
(* LoadLedgerFile *)

Exists(n) == name[n] # NoNode
Bytes(n)  == node[name[n]]

\* std::filesystem::file_size
InspectFile(p) ==
    /\ proc[p].step = "inspect"
    /\ proc' = [proc EXCEPT ![p].size = Len(Bytes("ledger")), ![p].step = "read"]
    /\ UNCHANGED <<fileVars, encoded>>

\* The file is opened by its name and read up to the size it had.
Contents(p) == SubSeq(Bytes("ledger"), 1, proc[p].size)

Readable(p) ==
    /\ proc[p].size <= Len(Bytes("ledger"))
    /\ Decodable(Contents(p), proc[p].epoch)

ReadFile(p) ==
    /\ proc[p].step = "read"
    /\ Readable(p)
    /\ proc' = [proc EXCEPT ![p].ledger = Tail(Contents(p)),
                            ![p].origin = Contents(p),
                            ![p].size = 0, ![p].step = "run"]
    /\ UNCHANGED <<fileVars, encoded>>

-----------------------------------------------------------------------------
(* SaveLedgerFile *)

\* EncodeLedger, under the lock of the observatory; nothing looks at the
\* ledger of the process afterwards.
Encode(p) ==
    /\ proc[p].step = "encode"
    /\ \E bytes \in {EncodeLedger(proc[p].ledger, proc[p].epoch)} :
          /\ proc' = [proc EXCEPT ![p].saved = bytes, ![p].ledger = <<>>, ![p].origin = <<>>,
                                  ![p].step = "open"]
          /\ encoded' = encoded \cup {bytes}
    /\ UNCHANGED fileVars

Temporary == "tmp"

\* std::ofstream(temporary, trunc): the node behind the name, or a new one.
FreeNodes == {n \in Nodes : /\ \A m \in Names : name[m] # n
                            /\ \A p \in Processes : proc[p].target # n}

OpenTemporary(p) ==
    /\ proc[p].step = "open"
    /\ Len(proc[p].saved) <= MaxBlocks
    /\ \E n \in {IF Exists(Temporary) THEN name[Temporary]
                 ELSE CHOOSE m \in FreeNodes : TRUE} :
          /\ node' = [node EXCEPT ![n] = <<>>]
          /\ name' = [name EXCEPT ![Temporary] = n]
          /\ proc' = [proc EXCEPT ![p].target = n, ![p].offset = 0, ![p].step = "write"]
    /\ UNCHANGED encoded

\* The contents of a node after data has been written at an offset.
Overwritten(bytes, at, data) ==
    [i \in 1..(IF Len(bytes) > at + Len(data) THEN Len(bytes) ELSE at + Len(data)) |->
        IF i \in (at + 1)..(at + Len(data)) THEN data[i - at]
        ELSE IF i <= Len(bytes) THEN bytes[i] ELSE Hole]

WriteBlocks(p) ==
    /\ proc[p].step = "write"
    /\ \E n \in (proc[p].offset + 1)..Len(proc[p].saved) :
          /\ node' = [node EXCEPT ![proc[p].target] =
                         Overwritten(@, proc[p].offset,
                                     SubSeq(proc[p].saved, proc[p].offset + 1, n))]
          /\ proc' = [proc EXCEPT ![p].offset = n]
    /\ UNCHANGED <<name, encoded>>

\* The stream is flushed and closed.
CloseTemporary(p) ==
    /\ proc[p].step = "write"
    /\ proc[p].offset = Len(proc[p].saved)
    /\ proc' = [proc EXCEPT ![p].target = NoNode, ![p].saved = <<>>, ![p].offset = 0,
                            ![p].step = "rename"]
    /\ UNCHANGED <<fileVars, encoded>>

\* std::filesystem::rename, while there is a file of that name.
ReplaceLedger(p) ==
    /\ proc[p].step = "rename"
    /\ Exists(Temporary)
    /\ name' = [ledger |-> name[Temporary], tmp |-> NoNode]
    /\ proc' = [proc EXCEPT ![p].step = "exit"]
    /\ UNCHANGED <<node, encoded>>

\* Mutant: a save that fails does not change the exit code of main.
SaveFailsQuietly(p) ==
    /\ proc[p].step \in {"open", "write", "rename"}
    /\ name' = IF proc[p].step = "rename" THEN [name EXCEPT ![Temporary] = NoNode] ELSE name
    /\ proc' = [proc EXCEPT ![p].target = NoNode, ![p].saved = <<>>, ![p].offset = 0,
                            ![p].step = "exit"]
    /\ UNCHANGED <<node, encoded>>

\* The encoding is too large, or opening, writing, flushing or renaming fails;
\* only a failed rename removes the temporary file, whoever wrote it.
SaveFails(p) ==
    /\ proc[p].step \in {"open", "write", "rename"}
    /\ name' = IF proc[p].step = "rename" THEN [name EXCEPT ![Temporary] = NoNode] ELSE name
    /\ proc' = [proc EXCEPT ![p].target = NoNode, ![p].saved = <<>>, ![p].offset = 0,
                            ![p].step = "exit",
                            ![p].code = IF proc[p].codeFixed THEN @ ELSE kExitUsage]
    /\ UNCHANGED <<node, encoded>>
=============================================================================
