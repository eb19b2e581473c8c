------------------------- MODULE CommandLine_proofs -------------------------
(***************************************************************************)
(* The state file, for any number of processes, epochs, changes and        *)
(* invocations, and any size of the ledger.                                *)
(*                                                                         *)
(* The first half is about processes that overlap as they like: a header   *)
(* in a node, at whatever place it was written, is the header of an        *)
(* encoding that a save was given, so a file that passes the digest is     *)
(* such an encoding.  The second half is about invocations that do not     *)
(* overlap: what the only running process has at each stage of the load    *)
(* and of the save contains all that is confirmed, unless it could not     *)
(* open the file.                                                          *)
(***************************************************************************)
EXTENDS CommandLine, SequenceTheorems, FiniteSetTheorems, TLAPS

(* Types *)

Changes == {Change(n) : n \in Nat}
Ledgers == Seq(Changes)
Blocks  == [kind : {"header", "change", "hole"}, number : Nat, changes : Ledgers]
Files   == Seq(Blocks)

Steps == {"idle", "probe", "inspect", "read", "run", "serve", "after", "encode", "open", "write",
          "rename", "exit"}

Procs == [step : Steps, ledger : Ledgers, epoch : Nat, saved : Files, offset : Nat,
          target : Nodes \cup {NoNode}, size : Nat, code : Nat, codeFixed : BOOLEAN,
          origin : Files, made : SUBSET Nat, blind : BOOLEAN]

MainTyped ==
    /\ exclusive \in BOOLEAN
    /\ changes \in Nat
    /\ invocations \in Nat
    /\ confirmed \in SUBSET Nat

TypeOK ==
    /\ node \in [Nodes -> Files]
    /\ name \in [Names -> Nodes \cup {NoNode}]
    /\ proc \in [Processes -> Procs]
    /\ MainTyped

-----------------------------------------------------------------------------
(* The invariant of processes that overlap *)

\* A header is the one of an encoding that a save was given.
Genuine(b, codes) == b.kind = "header" => EncodeLedger(b.changes, b.number) \in codes

AllGenuine(bytes, codes) == \A i \in 1..Len(bytes) : Genuine(bytes[i], codes)

NodesGenuine == \A n \in Nodes : AllGenuine(node[n], encoded)

\* What a process has in hand: an encoding it may write anywhere, an origin that
\* was once saved, a file that has not gone away since it was found, and an open
\* node while it writes.
Holds(r) ==
    /\ AllGenuine(r.saved, encoded)
    /\ r.origin = <<>> \/ r.origin \in encoded
    /\ r.step \in {"inspect", "read"} => Exists("ledger")
    /\ r.step = "write" => r.target \in Nodes /\ r.offset <= Len(r.saved)

NamesApart == Exists("tmp") => name["tmp"] # name["ledger"]

FileInv == TypeOK /\ NodesGenuine /\ NamesApart /\ \A p \in Processes : Holds(proc[p])

-----------------------------------------------------------------------------
(* The invariant of invocations that do not overlap *)

\* The changes in a ledger, and in the payload of an encoding.
Numbers(ledger) == {ledger[i].number : i \in 1..Len(ledger)}
Payload(bytes)  == {bytes[i].number : i \in 2..Len(bytes)}

Alone == \A p, q \in Processes : ~IsIdle(p) /\ ~IsIdle(q) => p = q

Kept == confirmed # {} => Exists("ledger") /\ confirmed \subseteq Payload(Bytes("ledger"))

\* What the file must have once the process r has replaced it: its own changes,
\* and the confirmed ones unless it could not open the file they were in.
Due(r) == r.made \cup (IF r.blind THEN {} ELSE confirmed)

\* Where the confirmed changes and those of the process itself are, stage by
\* stage.
Carries(r) ==
    /\ r.step \in {"probe", "inspect", "read", "run"} => r.made = {} /\ ~r.codeFixed
    /\ r.step \in {"probe", "inspect", "read"} => ~r.blind
    /\ r.step = "read" => r.size = Len(Bytes("ledger"))
    /\ r.step \in {"run", "serve", "after", "encode"} =>
          Due(r) \subseteq Numbers(r.ledger)
    /\ r.step \in {"serve", "after"} => ~r.codeFixed
    /\ r.step \in {"open", "write"} => Due(r) \subseteq Payload(r.saved)
    /\ r.step = "write" =>
          /\ r.target = name["tmp"]
          /\ Len(node[r.target]) = r.offset
          /\ \A i \in 1..r.offset : node[r.target][i] = r.saved[i]
    /\ r.step = "rename" => Exists("tmp") /\ Due(r) \subseteq Payload(Bytes("tmp"))
    /\ r.step = "exit" /\ r.code # kExitUsage /\ r.made # {} =>
          Exists("ledger") /\ r.made \subseteq Payload(Bytes("ledger"))
    /\ r.codeFixed => r.made = {}

OneAtATime == exclusive => Alone /\ Kept /\ \A p \in Processes : Carries(proc[p])

IInv == FileInv /\ OneAtATime

-----------------------------------------------------------------------------
(* What a step does to the processes *)

\* Only p moves, and to a record of the right type.
Only(p) ==
    /\ proc' \in [Processes -> Procs]
    /\ \A q \in Processes \ {p} : proc'[q] = proc[q]

\* The record of a process that does not run.
LEMMA IdleTyped == Idle \in Procs
  BY DEF Idle, Procs, Steps, Ledgers, Files, NoNode, kExitOk

\* A process that ends, is refused or dies leaves nothing behind.
LEMMA EndsFields ==
    ASSUME TypeOK, NEW p \in Processes, proc' = [proc EXCEPT ![p] = Idle]
    PROVE  Only(p) /\ proc'[p] = Idle
  BY IdleTyped DEF TypeOK, Only

\* A step that only goes to the next stage.
LEMMA StepFields ==
    ASSUME TypeOK, NEW p \in Processes, NEW s \in Steps,
           proc' = [proc EXCEPT ![p].step = s]
    PROVE  /\ Only(p)
           /\ proc'[p].step = s
           /\ proc'[p].ledger = proc[p].ledger /\ proc'[p].epoch = proc[p].epoch
           /\ proc'[p].saved = proc[p].saved /\ proc'[p].offset = proc[p].offset
           /\ proc'[p].target = proc[p].target /\ proc'[p].size = proc[p].size
           /\ proc'[p].code = proc[p].code /\ proc'[p].codeFixed = proc[p].codeFixed
           /\ proc'[p].origin = proc[p].origin /\ proc'[p].made = proc[p].made /\ proc'[p].blind = proc[p].blind
<1>1. proc'[p] = [proc[p] EXCEPT !.step = s] /\ proc[p] \in Procs
  BY DEF TypeOK
<1>2. proc'[p] \in Procs
  BY <1>1 DEF Procs
<1>3. Only(p)
  BY <1>2 DEF TypeOK, Only
<1> QED
  BY <1>1, <1>3 DEF Procs

\* A change is made.
LEMMA MakesFields ==
    ASSUME TypeOK, NEW p \in Processes, NEW s \in Steps, NEW x \in Nat, Makes(p, s, x)
    PROVE  /\ Only(p)
           /\ proc'[p].step = s /\ proc'[p].code = x
           /\ proc'[p].ledger = Append(proc[p].ledger, Change(changes + 1))
           /\ proc'[p].made = proc[p].made \cup {changes + 1} /\ proc'[p].blind = proc[p].blind
           /\ proc'[p].saved = proc[p].saved /\ proc'[p].origin = proc[p].origin
           /\ proc'[p].codeFixed = proc[p].codeFixed
<1> DEFINE l == Append(proc[p].ledger, Change(changes + 1))
           m == proc[p].made \cup {changes + 1}
<1>1. proc'[p] = [proc[p] EXCEPT !.ledger = l, !.made = m, !.step = s, !.code = x]
      /\ proc[p] \in Procs
  BY DEF TypeOK, Makes
<1>2. l \in Ledgers
  <2>1. proc[p].ledger \in Seq(Changes)
    BY <1>1 DEF Procs, Ledgers
  <2>2. changes + 1 \in Nat
    BY DEF TypeOK, MainTyped
  <2>3. Change(changes + 1) \in Changes
    BY <2>2, Zenon DEF Changes
  <2> QED
    BY <2>1, <2>3, AppendProperties DEF Ledgers
<1>3. m \in SUBSET Nat
  BY <1>1 DEF Procs, TypeOK, MainTyped
<1> HIDE DEF l, m
<1>4. proc'[p] \in Procs
  BY <1>1, <1>2, <1>3 DEF Procs
<1>5. Only(p)
  BY <1>4 DEF TypeOK, Only, Makes
<1>6. /\ proc'[p].step = s /\ proc'[p].code = x
      /\ proc'[p].ledger = l /\ proc'[p].made = m /\ proc'[p].blind = proc[p].blind
      /\ proc'[p].saved = proc[p].saved /\ proc'[p].origin = proc[p].origin
      /\ proc'[p].codeFixed = proc[p].codeFixed
  BY <1>1 DEF Procs
<1> QED
  BY <1>5, <1>6 DEF l, m

\* A command that changes nothing.
LEMMA ProceedsFields ==
    ASSUME TypeOK, NEW p \in Processes, NEW s \in Steps, NEW x \in Nat, Proceeds(p, s, x)
    PROVE  /\ Only(p)
           /\ proc'[p].step = s /\ proc'[p].code = x
           /\ proc'[p].ledger = proc[p].ledger /\ proc'[p].made = proc[p].made /\ proc'[p].blind = proc[p].blind
           /\ proc'[p].saved = proc[p].saved /\ proc'[p].origin = proc[p].origin
           /\ proc'[p].codeFixed = proc[p].codeFixed
<1>1. proc'[p] = [proc[p] EXCEPT !.step = s, !.code = x] /\ proc[p] \in Procs
  BY DEF TypeOK, Proceeds
<1>2. proc'[p] \in Procs
  BY <1>1 DEF Procs
<1>3. Only(p)
  BY <1>2 DEF TypeOK, Only, Proceeds
<1> QED
  BY <1>1, <1>3 DEF Procs

\* Explain, which fixes the exit code.
LEMMA ExplainFields ==
    ASSUME TypeOK, NEW p \in Processes, Explain(p)
    PROVE  /\ Only(p)
           /\ proc'[p].step = "encode" /\ proc'[p].codeFixed = TRUE
           /\ proc'[p].ledger = proc[p].ledger /\ proc'[p].made = proc[p].made /\ proc'[p].blind = proc[p].blind
           /\ proc'[p].saved = proc[p].saved /\ proc'[p].origin = proc[p].origin
<1>1. proc'[p] = [proc[p] EXCEPT !.step = "encode", !.codeFixed = TRUE] /\ proc[p] \in Procs
  BY DEF TypeOK, Explain
<1>2. proc'[p] \in Procs
  BY <1>1 DEF Procs, Steps
<1>3. Only(p)
  BY <1>2 DEF TypeOK, Only, Explain
<1> QED
  BY <1>1, <1>3 DEF Procs

\* A process starts.
LEMMA InvokeFields ==
    ASSUME TypeOK, NEW p \in Processes, NEW e \in Epochs, Invoke(p, e)
    PROVE  /\ Only(p)
           /\ proc'[p].step = "probe" /\ proc'[p].codeFixed = FALSE
           /\ proc'[p].ledger = <<>> /\ proc'[p].made = {} /\ proc'[p].blind = FALSE
           /\ proc'[p].saved = <<>> /\ proc'[p].origin = <<>>
<1>1. proc'[p] = [Idle EXCEPT !.step = "probe", !.epoch = e]
  BY DEF TypeOK, Invoke
<1>2. proc'[p] \in Procs
  BY <1>1, IdleTyped, LedgerFileAssumption DEF Procs, Steps
<1>3. Only(p)
  BY <1>2 DEF TypeOK, Only, Invoke
<1> QED
  BY <1>1, <1>3 DEF Idle

\* The file is inspected.
LEMMA InspectFields ==
    ASSUME TypeOK, NEW p \in Processes, InspectFile(p), Exists("ledger")
    PROVE  /\ Only(p)
           /\ proc'[p].step = "read" /\ proc'[p].size = Len(Bytes("ledger"))
           /\ proc'[p].made = proc[p].made /\ proc'[p].blind = proc[p].blind /\ proc'[p].codeFixed = proc[p].codeFixed
           /\ proc'[p].saved = proc[p].saved /\ proc'[p].origin = proc[p].origin
<1> DEFINE n == Len(Bytes("ledger"))
<1>1. proc'[p] = [proc[p] EXCEPT !.size = n, !.step = "read"] /\ proc[p] \in Procs
  BY DEF TypeOK, InspectFile
<1>2. n \in Nat
  <2>1. Bytes("ledger") \in Seq(Blocks)
    BY DEF TypeOK, Bytes, Exists, Names, Files
  <2> QED
    BY <2>1
<1> HIDE DEF n
<1>3. proc'[p] \in Procs
  BY <1>1, <1>2 DEF Procs, Steps
<1>4. Only(p)
  BY <1>3 DEF TypeOK, Only, InspectFile
<1>5. /\ proc'[p].step = "read" /\ proc'[p].size = n
      /\ proc'[p].made = proc[p].made /\ proc'[p].blind = proc[p].blind /\ proc'[p].codeFixed = proc[p].codeFixed
      /\ proc'[p].saved = proc[p].saved /\ proc'[p].origin = proc[p].origin
  BY <1>1 DEF Procs
<1> QED
  BY <1>4, <1>5 DEF n

\* What is read of a file is a ledger when it passes the digest.
LEMMA ContentsTyped ==
    ASSUME TypeOK, NEW p \in Processes, Readable(p), Exists("ledger")
    PROVE  /\ Bytes("ledger") \in Seq(Blocks)
           /\ Contents(p) \in Seq(Blocks)
           /\ Len(Contents(p)) = proc[p].size
           /\ Len(Contents(p)) >= 1 /\ Len(Contents(p)) <= Len(Bytes("ledger"))
           /\ \A i \in 1..Len(Contents(p)) : Contents(p)[i] = Bytes("ledger")[i]
           /\ Tail(Contents(p)) \in Ledgers
<1> DEFINE b == Bytes("ledger")
           c == Contents(p)
           n == proc[p].size
<1>1. b \in Seq(Blocks)
  BY DEF TypeOK, Bytes, Exists, Names, Files
<1>2. n \in Nat /\ n <= Len(b) /\ c = SubSeq(b, 1, n) /\ Verified(c)
  <2>1. n \in Nat
    BY DEF TypeOK, Procs
  <2> QED
    BY <2>1 DEF Readable, Contents, Decodable
<1> HIDE DEF b, c, n
<1>3. \A i \in 1..n : b[i] \in Blocks
  BY <1>1, <1>2
<1>4. c \in Seq(Blocks) /\ Len(c) = n /\ \A i \in 1..n : c[i] = b[i]
  <2>1. /\ SubSeq(b, 1, n) \in Seq(Blocks)
        /\ Len(SubSeq(b, 1, n)) = IF 1 <= n THEN n - 1 + 1 ELSE 0
        /\ \A i \in 1..(n - 1 + 1) : SubSeq(b, 1, n)[i] = b[1 + i - 1]
    BY <1>2, <1>3, SubSeqProperties
  <2> QED
    BY <1>2, <2>1
<1>5. Len(c) >= 1 /\ c[1].changes = Tail(c) /\ c[1] \in Blocks
  BY <1>2, <1>4 DEF Verified
<1>6. Tail(c) \in Ledgers
  BY <1>5 DEF Blocks
<1>7. /\ b \in Seq(Blocks) /\ c \in Seq(Blocks)
      /\ Len(c) = n /\ Len(c) >= 1 /\ Len(c) <= Len(b)
      /\ \A i \in 1..Len(c) : c[i] = b[i]
      /\ Tail(c) \in Ledgers
  BY <1>1, <1>2, <1>4, <1>5, <1>6
<1> QED
  BY <1>7 DEF b, c, n

\* The file is read.
LEMMA ReadFields ==
    ASSUME TypeOK, NEW p \in Processes, ReadFile(p), Exists("ledger")
    PROVE  /\ Only(p)
           /\ proc'[p].step = "run"
           /\ proc'[p].ledger = Tail(Contents(p)) /\ proc'[p].origin = Contents(p)
           /\ proc'[p].made = proc[p].made /\ proc'[p].blind = proc[p].blind /\ proc'[p].codeFixed = proc[p].codeFixed
           /\ proc'[p].saved = proc[p].saved
<1> DEFINE l == Tail(Contents(p))
           o == Contents(p)
           z == 0
           s == "run"
<1>1. proc'[p] = [proc[p] EXCEPT !.ledger = l, !.origin = o, !.size = z, !.step = s]
      /\ proc[p] \in Procs
  BY DEF TypeOK, ReadFile
<1>2. l \in Ledgers /\ o \in Files /\ z \in Nat /\ s \in Steps
  BY ContentsTyped DEF ReadFile, Files, Steps
<1> HIDE DEF l, o, z, s
<1>3. proc'[p] \in Procs
  BY <1>1, <1>2 DEF Procs
<1>4. Only(p)
  BY <1>3 DEF TypeOK, Only, ReadFile
<1>5. /\ proc'[p].step = s
      /\ proc'[p].ledger = l /\ proc'[p].origin = o
      /\ proc'[p].made = proc[p].made /\ proc'[p].blind = proc[p].blind /\ proc'[p].codeFixed = proc[p].codeFixed
      /\ proc'[p].saved = proc[p].saved
  BY <1>1 DEF Procs
<1> QED
  BY <1>4, <1>5 DEF l, o, s

\* Changes and headers are blocks.
LEMMA BlocksTyped ==
    /\ Changes \subseteq Blocks
    /\ Hole \in Blocks
    /\ \A e \in Nat, l \in Ledgers : Header(e, l) \in Blocks
<1>1. <<>> \in Ledgers
  BY DEF Ledgers
<1>2. ASSUME NEW n \in Nat PROVE Change(n) \in Blocks /\ Change(n).kind = "change"
  BY <1>1 DEF Change, Blocks
<1>3. Hole \in Blocks
  BY <1>1 DEF Hole, Blocks
<1>4. ASSUME NEW e \in Nat, NEW l \in Ledgers PROVE Header(e, l) \in Blocks
  BY DEF Header, Blocks
<1> QED
  BY <1>2, <1>3, <1>4, Zenon DEF Changes

\* An encoding is a header followed by the ledger.
LEMMA EncodingShape ==
    ASSUME NEW l \in Ledgers, NEW e \in Nat
    PROVE  /\ EncodeLedger(l, e) \in Seq(Blocks)
           /\ Len(EncodeLedger(l, e)) = Len(l) + 1
           /\ EncodeLedger(l, e)[1] = Header(e, l)
           /\ \A i \in 2..(Len(l) + 1) : EncodeLedger(l, e)[i] = l[i - 1]
           /\ Payload(EncodeLedger(l, e)) = Numbers(l)
<1> DEFINE h == Header(e, l)
           c == EncodeLedger(l, e)
<1>1. h \in Blocks /\ l \in Seq(Blocks)
  BY BlocksTyped DEF Ledgers
<1> HIDE DEF h
<1>2. <<h>> \in Seq(Blocks) /\ Len(<<h>>) = 1 /\ <<h>>[1] = h
  BY <1>1
<1>3. /\ <<h>> \o l \in Seq(Blocks)
      /\ Len(<<h>> \o l) = Len(<<h>>) + Len(l)
      /\ \A i \in 1..(Len(<<h>>) + Len(l)) :
            (<<h>> \o l)[i] = IF i <= Len(<<h>>) THEN <<h>>[i] ELSE l[i - Len(<<h>>)]
  BY <1>1, <1>2, ConcatProperties
<1>4. c = <<h>> \o l /\ Len(l) \in Nat
  BY <1>1 DEF EncodeLedger, h
<1> HIDE DEF c
<1>5. /\ c \in Seq(Blocks) /\ Len(c) = Len(l) + 1 /\ c[1] = h
      /\ \A i \in 2..(Len(l) + 1) : c[i] = l[i - 1]
  BY <1>2, <1>3, <1>4
<1>6. Payload(c) = Numbers(l)
  <2>1. ASSUME NEW x \in Payload(c) PROVE x \in Numbers(l)
    <3>1. PICK i \in 2..Len(c) : x = c[i].number
      BY <2>1 DEF Payload
    <3>2. i - 1 \in 1..Len(l) /\ c[i] = l[i - 1]
      BY <1>4, <1>5, <3>1
    <3> QED
      BY <3>1, <3>2 DEF Numbers
  <2>2. ASSUME NEW x \in Numbers(l) PROVE x \in Payload(c)
    <3>1. PICK i \in 1..Len(l) : x = l[i].number
      BY <2>2 DEF Numbers
    <3>2. i + 1 \in 2..Len(c) /\ c[i + 1] = l[i]
      BY <1>4, <1>5, <3>1
    <3> QED
      BY <3>1, <3>2 DEF Payload
  <2> QED
    BY <2>1, <2>2
<1> QED
  BY <1>5, <1>6 DEF c, h

\* The ledger is encoded.
LEMMA EncodeFields ==
    ASSUME TypeOK, NEW p \in Processes, Encode(p)
    PROVE  /\ Only(p)
           /\ proc'[p].step = "open"
           /\ proc'[p].saved = EncodeLedger(proc[p].ledger, proc[p].epoch)
           /\ proc'[p].origin = <<>>
           /\ proc'[p].made = proc[p].made /\ proc'[p].blind = proc[p].blind /\ proc'[p].codeFixed = proc[p].codeFixed
           /\ encoded' = encoded \cup {EncodeLedger(proc[p].ledger, proc[p].epoch)}
           /\ UNCHANGED <<node, name>>
<1> DEFINE b == EncodeLedger(proc[p].ledger, proc[p].epoch)
           l == <<>>
           o == <<>>
           s == "open"
<1>1. /\ proc' = [proc EXCEPT ![p].saved = b, ![p].ledger = l, ![p].origin = o, ![p].step = s]
      /\ encoded' = encoded \cup {b}
      /\ UNCHANGED <<node, name>>
  BY DEF Encode, fileVars
<1>2. proc'[p] = [proc[p] EXCEPT !.saved = b, !.ledger = l, !.origin = o, !.step = s]
      /\ proc[p] \in Procs
  BY <1>1 DEF TypeOK
<1>3. b \in Files /\ l \in Ledgers /\ o \in Files /\ s \in Steps
  <2>1. proc[p].ledger \in Ledgers /\ proc[p].epoch \in Nat
    BY <1>2 DEF Procs
  <2>2. b \in Seq(Blocks)
    BY <2>1, EncodingShape
  <2> QED
    BY <2>2 DEF Files, Ledgers, Steps
<1>4. /\ proc' = [proc EXCEPT ![p] = proc'[p]]
  BY <1>1 DEF TypeOK
<1> HIDE DEF b, l, o, s
<1>5. proc'[p] \in Procs
  BY <1>2, <1>3 DEF Procs
<1>6. Only(p)
  BY <1>4, <1>5 DEF TypeOK, Only
<1>7. /\ proc'[p].step = s /\ proc'[p].saved = b /\ proc'[p].origin = o
      /\ proc'[p].made = proc[p].made /\ proc'[p].blind = proc[p].blind /\ proc'[p].codeFixed = proc[p].codeFixed
  BY <1>2 DEF Procs
<1> QED
  BY <1>1, <1>6, <1>7 DEF b, o, s

\* There is always a node that neither a name nor a process uses, while there is
\* no temporary file.
LEMMA FreeNodeExists ==
    ASSUME TypeOK, ~Exists("tmp")
    PROVE  FreeNodes # {}
<1> DEFINE f == [q \in Processes |-> proc[q].target]
           T == {f[q] : q \in Processes}
           U == T \cup {name["ledger"]}
<1>1. IsFiniteSet(T) /\ Cardinality(T) <= Cardinality(Processes)
  <2>1. f \in Surjection(Processes, T)
    BY DEF Surjection
  <2> QED
    BY <2>1, FS_Surjection, LedgerFileAssumption
<1>2. Cardinality(Processes) \in Nat /\ Cardinality(T) \in Nat
  BY <1>1, FS_CardinalityType, LedgerFileAssumption
<1>3. IsFiniteSet(U) /\ Cardinality(U) <= Cardinality(Processes) + 1
  <2> HIDE DEF T
  <2>1. /\ IsFiniteSet(T \cup {name["ledger"]})
        /\ Cardinality(T \cup {name["ledger"]}) =
              IF name["ledger"] \in T THEN Cardinality(T) ELSE Cardinality(T) + 1
    BY <1>1, FS_AddElement
  <2> QED
    BY <1>1, <1>2, <2>1
<1>4. IsFiniteSet(Nodes) /\ Cardinality(Nodes) = Cardinality(Processes) + 2
  <2>1. PICK m \in Int : m = Cardinality(Processes) + 2
    BY <1>2
  <2>2. /\ IsFiniteSet(1..m)
        /\ Cardinality(1..m) = IF 1 > m THEN 0 ELSE m - 1 + 1
    BY FS_Interval
  <2>3. Nodes = 1..m /\ ~(1 > m)
    BY <1>2, <2>1 DEF Nodes
  <2> QED
    BY <1>2, <2>1, <2>2, <2>3
<1>5. ~(Nodes \subseteq U)
  <2> SUFFICES ASSUME Nodes \subseteq U PROVE FALSE
    OBVIOUS
  <2> HIDE DEF U
  <2>1. Cardinality(Nodes) <= Cardinality(U)
    BY <1>3, FS_Subset
  <2>2. Cardinality(U) \in Nat
    BY <1>3, FS_CardinalityType
  <2> QED
    BY <1>2, <1>3, <1>4, <2>1, <2>2
<1>6. PICK n \in Nodes : n \notin U
  BY <1>5
<1>7. n # NoNode
  BY <1>2, <1>6 DEF Nodes, NoNode
<1>8. \A q \in Processes : proc[q].target # n
  BY <1>6
<1> QED
  BY <1>6, <1>7, <1>8 DEF FreeNodes, Names, Exists

\* The temporary file is opened: it has a node of its own, which is now empty.
LEMMA OpenFields ==
    ASSUME TypeOK, NamesApart, NEW p \in Processes, OpenTemporary(p)
    PROVE  /\ Only(p)
           /\ proc'[p].step = "write" /\ proc'[p].offset = 0
           /\ proc'[p].saved = proc[p].saved /\ proc'[p].origin = proc[p].origin
           /\ proc'[p].made = proc[p].made /\ proc'[p].blind = proc[p].blind /\ proc'[p].codeFixed = proc[p].codeFixed
           /\ proc'[p].target \in Nodes /\ proc'[p].target # name["ledger"]
           /\ node' = [node EXCEPT ![proc'[p].target] = <<>>]
           /\ name' = [name EXCEPT !["tmp"] = proc'[p].target]
           /\ encoded' = encoded
<1>1. PICK n : /\ n = IF Exists("tmp") THEN name["tmp"] ELSE CHOOSE m \in FreeNodes : TRUE
               /\ node' = [node EXCEPT ![n] = <<>>]
               /\ name' = [name EXCEPT !["tmp"] = n]
               /\ proc' = [proc EXCEPT ![p].target = n, ![p].offset = 0, ![p].step = "write"]
               /\ encoded' = encoded
  BY DEF OpenTemporary, Temporary
<1>2. n \in Nodes /\ n # name["ledger"]
  <2>1. CASE Exists("tmp")
    BY <1>1, <2>1 DEF TypeOK, NamesApart, Exists, Names
  <2>2. CASE ~Exists("tmp")
    <3>1. n \in FreeNodes
      BY <1>1, <2>2, FreeNodeExists
    <3> QED
      BY <3>1 DEF FreeNodes, Names
  <2> QED
    BY <2>1, <2>2
<1> DEFINE z == 0
           s == "write"
<1>3. proc'[p] = [proc[p] EXCEPT !.target = n, !.offset = z, !.step = s] /\ proc[p] \in Procs
  BY <1>1 DEF TypeOK
<1>4. n \in Nodes \cup {NoNode} /\ z \in Nat /\ s \in Steps
  BY <1>2 DEF Steps
<1>5. /\ proc' = [q \in Processes |-> proc'[q]]
      /\ \A q \in Processes \ {p} : proc'[q] = proc[q]
  <2>1. /\ proc' = [proc EXCEPT ![p].target = n, ![p].offset = 0, ![p].step = "write"]
        /\ proc = [q \in Processes |-> proc[q]]
    BY <1>1 DEF TypeOK
  <2> QED
    BY <2>1, Zenon
<1> HIDE DEF z, s
<1>6. proc'[p] \in Procs
  BY <1>3, <1>4 DEF Procs
<1>7. Only(p)
  BY <1>5, <1>6 DEF TypeOK, Only
<1>8. /\ proc'[p].step = s /\ proc'[p].offset = z /\ proc'[p].target = n
      /\ proc'[p].saved = proc[p].saved /\ proc'[p].origin = proc[p].origin
      /\ proc'[p].made = proc[p].made /\ proc'[p].blind = proc[p].blind /\ proc'[p].codeFixed = proc[p].codeFixed
  BY <1>3 DEF Procs
<1> QED
  BY <1>1, <1>2, <1>7, <1>8 DEF z, s

\* Blocks are written: the file has them where it had others or ended.
LEMMA OverwrittenShape ==
    ASSUME NEW b \in Seq(Blocks), NEW at \in Nat, NEW d \in Seq(Blocks)
    PROVE  /\ Overwritten(b, at, d) \in Seq(Blocks)
           /\ Len(Overwritten(b, at, d)) =
                 IF Len(b) > at + Len(d) THEN Len(b) ELSE at + Len(d)
           /\ \A i \in 1..Len(Overwritten(b, at, d)) :
                 Overwritten(b, at, d)[i] =
                     IF i \in (at + 1)..(at + Len(d)) THEN d[i - at]
                     ELSE IF i <= Len(b) THEN b[i] ELSE Hole
<1> DEFINE n == IF Len(b) > at + Len(d) THEN Len(b) ELSE at + Len(d)
           g == [i \in 1..n |-> IF i \in (at + 1)..(at + Len(d)) THEN d[i - at]
                                ELSE IF i <= Len(b) THEN b[i] ELSE Hole]
<1>1. Overwritten(b, at, d) = g
  BY DEF Overwritten
<1>2. n \in Nat
  OBVIOUS
<1>3. \A i \in 1..n : g[i] \in Blocks
  <2> TAKE i \in 1..n
  <2>1. CASE i \in (at + 1)..(at + Len(d))
    BY <2>1
  <2>2. CASE i \notin (at + 1)..(at + Len(d))
    BY <2>2, BlocksTyped
  <2> QED
    BY <2>1, <2>2
<1>4. \A i \in 1..n : g[i] = IF i \in (at + 1)..(at + Len(d)) THEN d[i - at]
                             ELSE IF i <= Len(b) THEN b[i] ELSE Hole
  OBVIOUS
<1>5. g = [i \in 1..n |-> g[i]]
  OBVIOUS
<1> HIDE DEF n, g
<1>6. g \in Seq(Blocks) /\ Len(g) = n
  BY <1>2, <1>3, <1>5
<1>7. Len(Overwritten(b, at, d)) = n
  BY <1>1, <1>6
<1> QED
  BY <1>1, <1>4, <1>6, <1>7 DEF n

\* Blocks of the encoding are written at the offset of the process.
LEMMA WriteFields ==
    ASSUME TypeOK, NEW p \in Processes, WriteBlocks(p)
    PROVE  /\ Only(p)
           /\ proc[p].step = "write" /\ proc'[p].step = "write"
           /\ proc'[p].saved = proc[p].saved /\ proc'[p].origin = proc[p].origin
           /\ proc'[p].made = proc[p].made /\ proc'[p].blind = proc[p].blind /\ proc'[p].codeFixed = proc[p].codeFixed
           /\ proc'[p].target = proc[p].target
           /\ proc'[p].offset \in (proc[p].offset + 1)..Len(proc[p].saved)
           /\ node' = [node EXCEPT ![proc[p].target] =
                          Overwritten(@, proc[p].offset,
                                      SubSeq(proc[p].saved, proc[p].offset + 1, proc'[p].offset))]
           /\ UNCHANGED <<name, encoded>>
<1>1. PICK n \in (proc[p].offset + 1)..Len(proc[p].saved) :
         /\ node' = [node EXCEPT ![proc[p].target] =
                        Overwritten(@, proc[p].offset,
                                    SubSeq(proc[p].saved, proc[p].offset + 1, n))]
         /\ proc' = [proc EXCEPT ![p].offset = n]
  BY DEF WriteBlocks
<1>2. proc'[p] = [proc[p] EXCEPT !.offset = n] /\ proc[p] \in Procs
  BY <1>1 DEF TypeOK
<1>3. n \in Nat
  <2>1. proc[p].offset \in Nat /\ proc[p].saved \in Seq(Blocks)
    BY <1>2 DEF Procs, Files
  <2> QED
    BY <1>1, <2>1
<1>4. proc'[p] \in Procs
  BY <1>2, <1>3 DEF Procs
<1>5. Only(p)
  BY <1>1, <1>4 DEF TypeOK, Only
<1>6. /\ proc'[p].step = proc[p].step /\ proc'[p].offset = n /\ proc'[p].target = proc[p].target
      /\ proc'[p].saved = proc[p].saved /\ proc'[p].origin = proc[p].origin
      /\ proc'[p].made = proc[p].made /\ proc'[p].blind = proc[p].blind /\ proc'[p].codeFixed = proc[p].codeFixed
  BY <1>2 DEF Procs
<1> QED
  BY <1>1, <1>5, <1>6 DEF WriteBlocks

\* The temporary file is closed.
LEMMA CloseFields ==
    ASSUME TypeOK, NEW p \in Processes, CloseTemporary(p)
    PROVE  /\ Only(p)
           /\ proc'[p].step = "rename" /\ proc'[p].saved = <<>>
           /\ proc'[p].origin = proc[p].origin
           /\ proc'[p].made = proc[p].made /\ proc'[p].blind = proc[p].blind /\ proc'[p].codeFixed = proc[p].codeFixed
<1> DEFINE t == NoNode
           b == <<>>
           z == 0
           s == "rename"
<1>1. proc' = [proc EXCEPT ![p].target = t, ![p].saved = b, ![p].offset = z, ![p].step = s]
  BY DEF CloseTemporary
<1>2. proc'[p] = [proc[p] EXCEPT !.target = t, !.saved = b, !.offset = z, !.step = s]
      /\ proc[p] \in Procs
  BY <1>1 DEF TypeOK
<1>3. t \in Nodes \cup {NoNode} /\ b \in Files /\ z \in Nat /\ s \in Steps
  BY DEF Files, Steps
<1> HIDE DEF t, b, z, s
<1>4. proc'[p] \in Procs
  BY <1>2, <1>3 DEF Procs
<1>5. /\ proc' = [q \in Processes |-> proc'[q]]
      /\ \A q \in Processes \ {p} : proc'[q] = proc[q]
  BY <1>1, Zenon DEF TypeOK
<1>6. Only(p)
  BY <1>4, <1>5 DEF TypeOK, Only
<1>7. /\ proc'[p].step = s /\ proc'[p].saved = b /\ proc'[p].origin = proc[p].origin
      /\ proc'[p].made = proc[p].made /\ proc'[p].blind = proc[p].blind /\ proc'[p].codeFixed = proc[p].codeFixed
  BY <1>2 DEF Procs
<1> QED
  BY <1>6, <1>7 DEF b, s

\* A save fails.
LEMMA FailsFields ==
    ASSUME TypeOK, NEW p \in Processes, SaveFails(p)
    PROVE  /\ Only(p)
           /\ proc'[p].step = "exit" /\ proc'[p].saved = <<>>
           /\ proc'[p].code = IF proc[p].codeFixed THEN proc[p].code ELSE kExitUsage
           /\ proc'[p].origin = proc[p].origin
           /\ proc'[p].made = proc[p].made /\ proc'[p].blind = proc[p].blind /\ proc'[p].codeFixed = proc[p].codeFixed
<1> DEFINE t == NoNode
           b == <<>>
           z == 0
           s == "exit"
           x == IF proc[p].codeFixed THEN proc[p].code ELSE kExitUsage
<1>1. proc' = [proc EXCEPT ![p].target = t, ![p].saved = b, ![p].offset = z, ![p].step = s,
                           ![p].code = IF proc[p].codeFixed THEN @ ELSE kExitUsage]
  BY DEF SaveFails
<1>2. proc'[p] = [proc[p] EXCEPT !.target = t, !.saved = b, !.offset = z, !.step = s, !.code = x]
      /\ proc[p] \in Procs
  <2>1. proc[p] \in Procs
    BY DEF TypeOK
  <2>2. proc'[p] = [proc[p] EXCEPT !.target = t, !.saved = b, !.offset = z, !.step = s,
                                   !.code = IF proc[p].codeFixed THEN @ ELSE kExitUsage]
    BY <1>1 DEF TypeOK
  <2> QED
    BY <2>1, <2>2 DEF Procs
<1>3. /\ t \in Nodes \cup {NoNode} /\ b \in Files /\ z \in Nat /\ s \in Steps
      /\ x \in Nat
  <2>1. proc[p].code \in Nat
    BY <1>2 DEF Procs
  <2> QED
    BY <2>1 DEF Files, Steps, kExitUsage
<1>5. /\ proc' = [q \in Processes |-> proc'[q]]
      /\ \A q \in Processes \ {p} : proc'[q] = proc[q]
  BY <1>1, Zenon DEF TypeOK
<1> HIDE DEF t, b, z, s, x
<1>4. proc'[p] \in Procs
  BY <1>2, <1>3 DEF Procs
<1>6. Only(p)
  BY <1>4, <1>5 DEF TypeOK, Only
<1>7. /\ proc'[p].step = s /\ proc'[p].saved = b /\ proc'[p].code = x
      /\ proc'[p].origin = proc[p].origin
      /\ proc'[p].made = proc[p].made /\ proc'[p].blind = proc[p].blind /\ proc'[p].codeFixed = proc[p].codeFixed
  BY <1>2 DEF Procs
<1> QED
  BY <1>6, <1>7 DEF b, s, x

-----------------------------------------------------------------------------
(* Processes that overlap *)

\* More encodings make no header less genuine.
LEMMA GenuineGrows ==
    ASSUME NEW b, NEW c, NEW d, c \subseteq d, AllGenuine(b, c)
    PROVE  AllGenuine(b, d)
  BY DEF AllGenuine, Genuine

\* A step of p keeps the invariant when it forgets no encoding, does not remove
\* the ledger file, and leaves the file system and p itself as they should be.
LEMMA FileKept ==
    ASSUME FileInv, NEW p \in Processes, Only(p), MainTyped',
           node' \in [Nodes -> Files], name' \in [Names -> Nodes \cup {NoNode}],
           encoded \subseteq encoded', Exists("ledger") => Exists("ledger")',
           NodesGenuine', NamesApart', Holds(proc[p])'
    PROVE  FileInv'
<1>1. TypeOK'
  BY DEF TypeOK, Only
<1>2. ASSUME NEW q \in Processes PROVE Holds(proc[q])'
  <2>1. CASE q = p
    BY <2>1
  <2>2. CASE q # p
    <3>1. proc'[q] = proc[q] /\ Holds(proc[q])
      BY <2>2 DEF FileInv, Only
    <3>2. AllGenuine(proc[q].saved, encoded')
      BY <3>1, GenuineGrows DEF Holds
    <3>3. proc[q].origin = <<>> \/ proc[q].origin \in encoded'
      BY <3>1 DEF Holds
    <3>4. proc[q].step \in {"inspect", "read"} => Exists("ledger")'
      BY <3>1 DEF Holds
    <3>5. proc[q].step = "write" => proc[q].target \in Nodes /\ proc[q].offset <= Len(proc[q].saved)
      BY <3>1 DEF Holds
    <3> QED
      BY <3>1, <3>2, <3>3, <3>4, <3>5 DEF Holds
  <2> QED
    BY <2>1, <2>2
<1> QED
  BY <1>1, <1>2 DEF FileInv

\* A step that does not touch the file system.
LEMMA FileQuiet ==
    ASSUME FileInv, NEW p \in Processes, Only(p), MainTyped', UNCHANGED <<node, name, encoded>>,
           Holds(proc[p])'
    PROVE  FileInv'
<1>1. /\ node' \in [Nodes -> Files] /\ name' \in [Names -> Nodes \cup {NoNode}]
      /\ encoded \subseteq encoded'
  BY DEF FileInv, TypeOK
<1>2. (Exists("ledger") => Exists("ledger")') /\ NamesApart'
  BY DEF FileInv, NamesApart, Exists
<1>3. NodesGenuine'
  BY DEF FileInv, NodesGenuine, AllGenuine
<1> QED
  BY <1>1, <1>2, <1>3, FileKept

\* A step that keeps what p was going to write and what p has loaded, and goes
\* to a stage that needs neither the file nor an open node.
LEMMA HoldsOn ==
    ASSUME FileInv, NEW p \in Processes, UNCHANGED <<node, name, encoded>>,
           proc'[p].saved = proc[p].saved \/ proc'[p].saved = <<>>,
           proc'[p].origin = proc[p].origin \/ proc'[p].origin = <<>>,
           proc'[p].step \notin {"inspect", "read", "write"}
    PROVE  Holds(proc[p])'
<1>1. Holds(proc[p])
  BY DEF FileInv
<1>2. AllGenuine(proc'[p].saved, encoded')
  BY <1>1 DEF Holds, AllGenuine
<1> QED
  BY <1>1, <1>2 DEF Holds

-----------------------------------------------------------------------------
(* Invocations that do not overlap *)

\* A step of the only process that runs, or of the first one, keeps the
\* invariant when what is confirmed stays in the file and p carries it on.
LEMMA OneKept ==
    ASSUME IInv, NEW p \in Processes, Only(p), exclusive' = exclusive,
           exclusive => ~IsIdle(p) \/ \A q \in Processes : IsIdle(q),
           exclusive => Kept' /\ Carries(proc[p])'
    PROVE  OneAtATime'
<1> SUFFICES ASSUME exclusive PROVE Alone' /\ \A q \in Processes : Carries(proc[q])'
  BY DEF OneAtATime
<1>1. \A q \in Processes \ {p} : proc[q].step = "idle" /\ proc'[q] = proc[q]
  BY DEF IInv, OneAtATime, Alone, IsIdle, Only
<1>2. Alone'
  BY <1>1 DEF Alone, IsIdle
<1>3. ASSUME NEW q \in Processes \ {p} PROVE Carries(proc[q])'
  <2>1. proc'[q].step = "idle" /\ (proc'[q].codeFixed => proc'[q].made = {})
    BY <1>1 DEF IInv, OneAtATime, Carries
  <2> QED
    BY <2>1 DEF Carries
<1> QED
  BY <1>2, <1>3

\* The file and what is confirmed stay as they are.
LEMMA KeptOn ==
    ASSUME IInv, UNCHANGED <<node, name, confirmed>>
    PROVE  exclusive => Kept'
  BY DEF IInv, OneAtATime, Kept, Exists, Bytes

\* A process that ends while it has confirmed nothing, is refused or dies.
LEMMA EndsKeeps ==
    ASSUME IInv, NEW p \in Processes, ~IsIdle(p), proc' = [proc EXCEPT ![p] = Idle],
           UNCHANGED <<fileVars, encoded, exclusive, changes, invocations>>,
           confirmed' \in SUBSET Nat, exclusive => Kept'
    PROVE  IInv'
<1>1. Only(p) /\ proc'[p] = Idle
  BY EndsFields DEF IInv, FileInv
<1>2. /\ Idle.step = "idle" /\ Idle.saved = <<>> /\ Idle.origin = <<>>
      /\ Idle.made = {} /\ Idle.codeFixed = FALSE
  BY DEF Idle
<1>3. UNCHANGED <<node, name, encoded>> /\ MainTyped'
  BY DEF fileVars, IInv, FileInv, TypeOK, MainTyped
<1>4. Holds(proc[p])'
  BY <1>1, <1>2, <1>3, HoldsOn DEF IInv
<1>5. FileInv'
  BY <1>1, <1>3, <1>4, FileQuiet DEF IInv
<1>6. Carries(proc[p])'
  BY <1>1, <1>2 DEF Carries
<1>7. OneAtATime'
  BY <1>1, <1>6, OneKept
<1> QED
  BY <1>5, <1>7 DEF IInv

\* A load that is refused, a command that is refused, and a crash.
LEMMA DropKeeps ==
    ASSUME IInv, NEW p \in Processes, LoadRefused(p) \/ Refuse(p) \/ Crash(p)
    PROVE  IInv'
<1>1. /\ ~IsIdle(p) /\ proc' = [proc EXCEPT ![p] = Idle]
      /\ UNCHANGED <<fileVars, encoded, exclusive, changes, invocations, confirmed>>
  BY DEF LoadRefused, Refuse, Crash, IsIdle, mainVars
<1>2. UNCHANGED <<node, name, confirmed>> /\ confirmed' \in SUBSET Nat
  BY <1>1 DEF fileVars, IInv, FileInv, TypeOK, MainTyped
<1>3. exclusive => Kept'
  BY <1>2, KeptOn
<1> QED
  BY <1>1, <1>2, <1>3, EndsKeeps

\* A process ends, and confirms its changes unless its exit code is 1.
LEMMA ExitKeeps ==
    ASSUME IInv, NEW p \in Processes, Exit(p)
    PROVE  IInv'
<1>1. /\ proc[p].step = "exit" /\ ~IsIdle(p) /\ proc' = [proc EXCEPT ![p] = Idle]
      /\ UNCHANGED <<fileVars, encoded, exclusive, changes, invocations>>
  BY DEF Exit, IsIdle
<1>2. confirmed' = IF proc[p].code = kExitUsage THEN confirmed ELSE confirmed \cup proc[p].made
  BY DEF Exit
<1>3. proc[p].made \in SUBSET Nat
  BY DEF IInv, FileInv, TypeOK, Procs
<1>4. confirmed' \in SUBSET Nat
  BY <1>2, <1>3 DEF IInv, FileInv, TypeOK, MainTyped
<1>5. ASSUME exclusive PROVE Kept'
  <2>1. UNCHANGED <<node, name>>
    BY <1>1 DEF fileVars
  <2>2. Kept /\ Carries(proc[p])
    BY <1>5 DEF IInv, OneAtATime
  <2>3. proc[p].code # kExitUsage /\ proc[p].made # {} =>
          Exists("ledger") /\ proc[p].made \subseteq Payload(Bytes("ledger"))
    BY <1>1, <2>2 DEF Carries
  <2>4. confirmed' # {} => Exists("ledger") /\ confirmed' \subseteq Payload(Bytes("ledger"))
    BY <1>2, <2>2, <2>3 DEF Kept
  <2>5. Exists("ledger")' = Exists("ledger") /\ Bytes("ledger")' = Bytes("ledger")
    BY <2>1 DEF Exists, Bytes
  <2> QED
    BY <2>4, <2>5 DEF Kept, Payload
<1> QED
  BY <1>1, <1>4, <1>5, EndsKeeps

\* A process starts: while invocations do not overlap, it is the only one.
LEMMA InvokeKeeps ==
    ASSUME IInv, NEW p \in Processes, NEW e \in Epochs, Invoke(p, e)
    PROVE  IInv'
<1>1. /\ Only(p)
      /\ proc'[p].step = "probe" /\ proc'[p].codeFixed = FALSE
      /\ proc'[p].made = {} /\ proc'[p].saved = <<>> /\ proc'[p].origin = <<>>
      /\ proc'[p].blind = FALSE
  BY InvokeFields DEF IInv, FileInv
<1>2. /\ UNCHANGED <<node, name, encoded, exclusive, confirmed>> /\ MainTyped'
      /\ exclusive => \A q \in Processes : IsIdle(q)
  BY DEF Invoke, fileVars, IInv, FileInv, TypeOK, MainTyped
<1>3. Holds(proc[p])'
  BY <1>1, <1>2, HoldsOn DEF IInv
<1>4. FileInv'
  BY <1>1, <1>2, <1>3, FileQuiet DEF IInv
<1>5. Carries(proc[p])'
  BY <1>1 DEF Carries
<1>6. OneAtATime'
  BY <1>1, <1>2, <1>5, OneKept, KeptOn
<1> QED
  BY <1>4, <1>6 DEF IInv

\* The file is looked for: without one nothing can have been confirmed, and a
\* process that cannot open it owes the file nothing but its own changes.
LEMMA ProbeKeeps ==
    ASSUME IInv, NEW p \in Processes, Probe(p)
    PROVE  IInv'
<1>0. PICK s \in Steps, d \in BOOLEAN :
          /\ proc[p].step = "probe" /\ proc' = [proc EXCEPT ![p].step = s, ![p].blind = d]
          /\ s \in {"inspect", "run"}
          /\ s = "inspect" => Exists("ledger") /\ ~d
          /\ s = "run" => ~Exists("ledger") \/ d
  <2>1. PICK opened \in BOOLEAN :
          /\ opened => Exists("ledger")
          /\ proc' = [proc EXCEPT ![p].step = IF opened THEN "inspect" ELSE "run",
                                  ![p].blind = Exists("ledger") /\ ~opened]
    BY DEF Probe
  <2> DEFINE d == Exists("ledger") /\ ~opened
  <2>2. d \in BOOLEAN /\ proc[p].step = "probe" /\ {"inspect", "run"} \subseteq Steps
    BY DEF Probe, Steps, Exists
  <2>3. CASE opened
    <3>1. proc' = [proc EXCEPT ![p].step = "inspect", ![p].blind = d]
      BY <2>1, <2>3
    <3>2. Exists("ledger") /\ ~d
      BY <2>1, <2>3
    <3> HIDE DEF d
    <3> QED
      BY <2>2, <3>1, <3>2
  <2>4. CASE ~opened
    <3>1. proc' = [proc EXCEPT ![p].step = "run", ![p].blind = d]
      BY <2>1, <2>4
    <3>2. ~Exists("ledger") \/ d
      BY <2>4
    <3> HIDE DEF d
    <3> QED
      BY <2>2, <3>1, <3>2
  <2> QED
    BY <2>3, <2>4
<1>1. UNCHANGED <<node, name, encoded, exclusive, confirmed>> /\ MainTyped'
  BY DEF Probe, fileVars, mainVars, IInv, FileInv, TypeOK, MainTyped
<1>2. /\ Only(p)
      /\ proc'[p].step = s /\ proc'[p].codeFixed = proc[p].codeFixed
      /\ proc'[p].made = proc[p].made /\ proc'[p].blind = d /\ proc'[p].saved = proc[p].saved
      /\ proc'[p].origin = proc[p].origin
  <2>1. proc'[p] = [proc[p] EXCEPT !.step = s, !.blind = d] /\ proc[p] \in Procs
    BY <1>0 DEF IInv, FileInv, TypeOK
  <2>2. proc'[p] \in Procs
    BY <2>1 DEF Procs
  <2>3. Only(p)
    BY <1>0, <2>2 DEF IInv, FileInv, TypeOK, Only
  <2> QED
    BY <2>1, <2>3 DEF Procs
<1>3. Holds(proc[p])'
  <2>1. Holds(proc[p])
    BY DEF IInv, FileInv
  <2>2. AllGenuine(proc'[p].saved, encoded')
    BY <1>1, <1>2, <2>1 DEF Holds
  <2>3. proc'[p].step \in {"inspect", "read"} => Exists("ledger")'
    BY <1>0, <1>1, <1>2 DEF Exists
  <2> QED
    BY <1>0, <1>1, <1>2, <2>1, <2>2, <2>3 DEF Holds
<1>4. FileInv'
  BY <1>1, <1>2, <1>3, FileQuiet DEF IInv
<1>5. ASSUME exclusive PROVE Carries(proc[p])'
  <2>1. Kept /\ Carries(proc[p])
    BY <1>5 DEF IInv, OneAtATime
  <2>2. proc'[p].made = {} /\ ~proc'[p].codeFixed
    BY <1>0, <1>2, <2>1 DEF Carries
  <2>3. s = "run" => Due(proc[p])' = {}
    BY <1>0, <1>1, <1>2, <2>1, <2>2 DEF Kept, Due
  <2> QED
    BY <1>0, <1>2, <2>2, <2>3 DEF Carries
<1>6. OneAtATime'
  BY <1>0, <1>1, <1>2, <1>5, OneKept, KeptOn DEF IsIdle
<1> QED
  BY <1>4, <1>6 DEF IInv

\* A ledger that takes a change has one number more.
LEMMA NumbersAppend ==
    ASSUME NEW l \in Ledgers, NEW n \in Nat
    PROVE  Numbers(l) \cup {n} \subseteq Numbers(Append(l, Change(n)))
<1> DEFINE c == Change(n)
<1>1. l \in Seq(Changes) /\ c \in Changes /\ c.number = n
  BY DEF Ledgers, Changes, Change
<1> HIDE DEF c
<1>2. /\ Len(Append(l, c)) = Len(l) + 1
      /\ \A i \in 1..Len(l) : Append(l, c)[i] = l[i]
      /\ Append(l, c)[Len(l) + 1] = c
  BY <1>1, AppendProperties
<1>3. ASSUME NEW x \in Numbers(l) PROVE x \in Numbers(Append(l, c))
  <2>1. PICK i \in 1..Len(l) : x = l[i].number
    BY <1>3 DEF Numbers
  <2>2. i \in 1..Len(Append(l, c)) /\ Append(l, c)[i] = l[i]
    BY <1>1, <1>2, <2>1
  <2> QED
    BY <2>1, <2>2 DEF Numbers
<1>4. n \in Numbers(Append(l, c))
  <2>1. Len(l) + 1 \in 1..Len(Append(l, c))
    BY <1>1, <1>2
  <2> QED
    BY <1>1, <1>2, <2>1 DEF Numbers
<1> QED
  BY <1>3, <1>4 DEF c

\* A command makes a change, or changes nothing: the ledger of the process has
\* its own changes and the confirmed ones.
LEMMA RunKeeps ==
    ASSUME IInv, NEW p \in Processes, NEW s \in {"serve", "after", "encode"}, NEW x \in Nat,
           proc[p].step \in {"run", "serve", "after"}, Makes(p, s, x) \/ Proceeds(p, s, x)
    PROVE  IInv'
<1>0. TypeOK /\ s \in Steps
  BY DEF IInv, FileInv, Steps
<1>1. /\ Only(p)
      /\ proc'[p].step = s /\ proc'[p].codeFixed = proc[p].codeFixed
      /\ proc'[p].saved = proc[p].saved /\ proc'[p].origin = proc[p].origin
  BY <1>0, MakesFields, ProceedsFields
<1>2. UNCHANGED <<node, name, encoded, exclusive, confirmed>>
  BY DEF Makes, Proceeds, fileVars, mainVars
<1>3. MainTyped'
  BY <1>0 DEF Makes, Proceeds, mainVars, TypeOK, MainTyped
<1>4. Holds(proc[p])'
  BY <1>1, <1>2, HoldsOn DEF IInv
<1>5. FileInv'
  BY <1>1, <1>2, <1>3, <1>4, FileQuiet DEF IInv
<1>6. ASSUME exclusive PROVE Carries(proc[p])'
  <2>1. Carries(proc[p])
    BY <1>6 DEF IInv, OneAtATime
  <2>2. Due(proc[p]) \subseteq Numbers(proc[p].ledger) /\ ~proc[p].codeFixed
    BY <2>1 DEF Carries
  <2>3. Due(proc[p])' \subseteq Numbers(proc'[p].ledger)
    <3>1. CASE Makes(p, s, x)
      <4>1. /\ proc'[p].ledger = Append(proc[p].ledger, Change(changes + 1))
            /\ proc'[p].made = proc[p].made \cup {changes + 1} /\ proc'[p].blind = proc[p].blind
        BY <1>0, <3>1, MakesFields
      <4>2. proc[p].ledger \in Ledgers /\ changes + 1 \in Nat
        BY <1>0 DEF TypeOK, MainTyped, Procs
      <4>3. Numbers(proc[p].ledger) \cup {changes + 1} \subseteq Numbers(proc'[p].ledger)
        BY <4>1, <4>2, NumbersAppend
      <4> QED
        BY <1>2, <2>2, <4>1, <4>3 DEF Due
    <3>2. CASE Proceeds(p, s, x)
      <4>1. proc'[p].ledger = proc[p].ledger /\ proc'[p].made = proc[p].made /\ proc'[p].blind = proc[p].blind
        BY <1>0, <3>2, ProceedsFields
      <4> QED
        BY <1>2, <2>2, <4>1 DEF Due
    <3> QED
      BY <3>1, <3>2
  <2> QED
    BY <1>1, <2>2, <2>3 DEF Carries
<1>7. OneAtATime'
  BY <1>1, <1>2, <1>6, OneKept, KeptOn DEF IsIdle
<1> QED
  BY <1>5, <1>7 DEF IInv

\* Explain fixes the exit code of a process that has made no change.
LEMMA ExplainKeeps ==
    ASSUME IInv, NEW p \in Processes, Explain(p)
    PROVE  IInv'
<1>1. /\ Only(p)
      /\ proc'[p].step = "encode" /\ proc'[p].codeFixed = TRUE
      /\ proc'[p].ledger = proc[p].ledger /\ proc'[p].made = proc[p].made /\ proc'[p].blind = proc[p].blind
      /\ proc'[p].saved = proc[p].saved /\ proc'[p].origin = proc[p].origin
  BY ExplainFields DEF IInv, FileInv
<1>2. UNCHANGED <<node, name, encoded, exclusive, confirmed>> /\ proc[p].step = "run" /\ MainTyped'
  BY DEF Explain, At, fileVars, mainVars, IInv, FileInv, TypeOK, MainTyped
<1>3. Holds(proc[p])'
  BY <1>1, <1>2, HoldsOn DEF IInv
<1>4. FileInv'
  BY <1>1, <1>2, <1>3, FileQuiet DEF IInv
<1>5. ASSUME exclusive PROVE Carries(proc[p])'
  <2>1. Carries(proc[p])
    BY <1>5 DEF IInv, OneAtATime
  <2>2. Due(proc[p])' \subseteq Numbers(proc'[p].ledger) /\ proc'[p].made = {}
    BY <1>1, <1>2, <2>1 DEF Carries, Due
  <2> QED
    BY <1>1, <2>2 DEF Carries
<1>6. OneAtATime'
  BY <1>1, <1>2, <1>5, OneKept, KeptOn DEF IsIdle
<1> QED
  BY <1>4, <1>6 DEF IInv

-----------------------------------------------------------------------------
(* The load *)

\* The file is inspected: alone, the process finds all of it.
LEMMA InspectKeeps ==
    ASSUME IInv, NEW p \in Processes, InspectFile(p), UNCHANGED mainVars
    PROVE  IInv'
<1>0. TypeOK /\ Holds(proc[p]) /\ proc[p].step = "inspect" /\ Exists("ledger")
  BY DEF IInv, FileInv, InspectFile, Holds
<1>1. /\ Only(p)
      /\ proc'[p].step = "read" /\ proc'[p].size = Len(Bytes("ledger"))
      /\ proc'[p].made = proc[p].made /\ proc'[p].blind = proc[p].blind /\ proc'[p].codeFixed = proc[p].codeFixed
      /\ proc'[p].saved = proc[p].saved /\ proc'[p].origin = proc[p].origin
  BY <1>0, InspectFields
<1>2. UNCHANGED <<node, name, encoded, exclusive, confirmed>> /\ MainTyped'
  BY <1>0 DEF InspectFile, fileVars, mainVars, TypeOK, MainTyped
<1>3. Exists("ledger")' /\ Bytes("ledger")' = Bytes("ledger")
  BY <1>0, <1>2 DEF Exists, Bytes
<1>4. Holds(proc[p])'
  <2>1. AllGenuine(proc'[p].saved, encoded')
    BY <1>0, <1>1, <1>2 DEF Holds
  <2> QED
    BY <1>0, <1>1, <1>2, <1>3, <2>1 DEF Holds
<1>5. FileInv'
  BY <1>1, <1>2, <1>4, FileQuiet DEF IInv
<1>6. ASSUME exclusive PROVE Carries(proc[p])'
  <2>1. Carries(proc[p])
    BY <1>6 DEF IInv, OneAtATime
  <2>2. proc'[p].made = {} /\ ~proc'[p].codeFixed /\ ~proc'[p].blind
    BY <1>0, <1>1, <2>1 DEF Carries
  <2> QED
    BY <1>1, <1>3, <2>2 DEF Carries
<1>7. OneAtATime'
  BY <1>0, <1>1, <1>2, <1>6, OneKept, KeptOn DEF IsIdle
<1> QED
  BY <1>5, <1>7 DEF IInv

\* A file whose digest fits is the encoding its header stands for.
LEMMA VerifiedWasEncoded ==
    ASSUME NEW c \in Seq(Blocks), Verified(c), Genuine(c[1], encoded)
    PROVE  c \in encoded
<1> DEFINE h == c[1]
<1>1. h \in Blocks /\ h.kind = "header" /\ h.changes = Tail(c) /\ Len(c) >= 1
  BY DEF Verified
<1>2. EncodeLedger(h.changes, h.number) \in encoded
  BY <1>1 DEF Genuine
<1>3. h.changes \in Ledgers /\ h.number \in Nat
  BY <1>1 DEF Blocks
<1>4. Header(h.number, h.changes) = h
  BY <1>1 DEF Header, Blocks
<1> DEFINE d == EncodeLedger(h.changes, h.number)
           l == h.changes
<1>5. /\ d \in Seq(Blocks)
      /\ Len(d) = Len(l) + 1
      /\ d[1] = h
      /\ \A i \in 2..(Len(l) + 1) : d[i] = l[i - 1]
  BY <1>3, <1>4, EncodingShape
<1>6. Len(l) = Len(c) - 1 /\ \A i \in 1..Len(l) : l[i] = c[i + 1]
  BY <1>1, HeadTailProperties
<1> HIDE DEF d, l, h
<1>7. Len(c) = Len(d) /\ \A i \in 1..Len(c) : c[i] = d[i]
  <2>1. Len(c) \in Nat /\ Len(l) \in Nat /\ Len(c) = Len(d)
    BY <1>1, <1>3, <1>5, <1>6 DEF l, Ledgers
  <2>2. ASSUME NEW i \in 1..Len(c) PROVE c[i] = d[i]
    <3>1. CASE i = 1
      BY <1>5, <3>1 DEF h
    <3>2. CASE i # 1
      <4>1. i \in 2..(Len(l) + 1) /\ i - 1 \in 1..Len(l) /\ (i - 1) + 1 = i
        BY <1>5, <2>1, <3>2
      <4> QED
        BY <1>5, <1>6, <4>1
    <3> QED
      BY <3>1, <3>2
  <2> QED
    BY <2>1, <2>2
<1>8. c = d
  BY <1>5, <1>7, SeqEqual
<1> QED
  BY <1>2, <1>8 DEF d

\* The numbers of what follows the header.
LEMMA NumbersTail ==
    ASSUME NEW c \in Seq(Blocks), Len(c) >= 1
    PROVE  Payload(c) \subseteq Numbers(Tail(c))
<1>1. Len(Tail(c)) = Len(c) - 1 /\ \A i \in 1..Len(Tail(c)) : Tail(c)[i] = c[i + 1]
  BY HeadTailProperties
<1> SUFFICES ASSUME NEW x \in Payload(c) PROVE x \in Numbers(Tail(c))
  OBVIOUS
<1>2. PICK i \in 2..Len(c) : x = c[i].number
  BY DEF Payload
<1>3. i - 1 \in 1..Len(Tail(c)) /\ (i - 1) + 1 = i
  BY <1>1, <1>2
<1>4. Tail(c)[i - 1] = c[i]
  BY <1>1, <1>3
<1> QED
  BY <1>2, <1>3, <1>4 DEF Numbers

\* Files that have the same blocks have the same payload.
LEMMA SamePayload ==
    ASSUME NEW b, NEW c, Len(b) = Len(c), Len(b) \in Nat, \A i \in 1..Len(b) : b[i] = c[i]
    PROVE  Payload(b) = Payload(c)
<1>1. \A i \in 2..Len(b) : b[i] = c[i]
  OBVIOUS
<1> QED
  BY <1>1 DEF Payload

\* The file is read.
LEMMA ReadKeeps ==
    ASSUME IInv, NEW p \in Processes, ReadFile(p), UNCHANGED mainVars
    PROVE  IInv'
<1> DEFINE c == Contents(p)
           b == Bytes("ledger")
<1>0. /\ TypeOK /\ Holds(proc[p]) /\ proc[p].step = "read" /\ Exists("ledger")
      /\ Readable(p)
  BY DEF IInv, FileInv, ReadFile, Holds
<1>1. /\ Only(p)
      /\ proc'[p].step = "run"
      /\ proc'[p].ledger = Tail(c) /\ proc'[p].origin = c
      /\ proc'[p].made = proc[p].made /\ proc'[p].blind = proc[p].blind /\ proc'[p].codeFixed = proc[p].codeFixed
      /\ proc'[p].saved = proc[p].saved
  BY <1>0, ReadFields
<1>2. UNCHANGED <<node, name, encoded, exclusive, confirmed>> /\ MainTyped'
  BY <1>0 DEF ReadFile, fileVars, mainVars, TypeOK, MainTyped
<1>3. /\ b \in Seq(Blocks) /\ c \in Seq(Blocks)
      /\ Len(c) = proc[p].size /\ Len(c) >= 1 /\ Len(c) <= Len(b)
      /\ \A i \in 1..Len(c) : c[i] = b[i]
  BY <1>0, ContentsTyped
<1>4. c \in encoded
  <2>1. Verified(c)
    BY <1>0 DEF Readable, Decodable
  <2>2. AllGenuine(b, encoded)
    BY <1>0 DEF IInv, FileInv, NodesGenuine, TypeOK, Exists, Bytes, Names
  <2>3. 1 \in 1..Len(b) /\ 1 \in 1..Len(c)
    BY <1>3
  <2>4. Genuine(c[1], encoded)
    BY <1>3, <2>2, <2>3 DEF AllGenuine
  <2> QED
    BY <1>3, <2>1, <2>4, VerifiedWasEncoded
<1> HIDE DEF c, b
<1>5. Holds(proc[p])'
  <2>1. AllGenuine(proc'[p].saved, encoded')
    BY <1>0, <1>1, <1>2 DEF Holds
  <2> QED
    BY <1>1, <1>2, <1>4, <2>1 DEF Holds
<1>6. FileInv'
  BY <1>1, <1>2, <1>5, FileQuiet DEF IInv
<1>7. ASSUME exclusive PROVE Carries(proc[p])'
  <2>1. Kept /\ Carries(proc[p])
    BY <1>7 DEF IInv, OneAtATime
  <2>2. proc[p].made = {} /\ ~proc[p].codeFixed /\ Len(c) = Len(b)
    BY <1>0, <1>3, <2>1 DEF Carries, b
  <2>3. Payload(c) = Payload(b)
    BY <1>3, <2>2, SamePayload
  <2>4. confirmed \subseteq Numbers(Tail(c))
    BY <1>3, <2>1, <2>3, NumbersTail DEF Kept, b
  <2> QED
    BY <1>1, <1>2, <2>2, <2>4 DEF Carries, Due
<1>8. OneAtATime'
  BY <1>0, <1>1, <1>2, <1>7, OneKept, KeptOn DEF IsIdle
<1> QED
  BY <1>6, <1>8 DEF IInv

-----------------------------------------------------------------------------
(* The save *)

\* The ledger is encoded: the header is genuine by definition.
LEMMA EncodeKeeps ==
    ASSUME IInv, NEW p \in Processes, Encode(p), UNCHANGED mainVars
    PROVE  IInv'
<1> DEFINE l == proc[p].ledger
           e == proc[p].epoch
           d == EncodeLedger(l, e)
<1>0. TypeOK /\ proc[p].step = "encode" /\ l \in Ledgers /\ e \in Nat
  BY DEF IInv, FileInv, Encode, TypeOK, Procs
<1>1. /\ Only(p)
      /\ proc'[p].step = "open" /\ proc'[p].saved = d /\ proc'[p].origin = <<>>
      /\ proc'[p].made = proc[p].made /\ proc'[p].blind = proc[p].blind /\ proc'[p].codeFixed = proc[p].codeFixed
      /\ encoded' = encoded \cup {d}
      /\ UNCHANGED <<node, name>>
  BY <1>0, EncodeFields
<1>2. UNCHANGED <<exclusive, confirmed>> /\ MainTyped'
  BY <1>0 DEF mainVars, TypeOK, MainTyped
<1>3. /\ Len(d) = Len(l) + 1
      /\ d[1] = Header(e, l)
      /\ \A i \in 2..(Len(l) + 1) : d[i] = l[i - 1]
      /\ Payload(d) = Numbers(l)
  BY <1>0, EncodingShape
<1>4. AllGenuine(d, encoded')
  <2> SUFFICES ASSUME NEW i \in 1..Len(d) PROVE Genuine(d[i], encoded')
    BY DEF AllGenuine
  <2>1. Len(l) \in Nat
    BY <1>0 DEF Ledgers
  <2>2. CASE i = 1
    <3>1. d[1].changes = l /\ d[1].number = e
      BY <1>3 DEF Header
    <3> QED
      BY <1>1, <2>2, <3>1 DEF Genuine
  <2>3. CASE i # 1
    <3>1. i - 1 \in 1..Len(l) /\ i \in 2..(Len(l) + 1)
      BY <1>3, <2>1, <2>3
    <3>2. d[i] \in Changes
      BY <1>0, <1>3, <3>1 DEF Ledgers
    <3>3. PICK n \in Nat : d[i] = Change(n)
      BY <3>2, Zenon DEF Changes
    <3>4. d[i].kind = "change"
      BY <3>3 DEF Change
    <3> QED
      BY <3>4 DEF Genuine
  <2> QED
    BY <2>2, <2>3
<1> HIDE DEF d, l, e
<1>5. Holds(proc[p])'
  BY <1>1, <1>4 DEF Holds
<1>6. NodesGenuine'
  <2>1. \A n \in Nodes : AllGenuine(node[n], encoded')
    BY <1>1, GenuineGrows DEF IInv, FileInv, NodesGenuine
  <2> QED
    BY <1>1, <2>1 DEF NodesGenuine
<1>7. /\ node' \in [Nodes -> Files] /\ name' \in [Names -> Nodes \cup {NoNode}]
      /\ encoded \subseteq encoded'
      /\ Exists("ledger") => Exists("ledger")'
      /\ NamesApart'
  BY <1>0, <1>1 DEF TypeOK, Exists, NamesApart, IInv, FileInv
<1>8. FileInv'
  BY <1>1, <1>2, <1>5, <1>6, <1>7, FileKept DEF IInv
<1>9. ASSUME exclusive PROVE Carries(proc[p])'
  <2>1. Carries(proc[p])
    BY <1>9 DEF IInv, OneAtATime
  <2>2. Due(proc[p]) \subseteq Payload(d)
    BY <1>0, <1>3, <2>1 DEF Carries, l
  <2>3. proc[p].codeFixed => proc[p].made = {}
    BY <2>1 DEF Carries
  <2> QED
    BY <1>1, <1>2, <2>2, <2>3 DEF Carries, Due
<1>10. OneAtATime'
  BY <1>0, <1>1, <1>2, <1>9, OneKept, KeptOn DEF IsIdle
<1> QED
  BY <1>8, <1>10 DEF IInv

\* The temporary file is opened, and what it had is gone; the ledger file is
\* another node.
LEMMA OpenKeeps ==
    ASSUME IInv, NEW p \in Processes, OpenTemporary(p), UNCHANGED mainVars
    PROVE  IInv'
<1> DEFINE t == proc'[p].target
<1>0. TypeOK /\ Holds(proc[p]) /\ proc[p].step = "open" /\ NamesApart
  BY DEF IInv, FileInv, OpenTemporary
<1>1. /\ Only(p)
      /\ proc'[p].step = "write" /\ proc'[p].offset = 0
      /\ proc'[p].saved = proc[p].saved /\ proc'[p].origin = proc[p].origin
      /\ proc'[p].made = proc[p].made /\ proc'[p].blind = proc[p].blind /\ proc'[p].codeFixed = proc[p].codeFixed
      /\ t \in Nodes /\ t # name["ledger"]
      /\ node' = [node EXCEPT ![t] = <<>>]
      /\ name' = [name EXCEPT !["tmp"] = t]
      /\ encoded' = encoded
  BY <1>0, OpenFields
<1>2. UNCHANGED <<exclusive, confirmed>> /\ MainTyped'
  BY <1>0 DEF mainVars, TypeOK, MainTyped
<1> HIDE DEF t
<1>3. <<>> \in Files /\ proc[p].saved \in Files
  BY <1>0 DEF TypeOK, Procs, Files
<1>4. /\ node' \in [Nodes -> Files] /\ name' \in [Names -> Nodes \cup {NoNode}]
      /\ node'[t] = <<>> /\ \A n \in Nodes \ {t} : node'[n] = node[n]
      /\ name'["tmp"] = t /\ name'["ledger"] = name["ledger"]
  BY <1>0, <1>1, <1>3 DEF TypeOK, Names
<1>5. (Exists("ledger") => Exists("ledger")') /\ NamesApart'
  BY <1>1, <1>4 DEF Exists, NamesApart
<1>6. NodesGenuine'
  <2> SUFFICES ASSUME NEW n \in Nodes PROVE AllGenuine(node'[n], encoded)
    BY <1>1 DEF NodesGenuine
  <2>1. CASE n = t
    BY <1>4, <2>1 DEF AllGenuine
  <2>2. CASE n # t
    BY <1>4, <2>2 DEF IInv, FileInv, NodesGenuine
  <2> QED
    BY <2>1, <2>2
<1>7. Holds(proc[p])'
  <2>1. AllGenuine(proc'[p].saved, encoded')
    BY <1>0, <1>1 DEF Holds
  <2>2. 0 <= Len(proc[p].saved)
    BY <1>3 DEF Files
  <2> QED
    BY <1>0, <1>1, <2>1, <2>2 DEF Holds, t
<1>8. FileInv'
  BY <1>1, <1>2, <1>4, <1>5, <1>6, <1>7, FileKept DEF IInv
<1>9. ASSUME exclusive PROVE Kept' /\ Carries(proc[p])'
  <2>1. Kept /\ Carries(proc[p])
    BY <1>9 DEF IInv, OneAtATime
  <2>2. Exists("ledger") => Bytes("ledger")' = Bytes("ledger") /\ Exists("ledger")'
    BY <1>0, <1>1, <1>4 DEF Exists, Bytes, TypeOK, Names
  <2>3. Kept'
    BY <1>2, <2>1, <2>2 DEF Kept
  <2>4. /\ Due(proc[p]) \subseteq Payload(proc[p].saved)
        /\ proc[p].codeFixed => proc[p].made = {}
    BY <1>0, <2>1 DEF Carries
  <2>5. Len(node'[t]) = 0
    BY <1>4
  <2>6. Carries(proc[p])'
    BY <1>1, <1>2, <1>4, <2>4, <2>5 DEF Carries, Due, t
  <2> QED
    BY <2>3, <2>6
<1>10. OneAtATime'
  BY <1>0, <1>1, <1>2, <1>9, OneKept DEF IsIdle
<1> QED
  BY <1>8, <1>10 DEF IInv

\* Blocks are written: every block of the node is one of the encoding, one that
\* was there, or a hole.  Alone, the node is what has been written so far.
LEMMA WriteKeeps ==
    ASSUME IInv, NEW p \in Processes, WriteBlocks(p), UNCHANGED mainVars
    PROVE  IInv'
<1> DEFINE t == proc[p].target
           b == node[t]
           o == proc[p].offset
           v == proc[p].saved
           n == proc'[p].offset
           d == SubSeq(v, o + 1, n)
           w == Overwritten(b, o, d)
<1>0. TypeOK /\ Holds(proc[p])
  BY DEF IInv, FileInv
<1>1. /\ Only(p)
      /\ proc[p].step = "write" /\ proc'[p].step = "write"
      /\ proc'[p].saved = v /\ proc'[p].origin = proc[p].origin
      /\ proc'[p].made = proc[p].made /\ proc'[p].blind = proc[p].blind /\ proc'[p].codeFixed = proc[p].codeFixed
      /\ proc'[p].target = t
      /\ n \in (o + 1)..Len(v)
      /\ node' = [node EXCEPT ![t] = w]
      /\ UNCHANGED <<name, encoded>>
  BY <1>0, WriteFields
<1>2. UNCHANGED <<exclusive, confirmed>> /\ MainTyped'
  BY <1>0 DEF mainVars, TypeOK, MainTyped
<1>3. t \in Nodes /\ o \in Nat /\ v \in Seq(Blocks) /\ b \in Seq(Blocks)
  <2>1. proc[p] \in Procs
    BY <1>0 DEF TypeOK
  <2>2. t \in Nodes
    BY <1>0, <1>1 DEF Holds
  <2> QED
    BY <1>0, <2>1, <2>2 DEF Procs, Files, TypeOK
<1> HIDE DEF t, b, o, v, n, d, w
<1>4. d \in Seq(Blocks) /\ Len(d) = n - o /\ \A i \in 1..(n - o) : d[i] = v[o + i]
  <2>1. o + 1 \in Int /\ n \in Int /\ \A i \in (o + 1)..n : v[i] \in Blocks
    BY <1>1, <1>3
  <2>2. /\ SubSeq(v, o + 1, n) \in Seq(Blocks)
        /\ Len(SubSeq(v, o + 1, n)) = IF o + 1 <= n THEN n - (o + 1) + 1 ELSE 0
        /\ \A i \in 1..(n - (o + 1) + 1) : SubSeq(v, o + 1, n)[i] = v[(o + 1) + i - 1]
    BY <2>1, SubSeqProperties
  <2>3. o + 1 <= n /\ n - (o + 1) + 1 = n - o /\ \A i \in Int : (o + 1) + i - 1 = o + i
    BY <1>1, <1>3, <2>1
  <2> QED
    BY <2>2, <2>3 DEF d
<1>5. n \in Nat /\ o < n /\ n <= Len(v) /\ o + Len(d) = n /\ Len(b) \in Nat
  BY <1>1, <1>3, <1>4
<1>6. /\ w \in Seq(Blocks)
      /\ Len(w) = IF Len(b) > n THEN Len(b) ELSE n
      /\ \A i \in 1..Len(w) : w[i] = IF i \in (o + 1)..n THEN d[i - o]
                                     ELSE IF i <= Len(b) THEN b[i] ELSE Hole
  <2>1. /\ Overwritten(b, o, d) \in Seq(Blocks)
        /\ Len(Overwritten(b, o, d)) =
              IF Len(b) > o + Len(d) THEN Len(b) ELSE o + Len(d)
        /\ \A i \in 1..Len(Overwritten(b, o, d)) :
              Overwritten(b, o, d)[i] =
                  IF i \in (o + 1)..(o + Len(d)) THEN d[i - o]
                  ELSE IF i <= Len(b) THEN b[i] ELSE Hole
    BY <1>3, <1>4, OverwrittenShape
  <2> QED
    BY <1>5, <2>1 DEF w
<1>7. \A i \in 1..Len(w) : /\ i \in (o + 1)..n => w[i] = v[i] /\ i \in 1..Len(v)
                           /\ i \notin (o + 1)..n /\ i <= Len(b) => w[i] = b[i] /\ i \in 1..Len(b)
                           /\ i \notin (o + 1)..n /\ ~(i <= Len(b)) => w[i] = Hole
  <2> TAKE i \in 1..Len(w)
  <2>1. ASSUME i \in (o + 1)..n PROVE w[i] = v[i] /\ i \in 1..Len(v)
    <3>1. i - o \in 1..(n - o) /\ o + (i - o) = i /\ i \in 1..Len(v)
      BY <1>3, <1>5, <2>1
    <3> QED
      BY <1>4, <1>6, <2>1, <3>1
  <2>2. ASSUME i \notin (o + 1)..n, i <= Len(b) PROVE w[i] = b[i] /\ i \in 1..Len(b)
    BY <1>5, <1>6, <2>2
  <2>3. ASSUME i \notin (o + 1)..n, ~(i <= Len(b)) PROVE w[i] = Hole
    BY <1>6, <2>3
  <2> QED
    BY <2>1, <2>2, <2>3
<1>8. AllGenuine(w, encoded)
  <2>1. AllGenuine(v, encoded) /\ AllGenuine(b, encoded)
    BY <1>0, <1>3 DEF Holds, IInv, FileInv, NodesGenuine, v, b
  <2>2. Genuine(Hole, encoded)
    BY DEF Genuine, Hole
  <2> QED
    BY <1>7, <2>1, <2>2 DEF AllGenuine
<1>9. /\ node' \in [Nodes -> Files] /\ name' \in [Names -> Nodes \cup {NoNode}]
      /\ node'[t] = w /\ \A m \in Nodes \ {t} : node'[m] = node[m]
  <2>1. w \in Files
    BY <1>6 DEF Files
  <2> QED
    BY <1>0, <1>1, <1>3, <2>1 DEF TypeOK
<1>10. NodesGenuine' /\ NamesApart' /\ (Exists("ledger") => Exists("ledger")')
  <2>1. \A m \in Nodes : AllGenuine(node'[m], encoded)
    BY <1>8, <1>9 DEF IInv, FileInv, NodesGenuine
  <2> QED
    BY <1>1, <2>1 DEF IInv, FileInv, NodesGenuine, NamesApart, Exists
<1>11. Holds(proc[p])'
  <2>1. AllGenuine(proc'[p].saved, encoded')
    BY <1>0, <1>1 DEF Holds, v
  <2>2. proc'[p].target \in Nodes /\ proc'[p].offset <= Len(proc'[p].saved)
    BY <1>1, <1>3, <1>5 DEF n
  <2> QED
    BY <1>0, <1>1, <2>1, <2>2 DEF Holds
<1>12. FileInv'
  BY <1>1, <1>2, <1>9, <1>10, <1>11, FileKept DEF IInv
<1>13. ASSUME exclusive PROVE Kept' /\ Carries(proc[p])'
  <2>1. Kept /\ Carries(proc[p])
    BY <1>13 DEF IInv, OneAtATime
  <2>2. /\ Due(proc[p]) \subseteq Payload(v)
        /\ t = name["tmp"] /\ Len(b) = o /\ \A i \in 1..o : b[i] = v[i]
        /\ proc[p].codeFixed => proc[p].made = {}
    BY <1>1, <2>1 DEF Carries, t, b, o, v
  <2>3. t # name["ledger"]
    BY <1>3, <2>2 DEF IInv, FileInv, NamesApart, Exists, Nodes, NoNode
  <2>4. Exists("ledger") => Bytes("ledger")' = Bytes("ledger") /\ Exists("ledger")'
    BY <1>0, <1>1, <1>9, <2>3 DEF Exists, Bytes, TypeOK, Names
  <2>5. Kept'
    BY <1>2, <2>1, <2>4 DEF Kept
  <2>6. Len(w) = n /\ \A i \in 1..n : w[i] = v[i]
    <3>1. Len(w) = n
      BY <1>5, <1>6, <2>2
    <3>2. ASSUME NEW i \in 1..n PROVE w[i] = v[i]
      <4>1. CASE i \in (o + 1)..n
        BY <1>7, <3>1, <4>1
      <4>2. CASE i \notin (o + 1)..n
        <5>1. i \in 1..o /\ i <= Len(b)
          BY <1>3, <1>5, <2>2, <4>2
        <5> QED
          BY <1>7, <2>2, <3>1, <4>2, <5>1
      <4> QED
        BY <4>1, <4>2
    <3> QED
      BY <3>1, <3>2
  <2>7. /\ proc'[p].target = name'["tmp"]
        /\ Len(node'[proc'[p].target]) = proc'[p].offset
        /\ \A i \in 1..proc'[p].offset : node'[proc'[p].target][i] = proc'[p].saved[i]
    BY <1>1, <1>9, <2>2, <2>6 DEF n
  <2>8. /\ Due(proc[p])' \subseteq Payload(proc'[p].saved)
        /\ proc'[p].codeFixed => proc'[p].made = {}
    BY <1>1, <1>2, <2>2 DEF Due
  <2>9. Carries(proc[p])'
    BY <1>1, <2>7, <2>8 DEF Carries
  <2> QED
    BY <2>5, <2>9
<1>14. OneAtATime'
  BY <1>1, <1>2, <1>13, OneKept DEF IsIdle
<1> QED
  BY <1>12, <1>14 DEF IInv

\* The temporary file is closed: alone, it holds the whole encoding.
LEMMA CloseKeeps ==
    ASSUME IInv, NEW p \in Processes, CloseTemporary(p), UNCHANGED mainVars
    PROVE  IInv'
<1> DEFINE t == proc[p].target
           v == proc[p].saved
<1>0. /\ TypeOK /\ Holds(proc[p])
      /\ proc[p].step = "write" /\ proc[p].offset = Len(v)
  BY DEF IInv, FileInv, CloseTemporary
<1>1. /\ Only(p)
      /\ proc'[p].step = "rename" /\ proc'[p].saved = <<>>
      /\ proc'[p].origin = proc[p].origin
      /\ proc'[p].made = proc[p].made /\ proc'[p].blind = proc[p].blind /\ proc'[p].codeFixed = proc[p].codeFixed
  BY <1>0, CloseFields
<1>2. UNCHANGED <<node, name, encoded, exclusive, confirmed>> /\ MainTyped'
  BY <1>0 DEF CloseTemporary, fileVars, mainVars, TypeOK, MainTyped
<1>3. Holds(proc[p])'
  BY <1>1, <1>2, HoldsOn DEF IInv
<1>4. FileInv'
  BY <1>1, <1>2, <1>3, FileQuiet DEF IInv
<1>5. ASSUME exclusive PROVE Carries(proc[p])'
  <2>1. Carries(proc[p])
    BY <1>5 DEF IInv, OneAtATime
  <2>2. /\ Due(proc[p]) \subseteq Payload(v)
        /\ t = name["tmp"] /\ Len(node[t]) = Len(v) /\ \A i \in 1..Len(v) : node[t][i] = v[i]
        /\ proc[p].codeFixed => proc[p].made = {}
    BY <1>0, <2>1 DEF Carries
  <2>3. t \in Nodes /\ Len(v) \in Nat
    <3>1. v \in Seq(Blocks)
      BY <1>0 DEF TypeOK, Procs, Files
    <3> QED
      BY <1>0, <3>1 DEF Holds
  <2> HIDE DEF t, v
  <2>4. Payload(node[t]) = Payload(v)
    BY <2>2, <2>3, SamePayload
  <2>5. Exists("tmp")' /\ Bytes("tmp")' = node[t]
    <3>1. t # NoNode
      BY <2>3, FS_CardinalityType, LedgerFileAssumption DEF Nodes, NoNode
    <3> QED
      BY <1>2, <2>2, <3>1 DEF Exists, Bytes
  <2>6. Due(proc[p])' \subseteq Payload(Bytes("tmp"))'
    BY <1>1, <1>2, <2>2, <2>4, <2>5 DEF Payload, Due
  <2>7. proc'[p].codeFixed => proc'[p].made = {}
    BY <1>1, <2>2
  <2> QED
    BY <1>1, <2>5, <2>6, <2>7 DEF Carries
<1>6. OneAtATime'
  BY <1>0, <1>1, <1>2, <1>5, OneKept, KeptOn DEF IsIdle
<1> QED
  BY <1>4, <1>6 DEF IInv

\* The temporary file becomes the ledger file.
LEMMA ReplaceKeeps ==
    ASSUME IInv, NEW p \in Processes, Replace(p)
    PROVE  IInv'
<1>0. /\ TypeOK /\ Holds(proc[p]) /\ proc[p].step = "rename" /\ Exists("tmp")
      /\ proc' = [proc EXCEPT ![p].step = "exit"] /\ "exit" \in Steps
  BY DEF IInv, FileInv, Replace, ReplaceLedger, Temporary, Steps
<1>1. /\ Only(p)
      /\ proc'[p].step = "exit" /\ proc'[p].saved = proc[p].saved
      /\ proc'[p].origin = proc[p].origin
      /\ proc'[p].made = proc[p].made /\ proc'[p].blind = proc[p].blind /\ proc'[p].codeFixed = proc[p].codeFixed
  BY <1>0, StepFields
<1>2. /\ UNCHANGED <<node, encoded, exclusive>> /\ MainTyped'
      /\ confirmed' = IF proc[p].blind THEN {} ELSE confirmed
  BY <1>0 DEF Replace, ReplaceLedger, TypeOK, MainTyped
<1>3. name' = [ledger |-> name["tmp"], tmp |-> NoNode]
  BY DEF Replace, ReplaceLedger, Temporary
<1>4. /\ name' \in [Names -> Nodes \cup {NoNode}]
      /\ name'["ledger"] = name["tmp"] /\ name'["tmp"] = NoNode
  <2>1. name["tmp"] \in Nodes \cup {NoNode}
    BY <1>0 DEF TypeOK, Names
  <2> QED
    BY <1>3, <2>1 DEF Names
<1>5. /\ node' \in [Nodes -> Files] /\ encoded \subseteq encoded'
      /\ Exists("ledger")' /\ Bytes("ledger")' = Bytes("tmp") /\ NamesApart'
  BY <1>0, <1>2, <1>4 DEF TypeOK, Exists, Bytes, NamesApart
<1>6. NodesGenuine'
  BY <1>2 DEF IInv, FileInv, NodesGenuine
<1>7. Holds(proc[p])'
  <2>1. AllGenuine(proc'[p].saved, encoded')
    BY <1>0, <1>1, <1>2 DEF Holds
  <2> QED
    BY <1>0, <1>1, <1>2, <2>1 DEF Holds
<1>8. FileInv'
  BY <1>1, <1>2, <1>4, <1>5, <1>6, <1>7, FileKept DEF IInv
<1>9. ASSUME exclusive PROVE Kept' /\ Carries(proc[p])'
  <2>1. Carries(proc[p])
    BY <1>9 DEF IInv, OneAtATime
  <2>2. /\ Due(proc[p]) \subseteq Payload(Bytes("tmp"))
        /\ proc[p].codeFixed => proc[p].made = {}
    BY <1>0, <2>1 DEF Carries
  <2>3. Payload(Bytes("ledger"))' = Payload(Bytes("tmp"))
    BY <1>5 DEF Payload
  <2>4. Kept'
    BY <1>2, <1>5, <2>2, <2>3 DEF Kept, Due
  <2>5. Carries(proc[p])'
    BY <1>1, <1>5, <2>2, <2>3 DEF Carries, Due
  <2> QED
    BY <2>4, <2>5
<1>10. OneAtATime'
  BY <1>0, <1>1, <1>2, <1>9, OneKept DEF IsIdle
<1> QED
  BY <1>8, <1>10 DEF IInv

\* A save fails: the ledger file stays, and the exit code says so, unless it is
\* fixed and there is nothing to confirm.
LEMMA FailsKeeps ==
    ASSUME IInv, NEW p \in Processes, SaveFails(p), UNCHANGED mainVars
    PROVE  IInv'
<1>0. /\ TypeOK /\ Holds(proc[p]) /\ NamesApart /\ proc[p].step \in {"open", "write", "rename"}
  BY DEF IInv, FileInv, SaveFails
<1>1. /\ Only(p)
      /\ proc'[p].step = "exit" /\ proc'[p].saved = <<>>
      /\ proc'[p].code = IF proc[p].codeFixed THEN proc[p].code ELSE kExitUsage
      /\ proc'[p].origin = proc[p].origin
      /\ proc'[p].made = proc[p].made /\ proc'[p].blind = proc[p].blind /\ proc'[p].codeFixed = proc[p].codeFixed
  BY <1>0, FailsFields
<1>2. UNCHANGED <<node, encoded, exclusive, confirmed>> /\ MainTyped'
  BY <1>0 DEF SaveFails, mainVars, TypeOK, MainTyped
<1>3. name' = name \/ name' = [name EXCEPT !["tmp"] = NoNode]
  BY DEF SaveFails, Temporary
<1>4. /\ name' \in [Names -> Nodes \cup {NoNode}]
      /\ name'["ledger"] = name["ledger"]
      /\ name'["tmp"] = name["tmp"] \/ name'["tmp"] = NoNode
  BY <1>0, <1>3 DEF TypeOK, Names
<1>5. /\ node' \in [Nodes -> Files] /\ encoded \subseteq encoded'
      /\ Exists("ledger")' = Exists("ledger") /\ Bytes("ledger")' = Bytes("ledger")
      /\ NamesApart'
  BY <1>0, <1>2, <1>4 DEF TypeOK, Exists, Bytes, NamesApart
<1>6. NodesGenuine'
  BY <1>2 DEF IInv, FileInv, NodesGenuine
<1>7. Holds(proc[p])'
  <2>1. AllGenuine(proc'[p].saved, encoded')
    BY <1>1 DEF AllGenuine
  <2> QED
    BY <1>0, <1>1, <1>2, <2>1 DEF Holds
<1>8. FileInv'
  BY <1>1, <1>2, <1>4, <1>5, <1>6, <1>7, FileKept DEF IInv
<1>9. ASSUME exclusive PROVE Kept' /\ Carries(proc[p])'
  <2>1. Kept /\ Carries(proc[p])
    BY <1>9 DEF IInv, OneAtATime
  <2>2. proc[p].codeFixed => proc[p].made = {}
    BY <2>1 DEF Carries
  <2>3. Kept'
    BY <1>2, <1>5, <2>1 DEF Kept, Payload
  <2>4. Carries(proc[p])'
    BY <1>1, <2>2 DEF Carries
  <2> QED
    BY <2>3, <2>4
<1>10. OneAtATime'
  BY <1>0, <1>1, <1>2, <1>9, OneKept DEF IsIdle
<1> QED
  BY <1>8, <1>10 DEF IInv

-----------------------------------------------------------------------------
(* The theorems *)

\* There is no file, nothing runs and nothing is confirmed.
LEMMA InitHolds == Init => IInv
<1> SUFFICES ASSUME Init PROVE IInv
  OBVIOUS
<1>1. TypeOK
  BY IdleTyped DEF Init, TypeOK, MainTyped, Files
<1>2. NodesGenuine
  BY DEF Init, NodesGenuine, AllGenuine
<1>3. NamesApart
  BY DEF Init, NamesApart, Exists, Names
<1>4. ASSUME NEW p \in Processes PROVE Holds(proc[p]) /\ Carries(proc[p]) /\ IsIdle(p)
  <2>1. proc[p] = Idle
    BY DEF Init
  <2>2. /\ Idle.step = "idle" /\ Idle.saved = <<>> /\ Idle.origin = <<>>
        /\ Idle.made = {} /\ Idle.codeFixed = FALSE
    BY DEF Idle
  <2>3. AllGenuine(proc[p].saved, encoded)
    BY <2>1, <2>2 DEF AllGenuine
  <2> QED
    BY <2>1, <2>2, <2>3 DEF Holds, Carries, IsIdle
<1>5. Alone /\ Kept
  BY <1>4 DEF Init, Alone, Kept
<1> QED
  BY <1>1, <1>2, <1>3, <1>4, <1>5 DEF IInv, FileInv, OneAtATime

\* Every step of every process keeps the invariant.
LEMMA NextKeeps == IInv /\ [Next]_vars => IInv'
<1> SUFFICES ASSUME IInv, [Next]_vars PROVE IInv'
  OBVIOUS
<1>1. CASE UNCHANGED vars
  <2>1. UNCHANGED <<node, name, proc, encoded, exclusive, changes, invocations, confirmed>>
    BY <1>1 DEF vars, fileVars, mainVars
  <2>2. FileInv'
    BY <2>1 DEF IInv, FileInv, TypeOK, MainTyped, NodesGenuine, NamesApart, Holds, Exists
  <2>3. OneAtATime'
    BY <2>1 DEF IInv, OneAtATime, Alone, Kept, Carries, Due, Exists, Bytes, IsIdle
  <2> QED
    BY <2>2, <2>3 DEF IInv
<1>2. CASE Next
  <2>1. PICK p \in Processes :
          \/ \E e \in Epochs : Invoke(p, e)
          \/ Probe(p) \/ LoadRefused(p) \/ FileStep(p) \/ Replace(p) \/ Command(p)
          \/ EvaluateAfter(p) \/ Exit(p) \/ Crash(p)
    BY <1>2 DEF Next
  <2>2. CASE \E e \in Epochs : Invoke(p, e)
    BY <2>2, InvokeKeeps
  <2>3. CASE Probe(p) \/ LoadRefused(p) \/ Exit(p) \/ Crash(p)
    BY <2>3, ProbeKeeps, DropKeeps, ExitKeeps
  <2>4. CASE FileStep(p)
    BY <2>4, InspectKeeps, ReadKeeps, EncodeKeeps, OpenKeeps, WriteKeeps, CloseKeeps,
       FailsKeeps DEF FileStep
  <2>9. CASE Replace(p)
    BY <2>9, ReplaceKeeps
  <2>5. proc[p].code \in Nat
    BY DEF IInv, FileInv, TypeOK, Procs
  <2>6. ASSUME NEW s \in {"after", "encode"}, proc[p].step \in {"run", "after"},
               CommandEvaluate(p, s)
        PROVE  \E x \in Nat : Makes(p, s, x) \/ Proceeds(p, s, x)
    BY <2>5, <2>6 DEF CommandEvaluate, kExitOk, kExitUsage, kExitActionableDrift, kExitUndecidable
  <2>7. CASE EvaluateAfter(p)
    <3>1. proc[p].step = "after"
      BY <2>7 DEF EvaluateAfter, At
    <3>2. \E x \in Nat : Makes(p, "encode", x) \/ Proceeds(p, "encode", x)
      BY <2>5, <2>6, <2>7, <3>1 DEF EvaluateAfter
    <3> QED
      BY <3>1, <3>2, RunKeeps
  <2>8. CASE Command(p)
    <3>1. CASE Explain(p) \/ Refuse(p)
      BY <3>1, ExplainKeeps, DropKeeps
    <3>2. CASE Evaluate(p)
      <4>1. proc[p].step = "run" /\ CommandEvaluate(p, "after")
        BY <3>2 DEF Evaluate, At
      <4>2. \E x \in Nat : Makes(p, "after", x) \/ Proceeds(p, "after", x)
        BY <2>6, <4>1
      <4> QED
        BY <4>1, <4>2, RunKeeps
    <3>3. CASE \/ CommitOrObserve(p) \/ SuppressOrAcknowledge(p) \/ Query(p) \/ Timeline(p)
               \/ Report(p) \/ Stats(p) \/ Serve(p) \/ ServeChange(p) \/ ServeQuit(p)
      <4>1. proc[p].step \in {"run", "serve"} /\ kExitOk \in Nat
        BY <3>3 DEF CommitOrObserve, SuppressOrAcknowledge, Query, Timeline, Report, Stats, Serve,
                    ServeChange, ServeQuit, At, kExitOk
      <4>2. \E s \in {"serve", "after", "encode"} : Makes(p, s, kExitOk) \/ Proceeds(p, s, kExitOk)
        BY <3>3 DEF CommitOrObserve, SuppressOrAcknowledge, Query, Timeline, Report, Stats, Serve,
                    ServeChange, ServeQuit
      <4> QED
        BY <4>1, <4>2, RunKeeps
    <3> QED
      BY <2>8, <3>1, <3>2, <3>3 DEF Command
  <2> QED
    BY <2>1, <2>2, <2>3, <2>4, <2>7, <2>8, <2>9
<1> QED
  BY <1>1, <1>2

\* The invariant of the state file and of the processes that use it.
THEOREM StateFileInvariant == Spec => []IInv
  BY InitHolds, NextKeeps, PTL DEF Spec

\* However saves, loads and crashes overlap, what a process loads is a ledger
\* exactly as some process encoded it (persistence.cpp:1175-1181).
THEOREM OnlySavedIsLoaded == Spec => []LoadedWasSaved
<1>1. IInv => LoadedWasSaved
  BY DEF IInv, FileInv, Holds, LoadedWasSaved
<1> QED
  BY <1>1, StateFileInvariant, PTL

\* While invocations do not overlap, what was confirmed is in the ledger file,
\* whatever fails or crashes afterwards, until an invocation replaces a file it
\* could not open (ndo_cli.cpp:560-581).
THEOREM ConfirmedSurvives == Spec => []ConfirmedIsDurable
<1>1. InFile = Payload(Bytes("ledger"))
  BY DEF InFile, Payload
<1>2. IInv => ConfirmedIsDurable
  BY <1>1 DEF IInv, OneAtATime, Kept, ConfirmedIsDurable
<1> QED
  BY <1>2, StateFileInvariant, PTL
=============================================================================
