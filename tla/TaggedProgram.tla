--------------------------- MODULE TaggedProgram ---------------------------
(***************************************************************************)
(* A program after tag_raw_chains: every value has a tag of its own with   *)
(* one writer, and what build_dag and recompute_read_count make of it.     *)
(*                                                                         *)
(* An instruction is its kind, the tag it writes, if any, and the operands *)
(* it reads, in order; an operand that occurs twice is read twice.  An     *)
(* operand is a tag and the lane it names, or All when lane j of the       *)
(* instruction reads lane j of the tag.  Pinned operands have no tag and   *)
(* are left out.                                                           *)
(***************************************************************************)
EXTENDS Integers, Sequences, FiniteSets, SequencesExt

CONSTANTS Program,            \* sequence of instructions, in program order
          VecTag, ScalarTag,  \* the tags of the program, by shape
          VLEN                \* lanes of a vector

Tag == VecTag \cup ScalarTag
Node == DOMAIN Program
All == -1

Kind == [n \in Node |-> Program[n].kind]
Dest(n) == Program[n].dest
Reads(n) == Program[n].reads
TagsRead(n) == { Reads(n)[k].tag : k \in DOMAIN Reads(n) }

ASSUME ProgramAssumption ==
  /\ Program \in Seq([kind : STRING, dest : SUBSET Tag,
                       reads : Seq([tag : Tag, lane : {All} \cup 0 .. VLEN - 1])])
  /\ VLEN \in Nat \ {0}
  /\ VecTag \cap ScalarTag = {}
  /\ \A n \in Node : /\ \A t, u \in Dest(n) : t = u
                     /\ Kind[n] = "vec_elem" => Dest(n) \cap VecTag # {}
                     /\ Kind[n] = "debug" => Dest(n) = {}
  /\ \A m, n \in Node : m # n => Dest(m) \cap Dest(n) = {}
  /\ \A n \in Node : \A t \in TagsRead(n) : \E m \in 1 .. n - 1 : t \in Dest(m)

\* build_dag: a weight-1 edge from the writer of a tag to each reader, once.
Graph == [raw |-> { e \in Node \X Node : e[1] < e[2] /\ Dest(e[1]) \cap TagsRead(e[2]) # {} },
          war |-> {}]

\* The operands of the program: a node, and a position in its list.
Operands == UNION { {n} \X DOMAIN Reads(n) : n \in Node }
ReadersOf(t) == { o \in Operands : Reads(o[1])[o[2]].tag = t }

\* Operand occurrences that read each tag.
ReadCount == [t \in Tag |-> Cardinality(ReadersOf(t))]

-----------------------------------------------------------------------------
\* What a lane of an instruction reads and writes: the lane of a tag.
IsVector(n) == \/ Dest(n) \cap VecTag # {}
               \/ \E k \in DOMAIN Reads(n) : Reads(n)[k].lane = All
LanesOf(n) == IF IsVector(n) THEN 0 .. VLEN - 1 ELSE {0}

LaneRead(o, j) == [tag |-> o.tag,
                   lane |-> IF o.tag \in ScalarTag THEN 0
                            ELSE IF o.lane = All THEN j ELSE o.lane]
LanesRead(n, j) == { LaneRead(Reads(n)[k], j) : k \in DOMAIN Reads(n) }
LanesWritten(n, j) == { [tag |-> t, lane |-> IF t \in ScalarTag THEN 0 ELSE j] : t \in Dest(n) }
=============================================================================
