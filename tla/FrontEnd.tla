------------------------------ MODULE FrontEnd ------------------------------
(***************************************************************************)
(* From the kernel's instructions to what the schedulers are given, as     *)
(* _emit_regalloc drives it: tag_raw_chains gives every write a tag of its *)
(* own, build_dag draws an edge from the writer of a tag to its readers,   *)
(* prune_to_stores drops what no store depends on, recompute_read_count    *)
(* counts the reads that are left.                                         *)
(*                                                                         *)
(* An instruction is its engine, the symbol it writes, if any, and the     *)
(* symbols it reads, in order; a lane of a vector stands for the vector,   *)
(* as in _base().  The instruction list is chosen while it is tagged.      *)
(***************************************************************************)
EXTENDS Integers, Sequences, FiniteSets, SequencesExt, Functions

CONSTANTS Sym,          \* declared variables
          Pinned,       \* read-only symbols with a fixed address
          Instruction,  \* the instructions a program is made of
          MaxLen        \* bound: instructions in a program

\* A tag is an object of its own, numbered and named after its symbol.
Tag == [sym : Sym, n : Nat]

ASSUME InstructionAssumption ==
  /\ Sym \cap Pinned = {}
  /\ Pinned \cap Tag = {}
  /\ \A i \in Instruction : /\ i.dest \subseteq Sym
                            /\ \A s, t \in i.dest : s = t
                            /\ i.reads \in Seq(Sym \cup Pinned)
                            /\ i.engine \in {"store", "debug"} => i.dest = {}

VARIABLES
  prune,      \* parameter of build_kernel
  at,         \* which of the functions runs, or how it ended
  instrs,     \* the symbolic program so far
  current,    \* symbol -> the tag of its latest write
  readCount,  \* tag -> reads of it
  tagged,     \* the program over tags
  writer,     \* tag -> the instruction that writes it, as build_dag goes
  edges,      \* RAW edges over the instructions
  useful,     \* instructions a store depends on
  work,       \* of these, the ones whose producers are still to be marked
  kept,       \* the surviving instructions, in order
  nodes,      \* the survivors over tags: the nodes of the final graph
  nodeEdges,  \* its edges
  counted     \* survivors whose reads have been counted again

frontVars == <<prune, at, instrs, current, readCount, tagged, writer, edges, useful,
               work, kept, nodes, nodeEdges, counted>>

FrontInit == /\ prune \in BOOLEAN
             /\ at = "tag"
             /\ instrs = <<>> /\ current = <<>> /\ readCount = <<>> /\ tagged = <<>>
             /\ writer = <<>> /\ edges = {}
             /\ useful = {} /\ work = {}
             /\ kept = <<>> /\ nodes = <<>> /\ nodeEdges = {} /\ counted = 0

Extend(f, g) == [x \in DOMAIN f \cup DOMAIN g |-> IF x \in DOMAIN g THEN g[x] ELSE f[x]]
Occurrences(t, s) == Cardinality({ k \in DOMAIN s : s[k] = t })

\* An instruction's reads are counted, operand by operand.
CountReads(counts, reads) ==
  [t \in DOMAIN counts \cup (Range(reads) \ Pinned) |->
     (IF t \in DOMAIN counts THEN counts[t] ELSE 0) + Occurrences(t, reads)]

-----------------------------------------------------------------------------
\* Mutant: tags are numbered by the symbols seen, not by the tags made.
FreshRepeats(s) == [sym |-> s, n |-> Cardinality(DOMAIN current)]

\* The counter of the code is the number of tags made so far.
Fresh(s) == [sym |-> s, n |-> Cardinality(DOMAIN readCount)]

\* Mutant: the write takes its tag before the reads are resolved.
ResolveWritesFirst(i) == [k \in DOMAIN i.reads |->
  IF i.reads[k] \in Pinned THEN i.reads[k]
  ELSE IF i.reads[k] \in i.dest THEN Fresh(i.reads[k]) ELSE current[i.reads[k]]]

Resolve(i) == [k \in DOMAIN i.reads |->
  IF i.reads[k] \in Pinned THEN i.reads[k] ELSE current[i.reads[k]]]

\* One instruction of tag_raw_chains; current[b] fails on a symbol that was
\* never written, which the kernel never reads.
TagInstr(i) ==
  /\ at = "tag"
  /\ Len(instrs) < MaxLen
  /\ Range(i.reads) \ Pinned \subseteq DOMAIN current
  /\ LET reads == Resolve(i)
         made  == [s \in i.dest |-> Fresh(s)]
     IN  /\ tagged' = Append(tagged, [engine |-> i.engine, dest |-> Range(made), reads |-> reads])
         /\ current' = Extend(current, made)
         /\ readCount' = Extend(CountReads(readCount, reads), [t \in Range(made) |-> 0])
  /\ instrs' = Append(instrs, i)
  /\ UNCHANGED <<prune, at, writer, edges, useful, work, kept, nodes, nodeEdges, counted>>

TaggingDone ==
  /\ at = "tag"
  /\ instrs # <<>>
  /\ at' = "build"
  /\ UNCHANGED <<prune, instrs, current, readCount, tagged, writer, edges, useful,
                 work, kept, nodes, nodeEdges, counted>>

\* One node of build_dag; `kept` grows with the nodes that were made.
BuildNode ==
  /\ at = "build"
  /\ Len(kept) < Len(tagged)
  /\ LET n == Len(kept) + 1
     IN  /\ edges' = edges \cup { <<writer[t], n>> : t \in Range(tagged[n].reads) \cap DOMAIN writer }
         /\ writer' = Extend(writer, [t \in tagged[n].dest |-> n])
         /\ kept' = Append(kept, n)
  /\ UNCHANGED <<prune, at, instrs, current, readCount, tagged, useful, work, nodes,
                 nodeEdges, counted>>

\* The graph goes to the schedulers as it is, or is pruned; without a store
\* prune_to_stores has nothing to start from, and asserts.
GraphBuilt ==
  /\ at = "build"
  /\ Len(kept) = Len(tagged)
  /\ LET stores == { n \in DOMAIN tagged : tagged[n].engine = "store" }
     IN  IF ~prune THEN /\ at' = "allocate"
                        /\ nodes' = tagged /\ nodeEdges' = edges
                        /\ UNCHANGED <<useful, work>>
         ELSE /\ at' = IF stores = {} THEN "no_store" ELSE "walk"
              /\ useful' = stores /\ work' = stores
              /\ UNCHANGED <<nodes, nodeEdges>>
  /\ UNCHANGED <<prune, instrs, current, readCount, tagged, writer, edges, kept, counted>>

\* One turn of the backward walk.  The code pops a stack; any order will do.
WalkBack(i) ==
  /\ at = "walk"
  /\ i \in work
  /\ LET found == { e[1] : e \in { f \in edges : f[2] = i } } \ useful
     IN  useful' = useful \cup found /\ work' = (work \ {i}) \cup found
  /\ UNCHANGED <<prune, at, instrs, current, readCount, tagged, writer, edges, kept,
                 nodes, nodeEdges, counted>>

\* Mutant: every debug node survives.
KeepAllDebug == useful \cup { n \in DOMAIN tagged : tagged[n].engine = "debug" }

\* A debug node is kept iff all its producers are.
Keep == useful \cup { n \in DOMAIN tagged : /\ tagged[n].engine = "debug"
                                            /\ \A e \in edges : e[2] = n => e[1] \in useful }

\* The edges between survivors, renumbered.
CompactEdges(k) == { e \in (DOMAIN k) \X (DOMAIN k) : <<k[e[1]], k[e[2]]>> \in edges }

\* remap: the new number of a survivor is how many survive up to it.
Remap(i) == Cardinality({ j \in Keep : j <= i })

Compact ==
  /\ at = "walk"
  /\ work = {}
  /\ kept' = [k \in 1 .. Cardinality(Keep) |-> CHOOSE i \in Keep : Remap(i) = k]
  /\ nodes' = [n \in DOMAIN kept' |-> tagged[kept'[n]]]
  /\ nodeEdges' = CompactEdges(kept')
  /\ at' = "pruned"
  /\ UNCHANGED <<prune, instrs, current, readCount, tagged, writer, edges, useful, work,
                 counted>>

\* Mutant: the reads are added to the counts of the whole program.
FreshCountsStale == readCount

\* recompute_read_count starts from an empty table.
FreshCounts == <<>>

BeginRecount ==
  /\ at = "pruned"
  /\ readCount' = FreshCounts
  /\ counted' = 0
  /\ at' = "count"
  /\ UNCHANGED <<prune, instrs, current, tagged, writer, edges, useful, work, kept,
                 nodes, nodeEdges>>

\* One turn of it, and its end.
RecountNode ==
  /\ at = "count"
  /\ counted < Len(kept)
  /\ counted' = counted + 1
  /\ readCount' = CountReads(readCount, nodes[counted + 1].reads)
  /\ UNCHANGED <<prune, at, instrs, current, tagged, writer, edges, useful, work, kept,
                 nodes, nodeEdges>>

Recounted ==
  /\ at = "count"
  /\ counted = Len(kept)
  /\ at' = "allocate"
  /\ UNCHANGED <<prune, instrs, current, readCount, tagged, writer, edges, useful, work,
                 kept, nodes, nodeEdges, counted>>

FrontNext == \/ \E i \in Instruction : TagInstr(i)
             \/ TaggingDone
             \/ BuildNode
             \/ GraphBuilt
             \/ \E i \in DOMAIN tagged : WalkBack(i)
             \/ Compact
             \/ BeginRecount
             \/ RecountNode
             \/ Recounted

FrontSpec == FrontInit /\ [][FrontNext]_frontVars

-----------------------------------------------------------------------------
\* The value an operand names in the source program: the last write before it.
LastWriter(n, s) ==
  LET before == { m \in 1 .. n - 1 : s \in instrs[m].dest }
  IN  { m \in before : \A l \in before : l <= m }

Feeds(m, n) == \E s \in Range(instrs[n].reads) : m \in LastWriter(n, s)
DataFlow == { e \in (DOMAIN instrs) \X (DOMAIN instrs) : Feeds(e[1], e[2]) }

\* Everything a set of instructions depends on, through any chain of values.
Closed(T) == \A e \in DataFlow : e[2] \in T => e[1] \in T
DependsOn(S) ==
  { n \in DOMAIN instrs : \A T \in SUBSET (DOMAIN instrs) : S \subseteq T /\ Closed(T) => n \in T }

Ready == at = "allocate"

\* The graph the scheduler gets orders two surviving instructions exactly when
\* one reads, in the source program, what the other wrote: renaming, the edges
\* and the renumbering after pruning together neither lose nor invent a
\* dependency.
EdgesAreDataFlow ==
  Ready => nodeEdges = { e \in (DOMAIN nodes) \X (DOMAIN nodes) : <<kept[e[1]], kept[e[2]]>> \in DataFlow }

\* What the schedulers assume of a program: a tag has one writer, and every
\* tag that is read has a writer earlier in the list, also when nodes between
\* them were dropped.
ProgramWellTagged ==
  Ready => /\ \A m, n \in DOMAIN nodes : m # n => nodes[m].dest \cap nodes[n].dest = {}
           /\ \A n \in DOMAIN nodes : \A t \in Range(nodes[n].reads) \ Pinned :
                \E m \in 1 .. n - 1 : t \in nodes[m].dest

\* The operands of some instructions that name a tag.
ReadersOf(list, S, t) == UNION { {n} \X { k \in DOMAIN list[n].reads : list[n].reads[k] = t } : n \in S }

\* The allocator frees a register after as many reads as it was told, so the
\* count of a tag is the number of operands that will read it; and with pruning
\* no tag is written that nobody reads, whose register would never be freed.
CountsMatchReaders ==
  Ready =>
    \A n \in DOMAIN nodes : \A t \in nodes[n].dest :
      LET readers == ReadersOf(nodes, DOMAIN nodes, t)
      IN  /\ prune => readers # {}
          /\ t \in DOMAIN readCount => readCount[t] = Cardinality(readers)
          /\ readers # {} => t \in DOMAIN readCount

\* Pruning keeps what the stores depend on, and of the rest the debug checks
\* whose value is still computed; nothing else.
KeptIsNeeded ==
  Ready /\ prune =>
    LET needed == DependsOn({ n \in DOMAIN instrs : instrs[n].engine = "store" })
    IN  Range(kept) = needed \cup { n \in DOMAIN instrs :
                                      /\ instrs[n].engine = "debug"
                                      /\ \A e \in DataFlow : e[2] = n => e[1] \in needed }
=============================================================================
