----------------------------- MODULE Blockchain -----------------------------
(***************************************************************************)
(* The Blockchain object of dag.h / dag.cc: one node's block DAG with its  *)
(* GHOSTDAG colouring.  Every member function that changes the object is   *)
(* an operator from a Blockchain value to a Blockchain value; the modules  *)
(* that compose nodes keep one such value per node.                        *)
(*                                                                         *)
(* A value d is a record.  Blocks(d) is the domain of the per-block maps:  *)
(*   parents  header.parent_hashes of each accepted block                  *)
(*   past     past_[idx]: all ancestors                                    *)
(*   blue     blue_[idx]: the blue set, the block itself included          *)
(*   score    blue_score                                                   *)
(*   sparent  selected_parent (NoBlock for genesis)                        *)
(*   tips     accepted blocks without an accepted child                    *)
(*   isBlue   the accepted blocks whose is_blue flag is set                *)
(*   orphans  blocks held back for a missing parent, with their parents    *)
(*   next     next_block_id                                                *)
(* Bit sets over insertion indices are sets of block ids here, and the     *)
(* children map is the converse of parents.                                *)
(***************************************************************************)
EXTENDS Integers, FiniteSets, Sequences

CONSTANT K                              \* ghostdag_k

ASSUME KIsNat == K \in Nat

Genesis == 0                            \* block_id of the genesis block
NoBlock == -1                           \* selected_parent(-1)

Blocks(d)      == DOMAIN d.parents
HasBlock(d, b) == b \in Blocks(d)
IsOrphan(d, b) == b \in DOMAIN d.orphans

Put(f, x, v)  == [y \in DOMAIN f \cup {x} |-> IF y = x THEN v ELSE f[y]]
Without(f, x) == [y \in DOMAIN f \ {x} |-> f[y]]
Only(f, S)    == [y \in S |-> f[y]]

\* The constructor: a DAG that holds genesis alone.
EmptyBlockchain ==
  [ parents |-> [b \in {Genesis} |-> {}],
    past    |-> [b \in {Genesis} |-> {}],
    blue    |-> [b \in {Genesis} |-> {Genesis}],
    score   |-> [b \in {Genesis} |-> 1],
    sparent |-> [b \in {Genesis} |-> NoBlock],
    tips    |-> {Genesis},
    isBlue  |-> {Genesis},
    orphans |-> [b \in {} |-> {}],
    next    |-> 1 ]

-----------------------------------------------------------------------------
(* Choosing among blocks *)

Least(S) == CHOOSE x \in S : \A y \in S : x <= y

\* The block of S with the highest blue score; the lower id breaks ties.
Heaviest(S, score) ==
  CHOOSE x \in S : \A y \in S : \/ score[x] > score[y]
                                \/ score[x] = score[y] /\ x <= y

SelectTip(d) == Heaviest(d.tips, d.score)

\* A set of ids in ascending order.
Ascending(S) ==
  [i \in 1..Cardinality(S) |->
     CHOOSE x \in S : Cardinality({y \in S : y < x}) = i - 1]

-----------------------------------------------------------------------------
(* The GHOSTDAG colouring of a new block *)

(***************************************************************************)
(* Kahn's algorithm over S with a first-in first-out queue.  The blocks    *)
(* taken and the blocks still queued form one sequence: turn i takes its   *)
(* i-th element and queues, in ascending order, the blocks whose last      *)
(* outstanding parent in S was that element.                               *)
(***************************************************************************)
TopologicalSort(parents, S) ==
  LET Free(done) == {c \in S : (parents[c] \cap S) \subseteq done}
      queue[i \in 0..Cardinality(S)] ==
        IF i = 0 THEN Ascending(Free({}))
        ELSE LET q     == queue[i - 1]
                 taken == {q[j] : j \in 1..(i - 1)}
             IN  IF i > Len(q) THEN q
                 ELSE q \o Ascending(Free(taken \cup {q[i]}) \ Free(taken))
  IN  queue[Cardinality(S)]

\* The blocks of a blue set that are neither ancestors nor descendants of c.
BlueAnticone(past, blue, c) == {x \in blue : x \notin past[c] /\ c \notin past[x]}

\* Mutant of ColourInTurn: candidates are coloured against the inherited set
\* only, not against those coloured blue before them.
ColourAtOnce(past, base, candidates) ==
  base \cup {c \in {candidates[i] : i \in 1..Len(candidates)} :
               Cardinality(BlueAnticone(past, base, c)) <= K}

\* Candidates are coloured one at a time, each against the blues so far.
ColourInTurn(past, base, candidates) ==
  LET blue[i \in 0..Len(candidates)] ==
        IF i = 0 THEN base
        ELSE LET c == candidates[i]
             IN  IF Cardinality(BlueAnticone(past, blue[i - 1], c)) <= K
                   THEN blue[i - 1] \cup {c}
                   ELSE blue[i - 1]
  IN  blue[Len(candidates)]

(***************************************************************************)
(* The blue set of a new block b whose selected parent is sp.  view holds  *)
(* the recorded data of the ancestors of b and of nothing else.            *)
(***************************************************************************)
GreedyBlueSet(view, b, sp) ==
  LET mergeSet == (DOMAIN view.past \ view.past[sp]) \ {sp}
  IN  ColourInTurn(view.past, view.blue[sp],
                   TopologicalSort(view.parents, mergeSet)) \cup {b}

Colouring(view, b, ps) ==
  LET sp   == IF ps = {} THEN NoBlock ELSE Heaviest(ps, view.score)
      blue == IF ps = {} THEN {b} ELSE GreedyBlueSet(view, b, sp)
  IN  [ sparent |-> sp,
        blue    |-> blue,
        score   |-> Cardinality(DOMAIN view.past \cap blue) + 1 ]

\* Mutant of View: everything accepted so far, not only the ancestors.
ViewOfAll(d, S) ==
  [ parents |-> d.parents, past |-> d.past, blue |-> d.blue, score |-> d.score ]

View(d, S) == [ parents |-> Only(d.parents, S), past  |-> Only(d.past, S),
                blue    |-> Only(d.blue, S),    score |-> Only(d.score, S) ]

-----------------------------------------------------------------------------
(* AddBlock and ProcessOrphans *)

PastOf(d, ps) == ps \cup UNION {d.past[p] : p \in ps}

\* Mutants of NewTips: only the new block stays; no parent leaves.
TipsReset(d, b, ps) == {b}
TipsKept(d, b, ps)  == d.tips \cup {b}

\* Parents stop being tips; the new block is one.
NewTips(d, b, ps) == (d.tips \ ps) \cup {b}

\* Mutant of NewBlue: the selected parent's set is extended in place.
BlueInPlace(d, b, c) == [Put(d.blue, b, c.blue) EXCEPT ![c.sparent] = c.blue]

NewBlue(d, b, c) == Put(d.blue, b, c.blue)

\* The part of AddBlock behind the orphan check, all parents being accepted,
\* up to the flags.
Record(d, b, ps) ==
  LET past == PastOf(d, ps)
      c    == Colouring(View(d, past), b, ps)
  IN  [ parents |-> Put(d.parents, b, ps),
        past    |-> Put(d.past, b, past),
        blue    |-> NewBlue(d, b, c),
        score   |-> Put(d.score, b, c.score),
        sparent |-> Put(d.sparent, b, c.sparent),
        tips    |-> NewTips(d, b, ps),
        isBlue  |-> d.isBlue,
        orphans |-> d.orphans,
        next    |-> d.next ]

\* Mutant of Reflag: only the tips' flags are evaluated again.
ReflagTips(d) ==
  [d EXCEPT !.isBlue = (@ \ d.tips) \cup (d.blue[SelectTip(d)] \cap d.tips)]

\* is_blue of every accepted block: is it in the selected tip's blue set?
Reflag(d) == [d EXCEPT !.isBlue = d.blue[SelectTip(d)] \cap Blocks(d)]

Insert(d, b, ps) == Reflag(Record(d, b, ps))

\* Mutant of ReadyOrphans: a parent counts only while it is a tip.
ReadyOnTips(d) == {o \in DOMAIN d.orphans : d.orphans[o] \subseteq d.tips}

ReadyOrphans(d) == {o \in DOMAIN d.orphans : d.orphans[o] \subseteq Blocks(d)}

Adopt(d, o) == Insert([d EXCEPT !.orphans = Without(@, o)], o, d.orphans[o])

\* Mutant of ProcessOrphans: one orphan, no further round.
AdoptOne(d) ==
  IF ReadyOrphans(d) = {} THEN d ELSE Adopt(d, Least(ReadyOrphans(d)))

(***************************************************************************)
(* The code calls AddBlock on the ready orphans in ascending order, and    *)
(* each of these calls ends in a ProcessOrphans of its own, which leaves   *)
(* no ready orphan behind.  Unfolded, the recursion adopts the lowest      *)
(* ready orphan until none is ready, one orphan fewer at every turn.       *)
(***************************************************************************)
ProcessOrphans(d) ==
  LET after[i \in Nat] ==
        IF i = 0 THEN d
        ELSE LET e == after[i - 1]
             IN  IF ReadyOrphans(e) = {} THEN e
                 ELSE Adopt(e, Least(ReadyOrphans(e)))
  IN  after[Cardinality(DOMAIN d.orphans)]

AddBlock(d, b, ps) ==
  IF ps \subseteq Blocks(d)
    THEN ProcessOrphans(Insert(d, b, ps))
    ELSE [d EXCEPT !.orphans = Put(@, b, ps)]

\* Two different blocks, neither of which is an ancestor of the other.
Unrelated(past, x, y) == x # y /\ x \notin past[y] /\ y \notin past[x]

\* No more than K + 1 blocks of S are pairwise unrelated.
Narrow(past, S) ==
  \A A \in SUBSET S :
    (\A x, y \in A : x = y \/ Unrelated(past, x, y)) => Cardinality(A) <= K + 1

\* The blocks of d that are blue and were not in the snapshot taken before.
NewlyBlue(d, wasBlue) == d.isBlue \ wasBlue
=============================================================================
