------------------------------- MODULE RbTree -------------------------------
(***************************************************************************)
(* The red-black tree of lib/librbtree, in which the kernel keeps its      *)
(* tasks by tid.  tree is the memory the code writes: the root pointer and *)
(* the four fields of each node.  The code's left and right variants are   *)
(* one definition with the side as a parameter.  Each iteration of the two *)
(* recolouring loops is an action, so that their loop invariants can be    *)
(* checked.                                                                *)
(***************************************************************************)
EXTENDS Naturals, Sequences, FiniteSets

CONSTANTS
  NNodes,    \* nodes are 1..NNodes
  NKeys      \* and node n has key n % NKeys: two nodes may share one

ASSUME RbAssumption == NNodes \in Nat /\ NKeys \in Nat \ {0}

VARIABLES
  tree,      \* [root, kid, par, col]
  fix        \* the loop that is running: [loop, node, parent]

rbvars == <<tree, fix>>

NULL == 0
RbNodes == 1..NNodes
RbKey(n) == n % NKeys
L == 1
R == 2
Opp(s) == 3 - s
Idle == [loop |-> "none", node |-> NULL, parent |-> NULL]

RbInit ==
  /\ tree = [root |-> NULL, kid |-> [n \in RbNodes |-> <<NULL, NULL>>],
             par |-> [n \in RbNodes |-> n], col |-> [n \in RbNodes |-> "red"]]
  /\ fix = Idle

-----------------------------------------------------------------------------
(* Reading the tree                                                        *)

IsRed(t, n) == n # NULL /\ t.col[n] = "red"

\* The end of the walk from n that keeps to side s.
Deepest(t, n, s) ==
  LET go[m \in RbNodes] == IF t.kid[m][s] = NULL THEN m ELSE go[t.kid[m][s]]
  IN  IF n = NULL THEN NULL ELSE go[n]

rb_first(t) == Deepest(t, t.root, L)

rb_last(t) == Deepest(t, t.root, R)

\* The neighbour of n on side s: down to the far end of the subtree there, or
\* up to the first ancestor that has n on its other side.
Step(t, n, s) ==
  LET up[m \in RbNodes] ==
        IF t.par[m] # NULL /\ m = t.kid[t.par[m]][s] THEN up[t.par[m]] ELSE t.par[m]
  IN  IF t.kid[n][s] # NULL THEN Deepest(t, t.kid[n][s], Opp(s)) ELSE up[n]

rb_next(t, n) == IF t.par[n] = n THEN NULL ELSE Step(t, n, R)

rb_prev(t, n) == IF t.par[n] = n THEN NULL ELSE Step(t, n, L)

rb_left_deepest_node(t, n) ==
  LET go[m \in RbNodes] ==
        IF t.kid[m][L] # NULL THEN go[t.kid[m][L]]
        ELSE IF t.kid[m][R] # NULL THEN go[t.kid[m][R]] ELSE m
  IN  go[n]

rb_first_postorder(t) ==
  IF t.root = NULL THEN NULL ELSE rb_left_deepest_node(t, t.root)

rb_next_postorder(t, n) ==
  LET p == t.par[n]
  IN  IF p # NULL /\ n = t.kid[p][L] /\ t.kid[p][R] # NULL
        THEN rb_left_deepest_node(t, t.kid[p][R])
        ELSE p

\* Mutant of Descend: an equal key goes right, as in rb_add.
MutDescend(t, k) ==
  LET go[m \in RbNodes] ==
        LET s == IF k < RbKey(m) THEN L ELSE R
        IN  IF t.kid[m][s] = NULL THEN <<m, s>> ELSE go[t.kid[m][s]]
  IN  IF t.root = NULL THEN <<NULL, 0>> ELSE go[t.root]

\* The descent of rb_find, rb_find_add and rb_add: the node it ends at and
\* the side of that node it would go on to (0 when the key is found there).
Descend(t, k) ==
  LET go[m \in RbNodes] ==
        LET s == IF k < RbKey(m) THEN L ELSE R
        IN  IF k = RbKey(m) THEN <<m, 0>>
            ELSE IF t.kid[m][s] = NULL THEN <<m, s>> ELSE go[t.kid[m][s]]
  IN  IF t.root = NULL THEN <<NULL, 0>> ELSE go[t.root]

rb_find(t, k) == LET d == Descend(t, k) IN IF d[2] = 0 THEN d[1] ELSE NULL

-----------------------------------------------------------------------------
(* Writing it: each operator returns the memory after the stores           *)

SetKid(t, n, s, m) == [t EXCEPT !.kid[n][s] = m]

\* rb_set_parent_color, and rb_set_parent where the colour stays; the code's
\* "if (tmp)" before them is the test for NULL.
SetParCol(t, n, p, c) ==
  IF n = NULL THEN t ELSE [t EXCEPT !.par[n] = p, !.col[n] = c]

SetPar(t, n, p) == IF n = NULL THEN t ELSE [t EXCEPT !.par[n] = p]

\* __rb_change_child
ChangeChild(t, old, new, p) ==
  IF p = NULL THEN [t EXCEPT !.root = new]
  ELSE SetKid(t, p, IF t.kid[p][L] = old THEN L ELSE R, new)

\* __rb_rotate_set_parents
RotateSetParents(t, old, new, c) ==
  LET p == t.par[old]
  IN  ChangeChild(SetParCol(SetParCol(t, new, p, t.col[old]), old, new, c), old, new, p)

\* The stores of a rotation at p that brings up its child on side s: the
\* child's inner subtree goes to p and p becomes the child's.
Lift(t, p, s) ==
  LET c == t.kid[p][s]
  IN  SetKid(SetKid(t, p, s, t.kid[c][Opp(s)]), c, Opp(s), p)

\* The side of p that n is on, as both loops tell it.
SideOf(t, n, p) == IF n # t.kid[p][R] THEN L ELSE R

-----------------------------------------------------------------------------
(* Insertion: rb_link_node and the iterations of __rb_insert               *)

\* rb_find_add: nothing is inserted when the key is there.
rb_find_add(n) ==
  LET d == Descend(tree, RbKey(n))
      linked == [tree EXCEPT !.par[n] = d[1], !.col[n] = "red",
                             !.kid[n] = <<NULL, NULL>>]
  IN  /\ fix = Idle /\ tree.par[n] = n
      /\ d[1] = NULL \/ d[2] # 0
      /\ tree' = IF d[1] = NULL THEN [linked EXCEPT !.root = n]
                 ELSE SetKid(linked, d[1], d[2], n)
      /\ fix' = [loop |-> "insert", node |-> n, parent |-> d[1]]

\* The node is the root, or its parent is black.
InsertDone ==
  /\ fix.loop = "insert"
  /\ ~IsRed(tree, fix.parent)
  /\ tree' = IF fix.parent = NULL THEN SetParCol(tree, fix.node, NULL, "black") ELSE tree
  /\ fix' = Idle

Uncle ==
  LET g == tree.par[fix.parent] IN tree.kid[g][Opp(SideOf(tree, fix.parent, g))]

\* Case 1: colour flips, and on from the grandparent.
InsertFlip ==
  LET p == fix.parent
      g == tree.par[p]
  IN  /\ fix.loop = "insert" /\ IsRed(tree, p) /\ IsRed(tree, Uncle)
      /\ tree' = SetParCol(SetParCol(SetParCol(tree, Uncle, g, "black"), p, g, "black"),
                           g, tree.par[g], "red")
      /\ fix' = [fix EXCEPT !.node = g, !.parent = tree.par[g]]

\* Case 2, when the node is on the inner side: it is lifted over its parent.
Case2(t, n, p, s) ==
  IF n # t.kid[p][Opp(s)] THEN t
  ELSE SetParCol(SetParCol(Lift(t, p, Opp(s)), t.kid[n][s], p, "black"), p, n, "red")

\* Case 3: the grandparent is rotated and the loop ends.
InsertRotate ==
  LET p == fix.parent
      g == tree.par[p]
      s == SideOf(tree, p, g)
      t == Case2(tree, fix.node, p, s)
      top == IF fix.node = tree.kid[p][Opp(s)] THEN fix.node ELSE p
      tmp == t.kid[top][Opp(s)]
      \* WRITE_ONCE(gparent->side, tmp); WRITE_ONCE(parent->other, gparent)
      lifted == SetKid(SetKid(t, g, s, tmp), top, Opp(s), g)
  IN  /\ fix.loop = "insert" /\ IsRed(tree, p) /\ ~IsRed(tree, Uncle)
      /\ tree' = RotateSetParents(SetParCol(lifted, tmp, g, "black"), g, top, "red")
      /\ fix' = Idle

-----------------------------------------------------------------------------
(* Removal: __rb_erase_augmented and the iterations of ____rb_erase_color  *)

\* Cases 2 and 3: the successor takes the place and the colour of the node.
EraseTwoKids(t, n) ==
  LET child == t.kid[n][R]
      succ == Deepest(t, child, L)
      child2 == t.kid[succ][R]
      parent == IF succ = child THEN succ ELSE t.par[succ]
      freed == IF succ = child THEN t
               ELSE SetPar(SetKid(SetKid(t, parent, L, child2), succ, R, child), child, succ)
      under == SetPar(SetKid(freed, succ, L, t.kid[n][L]), t.kid[n][L], succ)
      hung == SetParCol(ChangeChild(under, n, succ, t.par[n]), child2, parent, "black")
  IN  [tree |-> SetParCol(hung, succ, t.par[n], t.col[n]),
       rebalance |-> IF child2 # NULL \/ hung.col[succ] = "red" THEN NULL ELSE parent]

\* Case 1: at most one child, which takes the node's parent and colour.
EraseOneKid(t, n) ==
  LET child == IF t.kid[n][L] = NULL THEN t.kid[n][R] ELSE t.kid[n][L]
  IN  [tree |-> SetParCol(ChangeChild(t, n, child, t.par[n]), child, t.par[n], t.col[n]),
       rebalance |-> IF child # NULL \/ t.col[n] = "red" THEN NULL ELSE t.par[n]]

\* The fields of a node outside the tree are not read: rb_link_node and
\* rb_replace_node write them all.  They are kept as RB_CLEAR_NODE leaves them.
Forget(t, n) == [t EXCEPT !.par[n] = n, !.col[n] = "red", !.kid[n] = <<NULL, NULL>>]

\* rb_erase
rb_erase(n) ==
  LET e == IF tree.kid[n][L] # NULL /\ tree.kid[n][R] # NULL
             THEN EraseTwoKids(tree, n) ELSE EraseOneKid(tree, n)
  IN  /\ fix = Idle /\ tree.par[n] # n
      /\ tree' = Forget(e.tree, n)
      /\ fix' = IF e.rebalance = NULL THEN Idle
                ELSE [loop |-> "erase", node |-> NULL, parent |-> e.rebalance]

\* Mutant of SiblingBlack: the old parent keeps its colour.
MutSiblingBlack(t, p, s) ==
  LET sib == t.kid[p][Opp(s)]
  IN  IF ~IsRed(t, sib) THEN t
      ELSE RotateSetParents(SetParCol(Lift(t, p, Opp(s)), t.kid[sib][s], p, "black"),
                            p, sib, t.col[p])

\* Case 1: a red sibling is lifted over the parent; the new one is black.
SiblingBlack(t, p, s) ==
  LET sib == t.kid[p][Opp(s)]
  IN  IF ~IsRed(t, sib) THEN t
      ELSE RotateSetParents(SetParCol(Lift(t, p, Opp(s)), t.kid[sib][s], p, "black"),
                            p, sib, "red")

\* Case 2: both nephews black, so the sibling turns red; the loop ends at a
\* red parent, which turns black, or at the root, and else goes on above.
EraseFlip ==
  LET p == fix.parent
      s == SideOf(tree, fix.node, p)
      t == SiblingBlack(tree, p, s)
      sib == t.kid[p][Opp(s)]
      red == SetParCol(t, sib, p, "red")
  IN  /\ fix.loop = "erase"
      /\ ~IsRed(t, t.kid[sib][L]) /\ ~IsRed(t, t.kid[sib][R])
      /\ IF IsRed(red, p)
           THEN tree' = [red EXCEPT !.col[p] = "black"] /\ fix' = Idle
           ELSE /\ tree' = red
                /\ fix' = IF red.par[p] = NULL THEN Idle
                          ELSE [fix EXCEPT !.node = p, !.parent = red.par[p]]

\* Case 3: only the inner nephew is red, and is lifted over the sibling.
NephewOut(t, p, s) ==
  LET sib == t.kid[p][Opp(s)]
      inner == t.kid[sib][s]
  IN  IF IsRed(t, t.kid[sib][Opp(s)]) THEN t
      ELSE SetKid(SetParCol(Lift(t, sib, s), t.kid[inner][Opp(s)], sib, "black"),
                  p, Opp(s), inner)

\* Case 4: the sibling is lifted over the parent and takes its colour.
EraseRotate ==
  LET p == fix.parent
      s == SideOf(tree, fix.node, p)
      t1 == SiblingBlack(tree, p, s)
      old == t1.kid[p][Opp(s)]
      t == NephewOut(t1, p, s)
      sib == t.kid[p][Opp(s)]
      far == t.kid[sib][Opp(s)]
  IN  /\ fix.loop = "erase"
      /\ IsRed(t1, t1.kid[old][L]) \/ IsRed(t1, t1.kid[old][R])
      /\ tree' = RotateSetParents(
                   SetPar(SetParCol(Lift(t, p, Opp(s)), far, sib, "black"), t.kid[sib][s], p),
                   p, sib, "black")
      /\ fix' = Idle

\* rb_replace_node: new takes over the fields of victim, its children and
\* its place under its parent.
rb_replace_node(victim, new) ==
  LET p == tree.par[victim]
      copied == [tree EXCEPT !.par[new] = p, !.col[new] = tree.col[victim],
                             !.kid[new] = tree.kid[victim]]
      t == SetPar(SetPar(copied, tree.kid[victim][L], new), tree.kid[victim][R], new)
  IN  /\ fix = Idle
      /\ p # victim /\ tree.par[new] = new /\ RbKey(new) = RbKey(victim)
      /\ tree' = Forget(ChangeChild(t, victim, new, p), victim)
      /\ UNCHANGED fix

RbLoop == InsertDone \/ InsertFlip \/ InsertRotate \/ EraseFlip \/ EraseRotate

RbNext ==
  \/ RbLoop
  \/ \E n \in RbNodes : rb_find_add(n) \/ rb_erase(n)
  \/ \E n, m \in RbNodes : rb_replace_node(n, m)

RbSpec == RbInit /\ [][RbNext]_rbvars

-----------------------------------------------------------------------------
\* The nodes the pointers reach.
Members(t) ==
  LET below[n \in 0..NNodes] ==
        IF n = NULL THEN {} ELSE {n} \cup below[t.kid[n][L]] \cup below[t.kid[n][R]]
  IN  below[t.root]

\* The black nodes on every way from n down to a NULL, counting the NULL; 0
\* when two ways differ.
BlackHeight(t) ==
  LET bh[n \in 0..NNodes] ==
        IF n = NULL THEN 1
        ELSE LET l == bh[t.kid[n][L]]
                 r == bh[t.kid[n][R]]
             IN  IF l = 0 \/ l # r THEN 0
                 ELSE IF t.col[n] = "black" THEN l + 1 ELSE l
  IN  bh

\* The three walks a caller can make.
Walk(t) ==
  LET from[n \in 0..NNodes] == IF n = NULL THEN <<>> ELSE <<n>> \o from[rb_next(t, n)]
  IN  from[rb_first(t)]

BackWalk(t) ==
  LET from[n \in 0..NNodes] == IF n = NULL THEN <<>> ELSE <<n>> \o from[rb_prev(t, n)]
  IN  from[rb_last(t)]

PostWalk(t) ==
  LET from[n \in 0..NNodes] ==
        IF n = NULL THEN <<>> ELSE <<n>> \o from[rb_next_postorder(t, n)]
  IN  from[rb_first_postorder(t)]

\* Whenever no loop is running the five properties at the top of rbtree.c
\* hold: black root, no red child of a red node, and one black height.
RedBlack ==
  fix = Idle =>
    /\ ~IsRed(tree, tree.root)
    /\ \A n \in Members(tree), s \in {L, R} : ~(IsRed(tree, n) /\ IsRed(tree, tree.kid[n][s]))
    /\ tree.root # NULL => BlackHeight(tree)[tree.root] # 0

\* The loop invariants the comments of both loops state: in __rb_insert node
\* is red and only its link to its parent may break the rules; in
\* ____rb_erase_color node's side of parent is one black node short of the
\* other, and putting that one back would make the tree balanced.
LoopInvariants ==
  /\ fix.loop = "insert" =>
       /\ IsRed(tree, fix.node) /\ tree.par[fix.node] = fix.parent
       /\ BlackHeight(tree)[tree.root] # 0
       /\ \A n \in Members(tree), s \in {L, R} :
            IsRed(tree, n) /\ IsRed(tree, tree.kid[n][s]) =>
              n = fix.parent /\ tree.kid[n][s] = fix.node
  /\ fix.loop = "erase" =>
       LET s == SideOf(tree, fix.node, fix.parent)
           bh == BlackHeight(tree)
       IN  /\ ~IsRed(tree, fix.node) /\ tree.kid[fix.parent][s] = fix.node
           /\ bh[fix.node] # 0
           /\ bh[tree.kid[fix.parent][Opp(s)]] = bh[fix.node] + 1

\* The walks visit every node once: rb_next upwards in key order, rb_prev the
\* same downwards, and the postorder walk no node before its children.
WalksVisitAll ==
  fix = Idle =>
    LET w == Walk(tree)
        b == BackWalk(tree)
        o == PostWalk(tree)
        M == Members(tree)
        N == Cardinality(M)
    IN  /\ Len(w) = N /\ Len(b) = N /\ Len(o) = N
        /\ \A i \in 1..N : b[i] = w[N + 1 - i] /\ w[i] \in M
        /\ \A i \in 2..N : RbKey(w[i - 1]) < RbKey(w[i])
        /\ \A i, j \in 1..N : tree.par[o[i]] = o[j] => i < j

\* rb_find finds a key exactly when a node of the tree has it.
FindIsLookup ==
  LET M == Members(tree)
  IN  \A k \in 0..NKeys - 1 :
    LET at == {n \in M : RbKey(n) = k}
    IN  rb_find(tree, k) = IF at = {} THEN NULL ELSE CHOOSE n \in at : TRUE

\* The tree in every reachable state: its balance, the loops' invariants, and what
\* walks and lookups see of it.
TreeSound == RedBlack /\ LoopInvariants /\ WalksVisitAll /\ FindIsLookup

\* The nodes from n up to the root.
Depth(t, n) ==
  LET up[m \in 0..NNodes] == IF m = NULL THEN 0 ELSE 1 + up[t.par[m]] IN up[n]

\* No iteration of a recolouring loop loses a node, and the loops end: one that
\* goes on has climbed towards the root.
LoopsClimb ==
  [][fix # Idle =>
       /\ Members(tree') = Members(tree)
       /\ fix' # Idle => Depth(tree', fix'.parent) < Depth(tree, fix.parent)]_rbvars

SetOfNodes == INSTANCE OrderedSet WITH Nodes <- RbNodes, KeyOf <- RbKey,
                                       members <- Members(tree)

\* The tree is a set of nodes with distinct keys: the rotations neither lose
\* nor double a task, lookups see each change at once, and rebalancing ends.
ImplementsOrderedSet == SetOfNodes!Spec /\ LoopsClimb
=============================================================================
