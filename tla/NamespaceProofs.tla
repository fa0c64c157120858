-------------------------- MODULE NamespaceProofs --------------------------
(* Theorems about Namespace, for every number of inodes and blocks, every    *)
(* set of names and every layout of the carriers.                           *)
EXTENDS Namespace, SequenceTheorems, FiniteSetTheorems, WellFoundedInduction, TLAPS

-----------------------------------------------------------------------------
(* The least of a set of numbers                                           *)

\* A set of natural numbers has a least one.
LEMMA LeastExists ==
    ASSUME NEW S \in SUBSET Nat, S # {}
    PROVE  \E x \in S : \A y \in S : x <= y
<1> DEFINE R == {ss \in Nat \X Nat : ss[1] < ss[2]}
<1>1. IsWellFoundedOn(R, Nat)
  BY NatLessThanWellFounded DEF OpToRel
<1> HIDE DEF R
<1>2. PICK x \in S : \A y \in S : ~ (<<y, x>> \in R)
  BY <1>1, WFMin
<1>3. \A y \in S : ~ (y < x)
  BY <1>2 DEF R
<1> QED
  BY <1>3

\* The allocators take the least free number.
LEMMA MinIsLeast ==
    ASSUME NEW S \in SUBSET Nat, S # {}
    PROVE  Min(S) \in S /\ \A y \in S : Min(S) <= y
  BY LeastExists DEF Min

-----------------------------------------------------------------------------
(* The inductive invariant                                                  *)

\* The changes that a plan is made of.
Op == [do : {"file", "drop", "free", "more", "less"}, ino : Inos]
        \cup [do : {"dir", "dotdot"}, ino : Inos, parent : Inos]
        \cup [do : {"link"}, dir : Inos, name : Names, ino : Inos]
        \cup [do : {"remove"}, dir : Inos, name : Names]
        \cup [do : {"flush"}, carrier : Nat]

\* The inodes, directories and entries of a table of inodes ns and blocks bs.
LiveIn(ns) == {i \in Inos : ns[i].kind # "free"}
DirsIn(ns) == {i \in Inos : ns[i].kind = "dir"}
Entry      == [dir : Inos, block : Blocks, name : Names, ino : Inos]
EntriesIn(ns, bs) ==
    {e \in Entry : /\ e.dir \in DirsIn(ns) /\ e.block \in ToSet(ns[e.dir].blocks)
                   /\ bs[e.block].names[e.name] = e.ino}

\* Blocks of inodes in use are marked, and are of one inode.
Agree(ns, marked) ==
    \A i \in LiveIn(ns) :
        /\ ToSet(ns[i].blocks) \subseteq marked
        /\ \A j \in LiveIn(ns) \ {i} : ToSet(ns[i].blocks) \cap ToSet(ns[j].blocks) = {}

\* The entry is the one that a change is about.
Of(e, op) == e.dir = op.dir /\ e.name = op.name

\* A tree, in which exactly the inodes in `unnamed` have no name.
Tree(es, live, unnamed) ==
    /\ \A e, f \in es : e.ino = f.ino => e = f
    /\ unnamed \subseteq live \ {Root}
    /\ \A i \in live \ {Root} : i \in unnamed <=> \A e \in es : e.ino # i

Makes(op)   == op.do \in {"file", "dir"}
Unlinks(op) == op.do \in {"drop", "free"}
Quiet(op)   == op.do \in {"more", "less", "dotdot", "flush"}
Follows(t, k, op) == k + 1 \in DOMAIN t /\ t[k + 1].do = op

\* The inode that has no name yet, or none any more, in the middle of a plan; and
\* the name that a renamed inode is about to lose.
Loose(t) ==
    IF t # <<>> /\ (Unlinks(t[1]) \/ (t[1].do = "link" /\ ~Follows(t, 1, "remove"))) THEN {t[1].ino} ELSE {}
Leaving(es, t) ==
    IF t # <<>> /\ t[1].do = "remove" /\ ~(2 \in DOMAIN t /\ Unlinks(t[2])) THEN {e \in es : Of(e, t[1])} ELSE {}

\* What the rest of a plan relies on: an inode is made first, and then named;
MakesOK(live, t) ==
    \A k \in DOMAIN t : Makes(t[k]) =>
        /\ k = 1 /\ t[1].ino \notin live
        /\ Follows(t, 1, "link") /\ t[2].ino = t[1].ino /\ ~Follows(t, 2, "remove")

\* an inode is freed right after its name was removed, and names nothing;
UnlinksOK(es, live, orph, t) ==
    \A k \in DOMAIN t : Unlinks(t[k]) =>
        /\ t[k].ino \in live \ ({Root} \cup orph)
        /\ \A e \in es : e.dir # t[k].ino
        /\ k = 1 \/ (k = 2 /\ t[1].do = "remove" /\ \E e \in es : Of(e, t[1]) /\ e.ino = t[2].ino)

\* a name that is removed is there, and is the first change or the old name
\* of what was given another one just before;
RemovesOK(es, t) ==
    \A k \in DOMAIN t : t[k].do = "remove" =>
        /\ \E e \in es : Of(e, t[k]) /\ (k # 1 => e.ino = t[k - 1].ino)
        /\ k # 1 => t[k - 1].do = "link" /\ <<t[k].dir, t[k].name>> # <<t[k - 1].dir, t[k - 1].name>>

\* and a name is added once, where it is not yet or is removed first, to a
\* directory and for an inode that stay.
LinksOK(es, dirs, orph, t) ==
    \A k \in DOMAIN t : t[k].do = "link" =>
        /\ t[k].dir \in dirs /\ t[k].ino \notin orph
        /\ \A e \in es : Of(e, t[k]) => k # 1 /\ t[1].do = "remove" /\ Of(e, t[1])
        /\ t[1].do = "remove" => 2 \in DOMAIN t /\ Unlinks(t[2])
        /\ \A j \in DOMAIN t : Unlinks(t[j]) => t[j].ino # t[k].dir /\ t[j].ino # t[k].ino
        /\ \A j \in DOMAIN t : t[j].do = "link" => j = k
        /\ k = 1 \/ Follows(t, k, "remove") \/ Makes(t[1])

PlanOK(es, live, dirs, orph, t) ==
    MakesOK(live, t) /\ UnlinksOK(es, live, orph, t) /\ RemovesOK(es, t) /\ LinksOK(es, dirs, orph, t)

\* The tree in the middle of a plan.
InTree(es, live, dirs, orph, t) ==
    /\ Root \in dirs /\ dirs \subseteq live
    /\ \A e \in es : e.dir \in dirs /\ e.ino \in live \ {Root}
    /\ \A e, f \in es : Of(e, f) => e = f
    /\ Tree(es \ Leaving(es, t), live, orph \cup Loose(t))
    /\ PlanOK(es, live, dirs, orph, t)

MemoryInTree(t) == InTree(EntriesIn(inode, data), LiveIn(inode), DirsIn(inode), orphans, t)
DiskInTree ==
    InTree(EntriesIn(disk.inode, disk.data), LiveIn(disk.inode), DirsIn(disk.inode), disk.orphans, <<>>)

NamespaceInv ==
    /\ TypeOK /\ todo \in Seq(Op)
    /\ todo # <<>> => ~torn
    /\ ~torn \/ home.table = home.bitmap => Agree(inode, bitmap)
    /\ whole \/ home.table = home.bitmap => Agree(disk.inode, disk.bitmap)
    /\ ~torn => MemoryInTree(todo)
    /\ whole => DiskInTree

-----------------------------------------------------------------------------
(* How each change keeps the tree                                           *)

\* u is t without its first change.
Rest(u, t) ==
    /\ t # <<>> /\ 1 \in DOMAIN t
    /\ DOMAIN u \subseteq DOMAIN t
    /\ \A k \in DOMAIN u : k + 1 \in DOMAIN t /\ u[k] = t[k + 1]
    /\ \A k \in DOMAIN t : k \in Nat \ {0} /\ (k # 1 => k - 1 \in DOMAIN u)
    /\ u # <<>> => 1 \in DOMAIN u

\* The plan without its first change.
LEMMA RestIs ==
    ASSUME NEW S, NEW t \in Seq(S), t # <<>>
    PROVE  Rest(Tail(t), t) /\ Tail(t) \in Seq(S) /\ Head(t) = t[1] /\ t[1] \in S
<1>1. /\ Len(t) \in Nat \ {0} /\ DOMAIN t = 1..Len(t) /\ Head(t) = t[1] /\ t[1] \in S
      /\ Tail(t) \in Seq(S) /\ Len(Tail(t)) = Len(t) - 1 /\ DOMAIN Tail(t) = 1..Len(t) - 1
      /\ \A k \in 1..Len(t) - 1 : Tail(t)[k] = t[k + 1]
  OBVIOUS
<1>2. Tail(t) # <<>> => Len(t) - 1 # 0
  BY <1>1
<1> QED
  BY <1>1, <1>2 DEF Rest

\* What the plan says of the changes after the first.
LEMMA PlanRest ==
    ASSUME NEW es, NEW live, NEW dirs, NEW orph, NEW t, NEW u,
           PlanOK(es, live, dirs, orph, t), Rest(u, t)
    PROVE  /\ \A k \in DOMAIN u : ~Makes(u[k])
           /\ \A k \in DOMAIN u : Unlinks(u[k]) =>
                 /\ k = 1 /\ t[1].do = "remove" /\ u[k].ino \in live \ ({Root} \cup orph)
                 /\ \A e \in es : e.dir # u[k].ino
                 /\ \E e \in es : Of(e, t[1]) /\ e.ino = u[k].ino
           /\ \A k \in DOMAIN u : u[k].do = "remove" =>
                 /\ \E e \in es : Of(e, u[k]) /\ e.ino = t[k].ino
                 /\ k \in DOMAIN t /\ t[k].do = "link" /\ (k # 1 => u[k - 1] = t[k])
                 /\ <<u[k].dir, u[k].name>> # <<t[k].dir, t[k].name>>
           /\ \A k \in DOMAIN u : u[k].do = "link" =>
                 /\ u[k].dir \in dirs /\ u[k].ino \notin orph /\ t[1].do # "link"
                 /\ \A e \in es : Of(e, u[k]) => t[1].do = "remove" /\ Of(e, t[1])
                 /\ t[1].do = "remove" => 1 \in DOMAIN u /\ Unlinks(u[1])
                 /\ Unlinks(t[1]) => t[1].ino # u[k].dir /\ t[1].ino # u[k].ino
                 /\ \A j \in DOMAIN u : Unlinks(u[j]) => u[j].ino # u[k].dir /\ u[j].ino # u[k].ino
                 /\ \A j \in DOMAIN u : u[j].do = "link" => j = k
                 /\ Follows(u, k, "remove") \/ Makes(t[1])
<1>1. MakesOK(live, t) /\ UnlinksOK(es, live, orph, t) /\ RemovesOK(es, t) /\ LinksOK(es, dirs, orph, t)
  BY DEF PlanOK
<1>2. \A k \in DOMAIN u : k + 1 \in DOMAIN t /\ k + 1 # 1 /\ u[k] = t[k + 1] /\ k \in Nat /\ (k + 1) - 1 = k
  BY DEF Rest
<1>3. \A k \in DOMAIN u : ~Makes(u[k])
  BY <1>1, <1>2 DEF MakesOK
<1>4. ASSUME NEW k \in DOMAIN u, Unlinks(u[k])
      PROVE  /\ k = 1 /\ t[1].do = "remove" /\ u[k].ino \in live \ ({Root} \cup orph)
             /\ \A e \in es : e.dir # u[k].ino
             /\ \E e \in es : Of(e, t[1]) /\ e.ino = u[k].ino
  <2>1. k + 1 = 2 => k = 1
    BY <1>2
  <2> QED
    BY <1>1, <1>2, <1>4, <2>1 DEF UnlinksOK
<1>5. ASSUME NEW k \in DOMAIN u, u[k].do = "remove"
      PROVE  /\ \E e \in es : Of(e, u[k]) /\ e.ino = t[k].ino
             /\ k \in DOMAIN t /\ t[k].do = "link" /\ (k # 1 => u[k - 1] = t[k])
             /\ <<u[k].dir, u[k].name>> # <<t[k].dir, t[k].name>>
  <2>1. k + 1 \in DOMAIN t /\ k + 1 # 1 /\ u[k] = t[k + 1] /\ (k + 1) - 1 = k /\ k \in DOMAIN t
    BY <1>2 DEF Rest
  <2>2. k # 1 => u[k - 1] = t[k]
    BY <2>1 DEF Rest
  <2> QED
    BY <1>1, <1>5, <2>1, <2>2 DEF RemovesOK
<1>6. ASSUME NEW k \in DOMAIN u, u[k].do = "link"
      PROVE  /\ u[k].dir \in dirs /\ u[k].ino \notin orph /\ t[1].do # "link"
             /\ \A e \in es : Of(e, u[k]) => t[1].do = "remove" /\ Of(e, t[1])
             /\ t[1].do = "remove" => 1 \in DOMAIN u /\ Unlinks(u[1])
             /\ Unlinks(t[1]) => t[1].ino # u[k].dir /\ t[1].ino # u[k].ino
             /\ \A j \in DOMAIN u : Unlinks(u[j]) => u[j].ino # u[k].dir /\ u[j].ino # u[k].ino
             /\ \A j \in DOMAIN u : u[j].do = "link" => j = k
             /\ Follows(u, k, "remove") \/ Makes(t[1])
  <2>1. k + 1 \in DOMAIN t /\ k + 1 # 1 /\ u[k] = t[k + 1] /\ t[k + 1].do = "link" /\ 1 \in DOMAIN t
    BY <1>2, <1>6 DEF Rest
  <2>2. /\ Follows(t, k + 1, "remove") \/ Makes(t[1])
        /\ t[k + 1].dir \in dirs /\ t[k + 1].ino \notin orph /\ t[1].do # "link"
        /\ \A e \in es : Of(e, t[k + 1]) => t[1].do = "remove" /\ Of(e, t[1])
        /\ t[1].do = "remove" => 2 \in DOMAIN t /\ Unlinks(t[2])
        /\ \A j \in DOMAIN t : Unlinks(t[j]) => t[j].ino # t[k + 1].dir /\ t[j].ino # t[k + 1].ino
        /\ \A j \in DOMAIN t : t[j].do = "link" => j = k + 1
    BY <1>1, <2>1 DEF LinksOK
  <2>3. Follows(u, k, "remove") \/ Makes(t[1])
    <3> SUFFICES ASSUME Follows(t, k + 1, "remove") PROVE Follows(u, k, "remove")
      BY <2>2
    <3>1. (k + 1) + 1 \in DOMAIN t /\ t[(k + 1) + 1].do = "remove" /\ k + 1 \in Nat /\ k \in Nat
      BY <1>2, <2>1 DEF Follows
    <3>2. k + 1 \in DOMAIN u /\ u[k + 1] = t[(k + 1) + 1]
      BY <3>1 DEF Rest
    <3> QED
      BY <3>1, <3>2 DEF Follows
  <2>4. 2 \in DOMAIN t => 1 \in DOMAIN u /\ u[1] = t[2]
    BY DEF Rest
  <2>5. \A j \in DOMAIN u : j + 1 = k + 1 => j = k
    BY <1>2
  <2>6. \A j \in DOMAIN u : u[j].do = "link" => j = k
    BY <1>2, <2>2, <2>5
  <2>7. \A j \in DOMAIN u : Unlinks(u[j]) => u[j].ino # u[k].dir /\ u[j].ino # u[k].ino
    BY <1>2, <2>1, <2>2
  <2> QED
    BY <2>1, <2>2, <2>3, <2>4, <2>6, <2>7
<1> QED
  BY <1>3, <1>4, <1>5, <1>6

\* A change that the tree does not show.
LEMMA AfterQuiet ==
    ASSUME NEW es, NEW live, NEW dirs, NEW orph, NEW t, NEW u,
           InTree(es, live, dirs, orph, t), Rest(u, t), Quiet(t[1])
    PROVE  InTree(es, live, dirs, orph, u)
<1>1. t[1].do \notin {"file", "dir", "drop", "free", "link", "remove"}
  BY DEF Quiet
<1>2. PlanOK(es, live, dirs, orph, t)
  BY DEF InTree
<1>3. /\ \A k \in DOMAIN u : ~Makes(u[k]) /\ ~Unlinks(u[k])
      /\ \A k \in DOMAIN u : u[k].do = "remove" => k # 1
  BY <1>1, <1>2, PlanRest
<1>4. RemovesOK(es, u)
  BY <1>2, <1>3, PlanRest DEF RemovesOK
<1>5. LinksOK(es, dirs, orph, u) /\ \A k \in DOMAIN u : u[k].do = "link" => Follows(u, k, "remove")
  BY <1>1, <1>2, <1>3, PlanRest DEF LinksOK, Makes, Rest
<1>6. Loose(t) = {} /\ Leaving(es, t) = {}
  BY <1>1 DEF Loose, Leaving, Unlinks
<1>7. Loose(u) = {} /\ Leaving(es, u) = {}
  BY <1>3, <1>5 DEF Loose, Leaving, Rest
<1> QED
  BY <1>3, <1>4, <1>5, <1>6, <1>7 DEF InTree, PlanOK, MakesOK, UnlinksOK

\* An inode is made.
LEMMA AfterMaking ==
    ASSUME NEW es, NEW live, NEW dirs, NEW orph, NEW t, NEW u, NEW dirs2,
           InTree(es, live, dirs, orph, t), Rest(u, t), Makes(t[1]),
           dirs2 \in {dirs, dirs \cup {t[1].ino}}
    PROVE  InTree(es, live \cup {t[1].ino}, dirs2, orph, u)
<1> DEFINE i     == t[1].ino
           live2 == live \cup {i}
<1>1. PlanOK(es, live, dirs, orph, t) /\ t[1].do \notin {"drop", "free", "link", "remove"}
  BY DEF InTree, Makes
<1>2. i \notin live /\ 1 \in DOMAIN u /\ u[1].do = "link" /\ u[1].ino = i /\ ~Follows(u, 1, "remove")
  BY <1>1 DEF PlanOK, MakesOK, Rest, Follows
<1>3. /\ \A k \in DOMAIN u : ~Makes(u[k]) /\ ~Unlinks(u[k])
      /\ \A k \in DOMAIN u : u[k].do = "remove" => k # 1
  BY <1>1, PlanRest
<1>4. RemovesOK(es, u)
  BY <1>1, <1>3, PlanRest DEF RemovesOK
<1>5. LinksOK(es, dirs2, orph, u)
  BY <1>1, <1>2, <1>3, PlanRest DEF LinksOK
<1>6. Loose(t) = {} /\ Leaving(es, t) = {} /\ Loose(u) = {i} /\ Leaving(es, u) = {}
  BY <1>1, <1>2 DEF Loose, Leaving, Unlinks
<1>7. Root \in live /\ Tree(es, live, orph) /\ (\A e \in es : e.ino \in live)
  BY <1>6 DEF InTree
<1> HIDE DEF i
<1>8. Tree(es, live2, orph \cup {i})
  BY <1>2, <1>7 DEF Tree
<1> QED
  BY <1>3, <1>4, <1>5, <1>6, <1>8 DEF InTree, PlanOK, MakesOK, UnlinksOK, i

\* A name is added.
LEMMA AfterLink ==
    ASSUME NEW es, NEW live, NEW dirs, NEW orph, NEW t, NEW u, NEW e0,
           InTree(es, live, dirs, orph, t), Rest(u, t), t[1].do = "link",
           Of(e0, t[1]), e0.ino = t[1].ino
    PROVE  InTree(es \cup {e0}, live, dirs, orph, u)
<1> DEFINE i   == t[1].ino
           es2 == es \cup {e0}
<1>1. PlanOK(es, live, dirs, orph, t) /\ ~Makes(t[1]) /\ ~Unlinks(t[1]) /\ t[1].do # "remove" /\ 1 \in DOMAIN t
  BY DEF InTree, Makes, Unlinks, Rest
<1>2. t[1].dir \in dirs /\ i \notin orph /\ \A e \in es : ~Of(e, t[1])
  BY <1>1 DEF PlanOK, LinksOK
<1>3. /\ \A k \in DOMAIN u : ~Makes(u[k]) /\ ~Unlinks(u[k]) /\ u[k].do # "link"
      /\ \A k \in DOMAIN u : u[k].do = "remove" =>
            /\ k = 1 /\ <<u[k].dir, u[k].name>> # <<t[1].dir, t[1].name>>
            /\ \E e \in es : Of(e, u[k]) /\ e.ino = i
  <2>1. \A k \in DOMAIN u : ~Makes(u[k]) /\ ~Unlinks(u[k]) /\ u[k].do # "link"
    BY <1>1, PlanRest
  <2>2. \A k \in DOMAIN t : t[k].do = "link" => k = 1
    BY <1>1 DEF PlanOK, LinksOK
  <2> QED
    BY <1>1, <2>1, <2>2, PlanRest
<1>4. PlanOK(es2, live, dirs, orph, u)
  BY <1>3 DEF PlanOK, MakesOK, UnlinksOK, RemovesOK, LinksOK
<1>5. Loose(u) = {} /\ Leaving(es, t) = {}
  BY <1>1, <1>3 DEF Loose, Leaving, Rest
<1>6. Tree(es, live, orph \cup Loose(t)) /\ \A e, f \in es : Of(e, f) => e = f
  BY <1>5 DEF InTree
<1>7. \A e, f \in es2 : Of(e, f) => e = f
  BY <1>2, <1>6 DEF Of
<1>8. \A e \in es : e.dir \in dirs /\ e.ino \in live \ {Root}
  BY DEF InTree
<1>9. CASE Follows(t, 1, "remove")
  <2>1. 1 \in DOMAIN u /\ u[1].do = "remove" /\ u # <<>> /\ ~(2 \in DOMAIN u /\ Unlinks(u[2]))
    BY <1>9, <1>3 DEF Rest, Follows
  <2>2. PICK e1 \in es : Of(e1, u[1]) /\ e1.ino = i
    BY <1>3, <2>1
  <2>3. ~Of(e0, u[1])
    BY <1>3, <2>1 DEF Of
  <2>4. Leaving(es2, u) = {e \in es2 : Of(e, u[1])}
    BY <2>1 DEF Leaving
  <2>5. \A e \in es : Of(e, u[1]) => Of(e, e1)
    BY <2>2 DEF Of
  <2>6. es2 \ Leaving(es2, u) = (es \ {e1}) \cup {e0}
    BY <1>6, <2>2, <2>3, <2>4, <2>5
  <2>7. Loose(t) = {}
    BY <1>1, <1>9 DEF Loose
  <2>8. Tree((es \ {e1}) \cup {e0}, live, orph)
    BY <1>6, <2>2, <2>7 DEF Tree
  <2>9. Tree(es2 \ Leaving(es2, u), live, orph \cup Loose(u))
    BY <1>5, <2>6, <2>8
  <2>10. \A e \in es2 : e.dir \in dirs /\ e.ino \in live \ {Root}
    BY <1>2, <1>8, <2>2 DEF Of
  <2>11. Root \in dirs /\ dirs \subseteq live
    BY DEF InTree
  <2> QED
    BY <1>4, <1>7, <2>9, <2>10, <2>11 DEF InTree
<1>10. CASE ~Follows(t, 1, "remove")
  <2>1. ~(1 \in DOMAIN u /\ u[1].do = "remove")
    BY <1>10 DEF Rest, Follows
  <2>2. Leaving(es2, u) = {}
    BY <2>1 DEF Leaving, Rest
  <2>3. Loose(t) = {i}
    BY <1>10 DEF Loose, Rest
  <2>4. i \in live \ {Root} /\ \A e \in es : e.ino # i
    BY <1>6, <2>3 DEF Tree
  <2>5. Tree(es2, live, orph)
    BY <1>2, <1>6, <2>3, <2>4 DEF Tree
  <2> QED
    BY <1>2, <1>4, <1>5, <1>7, <1>8, <2>2, <2>4, <2>5 DEF InTree, Of
<1> QED
  BY <1>9, <1>10

\* A name is removed.
LEMMA AfterRemove ==
    ASSUME NEW es, NEW live, NEW dirs, NEW orph, NEW t, NEW u, NEW e1 \in es,
           InTree(es, live, dirs, orph, t), Rest(u, t), t[1].do = "remove", Of(e1, t[1])
    PROVE  InTree(es \ {e1}, live, dirs, orph, u)
<1> DEFINE es2 == es \ {e1}
<1>1. PlanOK(es, live, dirs, orph, t) /\ ~Makes(t[1]) /\ ~Unlinks(t[1]) /\ 1 \in DOMAIN t /\ Loose(t) = {}
  BY DEF InTree, Makes, Unlinks, Loose, Rest
<1>2. \A e \in es : Of(e, t[1]) => e = e1
  BY DEF InTree, Of
<1>3. \A e, f \in es2 : Of(e, f) => e = f
  BY DEF InTree
<1>4. \A e \in es : e.dir \in dirs /\ e.ino \in live \ {Root}
  BY DEF InTree
<1>5. \A k \in DOMAIN u : ~Makes(u[k])
  BY <1>1, PlanRest
<1>6. UnlinksOK(es2, live, orph, u)
  BY <1>1, PlanRest DEF UnlinksOK
<1>7. \A k \in DOMAIN u : u[k].do = "link" =>
         /\ 1 \in DOMAIN u /\ Unlinks(u[1]) /\ u[k].ino # e1.ino
         /\ \A e \in es2 : ~Of(e, u[k])
  <2> SUFFICES ASSUME NEW k \in DOMAIN u, u[k].do = "link"
               PROVE  /\ 1 \in DOMAIN u /\ Unlinks(u[1]) /\ u[k].ino # e1.ino
                      /\ \A e \in es2 : ~Of(e, u[k])
    OBVIOUS
  <2>1. /\ 1 \in DOMAIN u /\ Unlinks(u[1]) /\ u[1].ino # u[k].ino
        /\ \A e \in es : Of(e, u[k]) => Of(e, t[1])
    BY <1>1, PlanRest
  <2>2. u[1].ino = e1.ino
    BY <1>1, <1>2, <2>1, PlanRest
  <2> QED
    BY <1>2, <2>1, <2>2
<1>8. LinksOK(es2, dirs, orph, u)
  <2>1. \A k \in DOMAIN u : u[k].do = "link" => u[1].do # "remove"
    BY <1>7 DEF Unlinks
  <2> QED
    BY <1>1, <1>7, <2>1, PlanRest DEF LinksOK
<1>9. RemovesOK(es2, u)
  <2> SUFFICES ASSUME NEW k \in DOMAIN u, u[k].do = "remove"
               PROVE  /\ \E e \in es2 : Of(e, u[k]) /\ (k # 1 => e.ino = u[k - 1].ino)
                      /\ k # 1 => u[k - 1].do = "link"
                                  /\ <<u[k].dir, u[k].name>> # <<u[k - 1].dir, u[k - 1].name>>
    BY DEF RemovesOK
  <2>1. /\ k # 1 /\ u[k - 1] = t[k] /\ t[k].do = "link"
        /\ <<u[k].dir, u[k].name>> # <<t[k].dir, t[k].name>>
        /\ \E e \in es : Of(e, u[k]) /\ e.ino = t[k].ino
    BY <1>1, PlanRest
  <2>2. k - 1 \in DOMAIN u
    BY <2>1 DEF Rest
  <2> QED
    BY <1>7, <2>1, <2>2
<1>10. PlanOK(es2, live, dirs, orph, u)
  BY <1>5, <1>6, <1>8, <1>9 DEF PlanOK, MakesOK
<1>11. Leaving(es2, u) = {}
  BY <1>1, PlanRest DEF Leaving, Rest
<1>12. CASE 1 \in DOMAIN u /\ Unlinks(u[1])
  <2>1. u # <<>> /\ 2 \in DOMAIN t /\ Unlinks(t[2])
    BY <1>12 DEF Rest
  <2>2. Leaving(es, t) = {} /\ Loose(u) = {e1.ino}
    BY <1>1, <1>2, <1>12, <2>1, PlanRest DEF Leaving, Loose
  <2>3. Tree(es, live, orph)
    BY <1>1, <2>2 DEF InTree
  <2>4. Tree(es2, live, orph \cup {e1.ino})
    BY <1>4, <2>3 DEF Tree
  <2> QED
    BY <1>3, <1>4, <1>10, <1>11, <2>2, <2>4 DEF InTree
<1>13. CASE ~(1 \in DOMAIN u /\ Unlinks(u[1]))
  <2>1. ~(2 \in DOMAIN t /\ Unlinks(t[2]))
    BY <1>13 DEF Rest
  <2>2. Leaving(es, t) = {e1}
    BY <1>2, <2>1 DEF Leaving, Rest
  <2>3. Loose(u) = {}
    BY <1>7, <1>13 DEF Loose, Rest
  <2>4. Tree(es2, live, orph)
    BY <1>1, <2>2 DEF InTree
  <2> QED
    BY <1>3, <1>4, <1>10, <1>11, <2>3, <2>4 DEF InTree
<1> QED
  BY <1>12, <1>13

\* An inode is freed.
LEMMA AfterFree ==
    ASSUME NEW es, NEW live, NEW dirs, NEW orph, NEW t, NEW u,
           InTree(es, live, dirs, orph, t), Rest(u, t), Unlinks(t[1])
    PROVE  /\ InTree(es, live \ {t[1].ino}, dirs \ {t[1].ino}, orph, u)
           /\ t[1].ino \in live /\ \A e \in es : e.dir # t[1].ino
<1> DEFINE i     == t[1].ino
           live2 == live \ {i}
           dirs2 == dirs \ {i}
<1>1. /\ PlanOK(es, live, dirs, orph, t) /\ ~Makes(t[1]) /\ t[1].do \notin {"remove", "link"}
      /\ 1 \in DOMAIN t /\ Leaving(es, t) = {} /\ Loose(t) = {i}
  BY DEF InTree, Makes, Unlinks, Loose, Rest, Leaving
<1>2. i \in live /\ i # Root /\ i \notin orph /\ \A e \in es : e.dir # i
  BY <1>1 DEF PlanOK, UnlinksOK
<1>3. /\ \A k \in DOMAIN u : ~Makes(u[k]) /\ ~Unlinks(u[k])
      /\ \A k \in DOMAIN u : u[k].do = "remove" => k # 1
  BY <1>1, PlanRest
<1>4. RemovesOK(es, u)
  BY <1>1, <1>3, PlanRest DEF RemovesOK
<1>5. LinksOK(es, dirs2, orph, u) /\ \A k \in DOMAIN u : u[k].do = "link" => Follows(u, k, "remove")
  BY <1>1, <1>3, PlanRest DEF LinksOK, Rest
<1>6. Loose(u) = {} /\ Leaving(es, u) = {}
  BY <1>3, <1>5 DEF Loose, Leaving, Rest
<1>7. Tree(es, live, orph \cup {i})
  BY <1>1 DEF InTree
<1>8. Tree(es, live2, orph) /\ \A e \in es : e.ino # i
  BY <1>2, <1>7 DEF Tree
<1>9. Root \in dirs2 /\ dirs2 \subseteq live2 /\ (\A e \in es : e.dir \in dirs2 /\ e.ino \in live2 \ {Root})
  BY <1>2, <1>8 DEF InTree
<1> QED
  BY <1>2, <1>3, <1>4, <1>5, <1>6, <1>8, <1>9 DEF InTree, PlanOK, MakesOK, UnlinksOK

\* Between operations nothing is loose and nothing leaves.
LEMMA NothingPlanned ==
    ASSUME NEW es, NEW live, NEW dirs, NEW orph
    PROVE  PlanOK(es, live, dirs, orph, <<>>) /\ Loose(<<>>) = {} /\ Leaving(es, <<>>) = {}
<1>1. DOMAIN <<>> = {}
  OBVIOUS
<1> QED
  BY <1>1 DEF PlanOK, MakesOK, UnlinksOK, RemovesOK, LinksOK, Loose, Leaving

\* The rest of a plan is given up.
LEMMA AfterGivingUp ==
    ASSUME NEW es, NEW live, NEW dirs, NEW orph, NEW t,
           InTree(es, live, dirs, orph, t), Quiet(t[1]) \/ Makes(t[1])
    PROVE  InTree(es, live, dirs, orph, <<>>)
<1>1. t[1].do \notin {"drop", "free", "link", "remove"}
  BY DEF Quiet, Makes
<1>2. Loose(t) = {} /\ Leaving(es, t) = {} /\ Loose(<<>>) = {} /\ Leaving(es, <<>>) = {}
  BY <1>1 DEF Loose, Leaving, Unlinks
<1> QED
  BY <1>2, NothingPlanned DEF InTree

\* A name that is not added leaves its inode without one, if it had no other.
LEMMA AfterRefusedLink ==
    ASSUME NEW es, NEW live, NEW dirs, NEW orph, NEW t,
           InTree(es, live, dirs, orph, t), t # <<>>, 1 \in DOMAIN t, t[1].do = "link"
    PROVE  InTree(es, live, dirs, orph \cup {i \in {t[1].ino} : \A e \in es : e.ino # i}, <<>>)
<1> DEFINE orph2 == orph \cup {i \in {t[1].ino} : \A e \in es : e.ino # i}
<1>1. Leaving(es, t) = {} /\ Loose(<<>>) = {} /\ Leaving(es, <<>>) = {}
  BY DEF Loose, Leaving
<1>2. Tree(es, live, orph \cup Loose(t))
  BY <1>1 DEF InTree
<1>3. orph2 = orph \cup Loose(t)
  <2>1. CASE Follows(t, 1, "remove")
    <3>1. \E e \in es : e.ino = t[1].ino
      BY <2>1 DEF InTree, PlanOK, RemovesOK, Follows
    <3>2. Loose(t) = {}
      BY <2>1 DEF Loose, Unlinks
    <3> QED
      BY <3>1, <3>2
  <2>2. CASE ~Follows(t, 1, "remove")
    <3>1. Loose(t) = {t[1].ino}
      BY <2>2 DEF Loose, Unlinks
    <3> QED
      BY <1>2, <3>1 DEF Tree
  <2> QED
    BY <2>1, <2>2
<1> QED
  BY <1>1, <1>2, <1>3, NothingPlanned DEF InTree

-----------------------------------------------------------------------------
(* How the plan of each operation keeps the tree                            *)

\* create and mkdir.
LEMMA PlanToMake ==
    ASSUME NEW es, NEW live, NEW dirs, NEW orph, NEW t,
           InTree(es, live, dirs, orph, <<>>), t # <<>>, {1, 2} \subseteq DOMAIN t,
           Makes(t[1]), t[1].ino \notin live,
           t[2].do = "link", t[2].ino = t[1].ino, t[2].dir \in dirs, \A e \in es : ~Of(e, t[2]),
           \A k \in DOMAIN t \ {1, 2} : Quiet(t[k])
    PROVE  InTree(es, live, dirs, orph, t)
<1>1. \A k \in DOMAIN t : Quiet(t[k]) => ~Makes(t[k]) /\ ~Unlinks(t[k]) /\ t[k].do \notin {"remove", "link"}
  BY DEF Quiet, Makes, Unlinks
<1>2. Tree(es, live, orph)
  BY NothingPlanned DEF InTree
<1>3. t[1].do \notin {"drop", "free", "link", "remove"} /\ ~Makes(t[2]) /\ ~Unlinks(t[2])
  BY DEF Makes, Unlinks
<1>4. MakesOK(live, t)
  BY <1>1, <1>3 DEF MakesOK, Follows
<1>5. UnlinksOK(es, live, orph, t) /\ RemovesOK(es, t)
  BY <1>1, <1>3 DEF UnlinksOK, RemovesOK, Unlinks
<1>6. t[2].ino \notin orph
  BY <1>2 DEF Tree
<1>7. LinksOK(es, dirs, orph, t)
  BY <1>1, <1>3, <1>6 DEF LinksOK, Unlinks
<1>8. Loose(t) = {} /\ Leaving(es, t) = {}
  BY <1>3 DEF Loose, Leaving, Unlinks
<1> QED
  BY <1>2, <1>4, <1>5, <1>7, <1>8 DEF InTree, PlanOK

\* unlink and rmdir.
LEMMA PlanToUnlink ==
    ASSUME NEW es, NEW live, NEW dirs, NEW orph, NEW t,
           InTree(es, live, dirs, orph, <<>>), t # <<>>, {1, 2} \subseteq DOMAIN t,
           t[1].do = "remove", Unlinks(t[2]),
           \E e \in es : Of(e, t[1]) /\ e.ino = t[2].ino,
           \A e \in es : e.dir # t[2].ino,
           \A k \in DOMAIN t \ {1, 2} : Quiet(t[k])
    PROVE  InTree(es, live, dirs, orph, t)
<1>1. \A k \in DOMAIN t : Quiet(t[k]) => ~Makes(t[k]) /\ ~Unlinks(t[k]) /\ t[k].do \notin {"remove", "link"}
  BY DEF Quiet, Makes, Unlinks
<1>2. Tree(es, live, orph)
  BY NothingPlanned DEF InTree
<1>3. ~Makes(t[1]) /\ ~Unlinks(t[1]) /\ ~Makes(t[2]) /\ t[2].do \notin {"remove", "link"}
  BY DEF Makes, Unlinks
<1>4. t[2].ino \in live \ ({Root} \cup orph)
  BY <1>2 DEF InTree, Tree
<1>5. UnlinksOK(es, live, orph, t)
  BY <1>1, <1>3, <1>4 DEF UnlinksOK
<1>6. MakesOK(live, t) /\ RemovesOK(es, t) /\ LinksOK(es, dirs, orph, t)
  BY <1>1, <1>3 DEF MakesOK, RemovesOK, LinksOK
<1>7. Loose(t) = {} /\ Leaving(es, t) = {}
  BY <1>3 DEF Loose, Leaving, Unlinks
<1> QED
  BY <1>2, <1>5, <1>6, <1>7 DEF InTree, PlanOK

\* rename, with p changes that remove its target before.
IsMove(es, dirs, t, p) ==
    /\ p \in Nat /\ t # <<>> /\ {1, 2, p + 1, p + 2} \subseteq DOMAIN t /\ \A k \in DOMAIN t : k \in Nat
    /\ t[p + 1].do = "link" /\ t[p + 1].dir \in dirs
    /\ t[p + 2].do = "remove" /\ <<t[p + 2].dir, t[p + 2].name>> # <<t[p + 1].dir, t[p + 1].name>>
    /\ \E e \in es : Of(e, t[p + 2]) /\ e.ino = t[p + 1].ino
    /\ p = 0 => \A e \in es : ~Of(e, t[1])
    /\ p # 0 => /\ p > 1 /\ t[1].do = "remove" /\ Unlinks(t[2])
                /\ t[1].dir = t[p + 1].dir /\ t[1].name = t[p + 1].name
                /\ \E e \in es : Of(e, t[1]) /\ e.ino = t[2].ino
                /\ \A e \in es : e.dir # t[2].ino
                /\ t[2].ino # t[p + 1].dir /\ t[2].ino # t[p + 1].ino
    /\ \A k \in DOMAIN t \ {1, 2, p + 1, p + 2} : Quiet(t[k])

\* rename.
LEMMA PlanToMove ==
    ASSUME NEW es, NEW live, NEW dirs, NEW orph, NEW t, NEW p,
           InTree(es, live, dirs, orph, <<>>), IsMove(es, dirs, t, p)
    PROVE  InTree(es, live, dirs, orph, t)
<1> USE DEF IsMove
<1>1. \A k \in DOMAIN t : Quiet(t[k]) => ~Makes(t[k]) /\ ~Unlinks(t[k]) /\ t[k].do \notin {"remove", "link"}
  BY DEF Quiet, Makes, Unlinks
<1>2. Tree(es, live, orph)
  BY NothingPlanned DEF InTree
<1>3. \A k \in DOMAIN t : t[k].do \in {"remove", "link"} => ~Makes(t[k]) /\ ~Unlinks(t[k])
  BY DEF Makes, Unlinks
<1>4. \A k \in DOMAIN t : Unlinks(t[k]) => ~Makes(t[k]) /\ t[k].do \notin {"remove", "link"}
  BY DEF Makes, Unlinks
<1>5. /\ \A k \in DOMAIN t : ~Makes(t[k])
      /\ \A k \in DOMAIN t : Unlinks(t[k]) => p # 0 /\ k = 2
      /\ \A k \in DOMAIN t : t[k].do = "remove" => k = p + 2 \/ (p # 0 /\ k = 1)
      /\ \A k \in DOMAIN t : t[k].do = "link" => k = p + 1
  <2>1. CASE p = 0
    BY <1>1, <1>3, <2>1
  <2>2. CASE p # 0
    BY <1>1, <1>3, <1>4, <2>2
  <2> QED
    BY <2>1, <2>2
<1>6. UnlinksOK(es, live, orph, t)
  <2>1. p # 0 => t[2].ino \in live \ ({Root} \cup orph)
    BY <1>2 DEF InTree, Tree
  <2> QED
    BY <1>5, <2>1 DEF UnlinksOK
<1>7. MakesOK(live, t)
  BY <1>5 DEF MakesOK
<1>8. RemovesOK(es, t)
  <2>1. (p + 2) - 1 = p + 1 /\ p + 2 # 1
    OBVIOUS
  <2> QED
    BY <1>5, <2>1 DEF RemovesOK
<1>9. LinksOK(es, dirs, orph, t)
  <2>1. t[p + 1].ino \notin orph
    BY <1>2 DEF InTree, Tree
  <2>2. Follows(t, p + 1, "remove")
    <3>1. (p + 1) + 1 = p + 2
      OBVIOUS
    <3> QED
      BY <3>1 DEF Follows
  <2>3. \A e \in es : Of(e, t[p + 1]) => p + 1 # 1 /\ t[1].do = "remove" /\ Of(e, t[1])
    BY DEF Of
  <2>4. t[1].do = "remove" => 2 \in DOMAIN t /\ Unlinks(t[2])
    BY <1>5
  <2> QED
    BY <1>5, <2>1, <2>2, <2>3, <2>4 DEF LinksOK
<1>10. Loose(t) = {} /\ Leaving(es, t) = {}
  <2>1. CASE p = 0
    <3>1. Follows(t, 1, "remove") /\ ~Unlinks(t[1]) /\ t[1].do # "remove"
      BY <2>1 DEF Follows, Unlinks
    <3> QED
      BY <3>1 DEF Loose, Leaving
  <2>2. CASE p # 0
    BY <2>2 DEF Loose, Leaving, Unlinks
  <2> QED
    BY <2>1, <2>2
<1> QED
  BY <1>2, <1>6, <1>7, <1>8, <1>9, <1>10 DEF InTree, PlanOK

-----------------------------------------------------------------------------
(* What each change does to the entries                                     *)

Inode == [kind : {"free", "file", "dir"}, nlink : Nat, blocks : Seq(Blocks)]
Block == [dotdot : {0} \cup Inos, names : [Names -> {0} \cup Inos]]

\* An entry is made of its four parts.
LEMMA Entries ==
    /\ \A e \in Entry : e.dir \in Inos /\ e.block \in Blocks /\ e.name \in Names /\ e.ino \in Inos
    /\ \A e, f \in Entry : e.dir = f.dir /\ e.block = f.block /\ e.name = f.name /\ e.ino = f.ino => e = f
    /\ \A d \in Inos, b \in Blocks, n \in Names, i \in Inos :
          \E e \in Entry : e.dir = d /\ e.block = b /\ e.name = n /\ e.ino = i
<1>1. \A d \in Inos, b \in Blocks, n \in Names, i \in Inos :
          \E e \in Entry : e.dir = d /\ e.block = b /\ e.name = n /\ e.ino = i
  <2> TAKE d \in Inos, b \in Blocks, n \in Names, i \in Inos
  <2> DEFINE e == [dir |-> d, block |-> b, name |-> n, ino |-> i]
  <2>1. e \in Entry /\ e.dir = d /\ e.block = b /\ e.name = n /\ e.ino = i
    BY DEF Entry
  <2> QED
    BY <2>1
<1> QED
  BY <1>1 DEF Entry

\* 0 is no inode, and numbers of inodes are natural numbers.
LEMMA Numbers == 0 \notin Inos /\ Inos \subseteq Nat /\ Blocks \subseteq Nat /\ Root \in Inos
  BY NamespaceAssumption DEF Inos, Blocks, Root

\* The members of sequences.
LEMMA Sets ==
    /\ ToSet(<<>>) = {}
    /\ \A b \in Blocks : ToSet(<<b>>) = {b}
    /\ \A s \in Seq(Blocks) : ToSet(s) \subseteq Blocks
    /\ \A s \in Seq(Blocks), b \in Blocks : ToSet(Append(s, b)) = ToSet(s) \cup {b}
<1>1. ASSUME NEW s \in Seq(Blocks), NEW b \in Blocks
      PROVE  ToSet(Append(s, b)) = ToSet(s) \cup {b}
  <2>1. /\ Append(s, b) \in Seq(Blocks) /\ Len(s) \in Nat
        /\ DOMAIN Append(s, b) = 1..Len(s) + 1 /\ DOMAIN s = 1..Len(s)
        /\ \A k \in 1..Len(s) : Append(s, b)[k] = s[k]
        /\ Append(s, b)[Len(s) + 1] = b
    OBVIOUS
  <2> QED
    BY <2>1 DEF ToSet
<1> QED
  BY <1>1 DEF ToSet

\* An empty block has no names.
LEMMA Zeros ==
    /\ FreeInode.kind = "free" /\ FreeInode.blocks = <<>> /\ FreeInode \in Inode
    /\ ZeroBlock \in Block /\ \A n \in Names : ZeroBlock.names[n] = 0
    /\ \A p \in Inos : [ZeroBlock EXCEPT !.dotdot = p] \in Block
    /\ \A p : \A n \in Names : [ZeroBlock EXCEPT !.dotdot = p].names[n] = 0
<1>1. ZeroBlock \in Block
  BY DEF ZeroBlock, Block
<1>2. \A p : [ZeroBlock EXCEPT !.dotdot = p].names = ZeroBlock.names
  BY DEF ZeroBlock
<1> QED
  BY <1>1, <1>2 DEF FreeInode, Inode, ZeroBlock, Block

\* Link counts and parent entries are no part of it.
IsSame(ns, ns2, bs, bs2) ==
    /\ \A i \in Inos : ns2[i].kind = ns[i].kind /\ ns2[i].blocks = ns[i].blocks
    /\ \A b \in Blocks : bs2[b].names = bs[b].names

\* Entries are the same where blocks and names are.
LEMMA SameEntries ==
    ASSUME NEW ns, NEW ns2, NEW bs, NEW bs2, IsSame(ns, ns2, bs, bs2)
    PROVE  /\ EntriesIn(ns2, bs2) = EntriesIn(ns, bs)
           /\ LiveIn(ns2) = LiveIn(ns) /\ DirsIn(ns2) = DirsIn(ns)
           /\ \A marked : Agree(ns, marked) => Agree(ns2, marked)
<1> USE DEF IsSame
<1>1. LiveIn(ns2) = LiveIn(ns) /\ DirsIn(ns2) = DirsIn(ns)
  BY DEF LiveIn, DirsIn
<1>2. EntriesIn(ns2, bs2) = EntriesIn(ns, bs)
  BY <1>1, Entries DEF EntriesIn
<1>3. LiveIn(ns) \subseteq Inos
  BY DEF LiveIn
<1> QED
  BY <1>1, <1>2, <1>3 DEF Agree

\* A new file changes no entry.
LEMMA MadeFile ==
    ASSUME NEW ns, NEW ns2, NEW bs, NEW i \in Inos \ LiveIn(ns),
           ns2[i].kind = "file", ns2[i].blocks = <<>>, \A j \in Inos \ {i} : ns2[j] = ns[j]
    PROVE  /\ EntriesIn(ns2, bs) = EntriesIn(ns, bs)
           /\ LiveIn(ns2) = LiveIn(ns) \cup {i} /\ DirsIn(ns2) = DirsIn(ns)
           /\ \A marked : Agree(ns, marked) => Agree(ns2, marked)
<1>1. LiveIn(ns2) = LiveIn(ns) \cup {i} /\ DirsIn(ns2) = DirsIn(ns) /\ i \notin DirsIn(ns)
  BY DEF LiveIn, DirsIn
<1>2. EntriesIn(ns2, bs) = EntriesIn(ns, bs)
  BY <1>1, Entries DEF EntriesIn
<1>3. \A j \in LiveIn(ns) : j \in Inos /\ j # i
  BY DEF LiveIn
<1>4. \A marked : Agree(ns, marked) => Agree(ns2, marked)
  BY <1>1, <1>3, Sets DEF Agree
<1> QED
  BY <1>1, <1>2, <1>4

IsMadeDirectory(ns, ns2, bs, bs2, marked, i, b) ==
    /\ i \in Inos \ LiveIn(ns) /\ b \in Blocks \ marked
    /\ ns2[i].kind = "dir" /\ ToSet(ns2[i].blocks) = {b} /\ \A j \in Inos \ {i} : ns2[j] = ns[j]
    /\ \A n \in Names : bs2[b].names[n] = 0
    /\ \A c \in Blocks \ {b} : bs2[c] = bs[c]
    /\ Agree(ns, marked)

\* A new directory is empty.
LEMMA MadeDirectory ==
    ASSUME NEW ns, NEW ns2, NEW bs, NEW bs2, NEW marked, NEW i, NEW b,
           IsMadeDirectory(ns, ns2, bs, bs2, marked, i, b)
    PROVE  /\ EntriesIn(ns2, bs2) = EntriesIn(ns, bs)
           /\ LiveIn(ns2) = LiveIn(ns) \cup {i} /\ DirsIn(ns2) = DirsIn(ns) \cup {i}
           /\ Agree(ns2, marked \cup {b})
<1>0. /\ i \in Inos \ LiveIn(ns) /\ b \in Blocks \ marked
      /\ ns2[i].kind = "dir" /\ ToSet(ns2[i].blocks) = {b} /\ \A j \in Inos \ {i} : ns2[j] = ns[j]
      /\ \A n \in Names : bs2[b].names[n] = 0
      /\ \A c \in Blocks \ {b} : bs2[c] = bs[c]
      /\ Agree(ns, marked)
  BY DEF IsMadeDirectory
<1>1. LiveIn(ns2) = LiveIn(ns) \cup {i} /\ DirsIn(ns2) = DirsIn(ns) \cup {i} /\ i \notin DirsIn(ns)
  BY <1>0 DEF LiveIn, DirsIn
<1>2. \A j \in LiveIn(ns) : j \in Inos /\ j # i /\ b \notin ToSet(ns[j].blocks) /\ ns2[j] = ns[j]
  BY <1>0 DEF LiveIn, Agree
<1>3. ToSet(ns2[i].blocks) = {b}
  BY <1>0
<1>4. DirsIn(ns) \subseteq LiveIn(ns)
  BY DEF DirsIn, LiveIn
<1>5. EntriesIn(ns2, bs2) = EntriesIn(ns, bs)
  <2>1. ASSUME NEW e \in EntriesIn(ns2, bs2), e.dir = i PROVE FALSE
    <3>1. e.block = b /\ e.name \in Names /\ e.ino \in Inos /\ bs2[e.block].names[e.name] = e.ino
      BY <1>3, <2>1, Entries DEF EntriesIn
    <3> QED
      BY <1>0, <3>1, Numbers
  <2>2. ASSUME NEW e \in Entry, e.dir # i
        PROVE  e \in EntriesIn(ns2, bs2) <=> e \in EntriesIn(ns, bs)
    <3>1. e.dir \in DirsIn(ns2) <=> e.dir \in DirsIn(ns)
      BY <1>1, <2>2
    <3>2. SUFFICES ASSUME e.dir \in DirsIn(ns)
                   PROVE  e \in EntriesIn(ns2, bs2) <=> e \in EntriesIn(ns, bs)
      BY <3>1 DEF EntriesIn
    <3>3. ns2[e.dir] = ns[e.dir] /\ b \notin ToSet(ns[e.dir].blocks)
      BY <1>2, <1>4, <3>2
    <3>4. e.block \in Blocks /\ (e.block # b => bs2[e.block] = bs[e.block])
      BY <1>0, Entries
    <3> QED
      BY <3>1, <3>2, <3>3, <3>4 DEF EntriesIn
  <2> QED
    BY <1>1, <2>1, <2>2 DEF EntriesIn
<1>6. Agree(ns2, marked \cup {b})
  <2>1. ASSUME NEW j \in LiveIn(ns)
        PROVE  /\ ToSet(ns2[j].blocks) = ToSet(ns[j].blocks) /\ b \notin ToSet(ns[j].blocks) /\ j # i
               /\ ToSet(ns[j].blocks) \subseteq marked
               /\ \A k \in LiveIn(ns) \ {j} : ToSet(ns[j].blocks) \cap ToSet(ns[k].blocks) = {}
    BY <1>0, <1>2 DEF Agree
  <2> DEFINE B(j) == ToSet(ns2[j].blocks)
  <2>2. \A j \in LiveIn(ns), k \in LiveIn(ns) : j # k => B(j) \cap B(k) = {}
    BY <2>1
  <2>3. \A j \in LiveIn(ns) : j # i /\ b \notin B(j) /\ B(j) \subseteq marked
    BY <2>1
  <2>4. B(i) = {b}
    BY <1>3
  <2> HIDE DEF B
  <2>5. ASSUME NEW j \in LiveIn(ns2), NEW k \in LiveIn(ns2) \ {j} PROVE B(j) \cap B(k) = {}
    <3>1. CASE j = i
      BY <1>1, <2>3, <2>4, <3>1
    <3>2. CASE k = i
      BY <1>1, <2>3, <2>4, <3>2
    <3>3. CASE j # i /\ k # i
      BY <1>1, <2>2, <3>3
    <3> QED
      BY <3>1, <3>2, <3>3
  <2>6. \A j \in LiveIn(ns2) : B(j) \subseteq marked \cup {b}
    BY <1>1, <2>3, <2>4
  <2> QED
    BY <2>5, <2>6 DEF Agree, B
<1> QED
  BY <1>1, <1>5, <1>6

\* Only the name n of block b of directory d changes, to i.
IsNamed(ns, bs, bs2, marked, d, b, n, i) ==
    /\ ns \in [Inos -> Inode] /\ d \in DirsIn(ns) /\ b \in ToSet(ns[d].blocks) /\ n \in Names
    /\ bs2[b].names[n] = i /\ \A m \in Names \ {n} : bs2[b].names[m] = bs[b].names[m]
    /\ \A c \in Blocks \ {b} : bs2[c] = bs[c]
    /\ Agree(ns, marked)

\* A name is put into a block of the directory.
LEMMA AddedInRoom ==
    ASSUME NEW ns, NEW bs, NEW bs2, NEW marked, NEW d, NEW b, NEW n, NEW i \in Inos,
           IsNamed(ns, bs, bs2, marked, d, b, n, i), \A e \in EntriesIn(ns, bs) : ~(e.dir = d /\ e.name = n)
    PROVE  \E e0 \in Entry : /\ e0.dir = d /\ e0.name = n /\ e0.ino = i
                             /\ EntriesIn(ns, bs2) = EntriesIn(ns, bs) \cup {e0}
<1> USE DEF IsNamed
<1>1. d \in Inos /\ ns[d].blocks \in Seq(Blocks) /\ b \in Blocks /\ d \in LiveIn(ns)
  <2>1. d \in Inos /\ d \in LiveIn(ns)
    BY DEF DirsIn, LiveIn
  <2>2. ns[d].blocks \in Seq(Blocks)
    BY <2>1 DEF Inode
  <2> QED
    BY <2>1, <2>2, Sets
<1>2. /\ bs2[b].names[n] = i /\ \A m \in Names \ {n} : bs2[b].names[m] = bs[b].names[m]
      /\ \A c \in Blocks \ {b} : bs2[c] = bs[c]
  OBVIOUS
<1>3. PICK e0 \in Entry : e0.dir = d /\ e0.block = b /\ e0.name = n /\ e0.ino = i
  BY <1>1, Entries
<1>4. \A j \in DirsIn(ns) : j # d => b \notin ToSet(ns[j].blocks)
  <2>1. \A j \in DirsIn(ns) : j \in LiveIn(ns)
    BY DEF DirsIn, LiveIn
  <2> QED
    BY <1>1, <2>1 DEF Agree
<1>5. e0 \in EntriesIn(ns, bs2)
  BY <1>2, <1>3 DEF EntriesIn
<1>6. ASSUME NEW e \in Entry, e # e0
      PROVE  e \in EntriesIn(ns, bs2) <=> e \in EntriesIn(ns, bs)
  <2>1. CASE e.block # b
    BY <1>2, <2>1, Entries DEF EntriesIn
  <2>2. CASE e.block = b /\ e.name # n
    BY <1>2, <2>2, Entries DEF EntriesIn
  <2>3. CASE e.block = b /\ e.name = n
    <3>1. e \notin EntriesIn(ns, bs)
      BY <1>4, <2>3 DEF EntriesIn
    <3>2. e \notin EntriesIn(ns, bs2)
      <4>1. SUFFICES ASSUME e \in EntriesIn(ns, bs2) PROVE FALSE
        OBVIOUS
      <4>2. e.ino = i /\ e.dir = d
        BY <1>2, <1>4, <2>3, <4>1 DEF EntriesIn
      <4> QED
        BY <1>3, <1>6, <2>3, <4>2, Entries
    <3> QED
      BY <3>1, <3>2
  <2> QED
    BY <2>1, <2>2, <2>3
<1>7. EntriesIn(ns, bs2) = EntriesIn(ns, bs) \cup {e0}
  BY <1>5, <1>6 DEF EntriesIn
<1> QED
  BY <1>3, <1>7

\* A block that was free is put at the end of a directory, with one name in it.
IsAddedInNewBlock(ns, ns2, bs, bs2, marked, d, b, n, i) ==
    /\ ns \in [Inos -> Inode] /\ d \in DirsIn(ns) /\ b \in Blocks \ marked /\ n \in Names /\ i \in Inos
    /\ ns2[d].kind = ns[d].kind /\ ns2[d].blocks = Append(ns[d].blocks, b)
    /\ \A j \in Inos \ {d} : ns2[j] = ns[j]
    /\ bs2[b].names[n] = i /\ \A m \in Names \ {n} : bs2[b].names[m] = 0
    /\ \A c \in Blocks \ {b} : bs2[c] = bs[c]
    /\ Agree(ns, marked)

\* What such a change does: one entry more.
HasOneMore(ns, ns2, bs, bs2, marked, d, n, i) ==
    /\ LiveIn(ns2) = LiveIn(ns) /\ DirsIn(ns2) = DirsIn(ns)
    /\ Agree(ns2, marked)
    /\ \E e0 \in Entry : /\ e0.dir = d /\ e0.name = n /\ e0.ino = i
                         /\ EntriesIn(ns2, bs2) = EntriesIn(ns, bs) \cup {e0}

\* A name is put into a block that the directory gets for it.
LEMMA AddedInNewBlock ==
    ASSUME NEW ns, NEW ns2, NEW bs, NEW bs2, NEW marked, NEW d, NEW b, NEW n, NEW i,
           IsAddedInNewBlock(ns, ns2, bs, bs2, marked, d, b, n, i)
    PROVE  HasOneMore(ns, ns2, bs, bs2, marked \cup {b}, d, n, i)
<1> USE DEF IsAddedInNewBlock
<1>1. d \in Inos /\ ns[d] \in Inode /\ ns[d].blocks \in Seq(Blocks) /\ d \in LiveIn(ns)
  <2>1. d \in Inos /\ d \in LiveIn(ns)
    BY DEF DirsIn, LiveIn
  <2>2. ns[d].blocks \in Seq(Blocks)
    BY <2>1 DEF Inode
  <2> QED
    BY <2>1, <2>2
<1>2. LiveIn(ns2) = LiveIn(ns) /\ DirsIn(ns2) = DirsIn(ns)
  BY <1>1 DEF LiveIn, DirsIn
<1>3. DirsIn(ns) \subseteq LiveIn(ns) /\ LiveIn(ns) \subseteq Inos
  BY DEF DirsIn, LiveIn
<1> DEFINE B(j) == ToSet(ns[j].blocks)
           C(j) == ToSet(ns2[j].blocks)
<1>4. C(d) = B(d) \cup {b} /\ \A j \in Inos \ {d} : C(j) = B(j)
  BY <1>1, Sets
<1>5. /\ \A j \in LiveIn(ns) : B(j) \subseteq marked /\ b \notin B(j)
      /\ \A j \in LiveIn(ns), k \in LiveIn(ns) : j # k => B(j) \cap B(k) = {}
  BY DEF Agree
<1>6. Agree(ns2, marked \cup {b})
  <2> HIDE DEF B, C
  <2>1. ASSUME NEW j \in LiveIn(ns), NEW k \in LiveIn(ns) \ {j} PROVE C(j) \cap C(k) = {}
    <3>1. CASE j = d
      BY <1>1, <1>3, <1>4, <1>5, <3>1
    <3>2. CASE k = d
      BY <1>1, <1>3, <1>4, <1>5, <3>2
    <3>3. CASE j # d /\ k # d
      BY <1>3, <1>4, <1>5, <3>3
    <3> QED
      BY <3>1, <3>2, <3>3
  <2>2. \A j \in LiveIn(ns) : C(j) \subseteq marked \cup {b}
    BY <1>1, <1>3, <1>4, <1>5
  <2> QED
    BY <1>2, <2>1, <2>2 DEF Agree, C
<1>7. PICK e0 \in Entry : e0.dir = d /\ e0.block = b /\ e0.name = n /\ e0.ino = i
  BY <1>1, Entries
<1>8. e0 \in EntriesIn(ns2, bs2)
  BY <1>2, <1>4, <1>7 DEF EntriesIn
<1>9. ASSUME NEW e \in Entry, e # e0
       PROVE  e \in EntriesIn(ns2, bs2) <=> e \in EntriesIn(ns, bs)
  <2> SUFFICES ASSUME e.dir \in DirsIn(ns)
               PROVE  e \in EntriesIn(ns2, bs2) <=> e \in EntriesIn(ns, bs)
    BY <1>2 DEF EntriesIn
  <2>1. e.dir \in LiveIn(ns) /\ e.dir \in Inos /\ e.block \in Blocks /\ e.name \in Names /\ e.ino \in Inos
    BY <1>3, Entries
  <2>2. CASE e.block # b
    <3>1. e.block \in C(e.dir) <=> e.block \in B(e.dir)
      BY <1>4, <2>1, <2>2
    <3>2. bs2[e.block] = bs[e.block]
      BY <2>1, <2>2
    <3> QED
      BY <1>2, <3>1, <3>2 DEF EntriesIn
  <2>3. CASE e.block = b
    <3>1. e \notin EntriesIn(ns, bs)
      BY <1>5, <2>1, <2>3 DEF EntriesIn
    <3>2. ASSUME e \in EntriesIn(ns2, bs2) PROVE FALSE
      <4>1. b \in C(e.dir) /\ bs2[b].names[e.name] = e.ino
        BY <2>3, <3>2 DEF EntriesIn
      <4>2. e.dir = d
        BY <1>4, <1>5, <2>1, <4>1
      <4>3. e.name = n /\ e.ino = i
        BY <2>1, <4>1, Numbers
      <4> QED
        BY <1>7, <1>9, <2>3, <4>2, <4>3, Entries
    <3> QED
      BY <3>1, <3>2
  <2> QED
    BY <2>2, <2>3
<1>10. EntriesIn(ns2, bs2) = EntriesIn(ns, bs) \cup {e0}
  BY <1>8, <1>9 DEF EntriesIn
<1> QED
  BY <1>2, <1>6, <1>7, <1>10 DEF HasOneMore

\* A name is removed.
LEMMA RemovedName ==
    ASSUME NEW ns, NEW bs \in [Blocks -> Block], NEW bs2, NEW marked, NEW d, NEW b, NEW n,
           IsNamed(ns, bs, bs2, marked, d, b, n, 0), bs[b].names[n] # 0
    PROVE  \E e0 \in EntriesIn(ns, bs) : /\ e0.dir = d /\ e0.name = n
                                         /\ EntriesIn(ns, bs2) = EntriesIn(ns, bs) \ {e0}
<1> USE DEF IsNamed
<1>1. d \in Inos /\ ns[d].blocks \in Seq(Blocks) /\ b \in Blocks /\ d \in LiveIn(ns)
  <2>1. d \in Inos /\ d \in LiveIn(ns)
    BY DEF DirsIn, LiveIn
  <2>2. ns[d].blocks \in Seq(Blocks)
    BY <2>1 DEF Inode
  <2> QED
    BY <2>1, <2>2, Sets
<1>2. /\ bs2[b].names[n] = 0 /\ \A m \in Names \ {n} : bs2[b].names[m] = bs[b].names[m]
      /\ \A c \in Blocks \ {b} : bs2[c] = bs[c]
  OBVIOUS
<1>3. bs[b].names[n] \in Inos
  BY <1>1 DEF Block
<1>4. PICK e0 \in Entry : e0.dir = d /\ e0.block = b /\ e0.name = n /\ e0.ino = bs[b].names[n]
  <2>1. \A i \in Inos : \E e \in Entry : e.dir = d /\ e.block = b /\ e.name = n /\ e.ino = i
    BY <1>1, Entries
  <2> QED
    BY <1>3, <2>1
<1>5. \A j \in DirsIn(ns) : j # d => b \notin ToSet(ns[j].blocks)
  <2>1. \A j \in DirsIn(ns) : j \in LiveIn(ns)
    BY DEF DirsIn, LiveIn
  <2> QED
    BY <1>1, <2>1 DEF Agree
<1>6. e0 \in EntriesIn(ns, bs)
  BY <1>4 DEF EntriesIn
<1>7. e0 \notin EntriesIn(ns, bs2)
  BY <1>2, <1>4, Entries, Numbers DEF EntriesIn
<1>8. ASSUME NEW e \in Entry, e # e0
      PROVE  e \in EntriesIn(ns, bs2) <=> e \in EntriesIn(ns, bs)
  <2>1. CASE e.block # b
    BY <1>2, <2>1, Entries DEF EntriesIn
  <2>2. CASE e.block = b /\ e.name # n
    BY <1>2, <2>2, Entries DEF EntriesIn
  <2>3. CASE e.block = b /\ e.name = n
    <3>1. ASSUME e \in EntriesIn(ns, bs) PROVE FALSE
      <4>1. e.ino = bs[b].names[n] /\ e.dir = d
        BY <1>5, <2>3, <3>1 DEF EntriesIn
      <4> QED
        BY <1>4, <1>8, <2>3, <4>1, Entries
    <3>2. ASSUME e \in EntriesIn(ns, bs2) PROVE FALSE
      <4>1. e.ino = 0
        BY <1>2, <2>3, <3>2 DEF EntriesIn
      <4> QED
        BY <4>1, Entries, Numbers
    <3> QED
      BY <3>1, <3>2
  <2> QED
    BY <2>1, <2>2, <2>3
<1>9. EntriesIn(ns, bs2) = EntriesIn(ns, bs) \ {e0}
  BY <1>7, <1>8 DEF EntriesIn
<1> QED
  BY <1>4, <1>6, <1>9

IsFreed(ns, ns2, bs, bs2, marked, i) ==
    /\ i \in LiveIn(ns)
    /\ ns2[i].kind = "free" /\ \A j \in Inos \ {i} : ns2[j] = ns[j]
    /\ \A b \in Blocks \ ToSet(ns[i].blocks) : bs2[b] = bs[b]
    /\ Agree(ns, marked) /\ \A e \in EntriesIn(ns, bs) : e.dir # i

\* An inode without entries is freed.
LEMMA Freed ==
    ASSUME NEW ns, NEW ns2, NEW bs, NEW bs2, NEW marked, NEW i, IsFreed(ns, ns2, bs, bs2, marked, i)
    PROVE  /\ EntriesIn(ns2, bs2) = EntriesIn(ns, bs)
           /\ LiveIn(ns2) = LiveIn(ns) \ {i} /\ DirsIn(ns2) = DirsIn(ns) \ {i}
           /\ Agree(ns2, marked \ ToSet(ns[i].blocks))
<1> USE DEF IsFreed
<1>1. i \in Inos
  BY DEF LiveIn
<1>2. ns2[i].kind = "free" /\ \A j \in Inos \ {i} : ns2[j] = ns[j]
  OBVIOUS
<1>3. LiveIn(ns2) = LiveIn(ns) \ {i} /\ DirsIn(ns2) = DirsIn(ns) \ {i}
  BY <1>1, <1>2 DEF LiveIn, DirsIn
<1>4. DirsIn(ns) \subseteq LiveIn(ns) /\ LiveIn(ns) \subseteq Inos
  BY DEF DirsIn, LiveIn
<1> DEFINE B(j) == ToSet(ns[j].blocks)
<1>5. /\ \A j \in LiveIn(ns) : B(j) \subseteq marked
      /\ \A j \in LiveIn(ns), k \in LiveIn(ns) : j # k => B(j) \cap B(k) = {}
  BY DEF Agree
<1>6. \A j \in LiveIn(ns2) : j \in LiveIn(ns) /\ j # i /\ ns2[j] = ns[j]
  BY <1>2, <1>3, <1>4
<1>7. Agree(ns2, marked \ B(i))
  <2>1. ASSUME NEW j \in LiveIn(ns2)
        PROVE  /\ ToSet(ns2[j].blocks) \subseteq marked \ B(i)
               /\ \A k \in LiveIn(ns2) \ {j} : ToSet(ns2[j].blocks) \cap ToSet(ns2[k].blocks) = {}
    <3>1. ToSet(ns2[j].blocks) = B(j) /\ \A k \in LiveIn(ns2) : ToSet(ns2[k].blocks) = B(k)
      BY <1>6
    <3> HIDE DEF B
    <3>2. B(j) \subseteq marked \ B(i) /\ \A k \in LiveIn(ns2) \ {j} : B(j) \cap B(k) = {}
      BY <1>5, <1>6
    <3> QED
      BY <3>1, <3>2
  <2> QED
    BY <2>1 DEF Agree
<1>8. ASSUME NEW e \in Entry
      PROVE  e \in EntriesIn(ns2, bs2) <=> e \in EntriesIn(ns, bs)
  <2>1. CASE e.dir = i
    BY <1>3, <2>1 DEF EntriesIn
  <2>2. CASE e.dir # i /\ e.dir \in DirsIn(ns)
    <3>1. ns2[e.dir] = ns[e.dir] /\ e.dir \in DirsIn(ns2) /\ B(e.dir) \cap B(i) = {}
      BY <1>2, <1>3, <1>4, <1>5, <2>2
    <3>2. e.block \in B(e.dir) => bs2[e.block] = bs[e.block]
      BY <3>1, Entries
    <3> QED
      BY <2>2, <3>1, <3>2 DEF EntriesIn
  <2>3. CASE e.dir \notin DirsIn(ns)
    BY <1>3, <2>3 DEF EntriesIn
  <2> QED
    BY <2>1, <2>2, <2>3
<1>9. EntriesIn(ns2, bs2) = EntriesIn(ns, bs)
  BY <1>8 DEF EntriesIn
<1> QED
  BY <1>3, <1>7, <1>9

-----------------------------------------------------------------------------
(* The changes of a plan                                                    *)

\* The changes are of their types,
LEMMA Ops ==
    /\ \A i \in Inos : /\ [do |-> "file", ino |-> i] \in Op /\ [do |-> "drop", ino |-> i] \in Op
                       /\ [do |-> "free", ino |-> i] \in Op
                       /\ [do |-> "more", ino |-> i] \in Op /\ [do |-> "less", ino |-> i] \in Op
    /\ \A i \in Inos, p \in Inos : /\ [do |-> "dir", ino |-> i, parent |-> p] \in Op
                                   /\ [do |-> "dotdot", ino |-> i, parent |-> p] \in Op
    /\ \A d \in Inos, n \in Names, i \in Inos : [do |-> "link", dir |-> d, name |-> n, ino |-> i] \in Op
    /\ \A d \in Inos, n \in Names : [do |-> "remove", dir |-> d, name |-> n] \in Op
    /\ \A c \in Nat : [do |-> "flush", carrier |-> c] \in Op
  BY DEF Op

\* and so are their parts.
LEMMA OpParts ==
    \A op \in Op :
        /\ op.do \in {"file", "drop", "free", "more", "less", "dir", "dotdot"} => op.ino \in Inos
        /\ op.do \in {"dir", "dotdot"} => op.parent \in Inos
        /\ op.do = "link" => op.dir \in Inos /\ op.name \in Names /\ op.ino \in Inos
        /\ op.do = "remove" => op.dir \in Inos /\ op.name \in Names
  BY DEF Op

QuietPlan(s) == \A k \in DOMAIN s : Quiet(s[k])

\* A sync saves carriers and nothing else.
LEMMA SyncIs ==
    ASSUME home \in Layouts
    PROVE  Sync \in Seq(Op) /\ QuietPlan(Sync)
<1>1. home.carriers \in Nat
  BY NamespaceAssumption
<1>2. \A c \in 1..home.carriers : [do |-> "flush", carrier |-> c] \in Op
  <2>1. \A c \in 1..home.carriers : c \in Nat
    BY <1>1
  <2>2. \A c \in Nat : [do |-> "flush", carrier |-> c] \in Op
    BY Ops
  <2> QED
    BY <2>1, <2>2
<1>3. Sync \in Seq(Op)
  BY <1>1, <1>2 DEF Sync
<1>4. QuietPlan(Sync)
  BY DEF QuietPlan, Quiet, Sync
<1> QED
  BY <1>3, <1>4

\* Plans that change no tree, one after the other.
LEMMA QuietConcat ==
    ASSUME NEW s \in Seq(Op), NEW r \in Seq(Op), QuietPlan(s), QuietPlan(r)
    PROVE  s \o r \in Seq(Op) /\ QuietPlan(s \o r)
<1>1. /\ s \o r \in Seq(Op) /\ Len(s \o r) = Len(s) + Len(r) /\ Len(s) \in Nat /\ Len(r) \in Nat
      /\ DOMAIN s = 1..Len(s) /\ DOMAIN r = 1..Len(r) /\ DOMAIN (s \o r) = 1..Len(s) + Len(r)
      /\ \A k \in 1..Len(s) + Len(r) : (s \o r)[k] = IF k <= Len(s) THEN s[k] ELSE r[k - Len(s)]
  BY ConcatProperties
<1>2. ASSUME NEW k \in 1..Len(s) + Len(r) PROVE Quiet((s \o r)[k])
  <2>1. CASE k <= Len(s)
    BY <1>1, <2>1 DEF QuietPlan
  <2>2. CASE ~(k <= Len(s))
    <3>1. k - Len(s) \in 1..Len(r)
      BY <1>1, <2>2
    <3> QED
      BY <1>1, <2>2, <3>1 DEF QuietPlan
  <2> QED
    BY <2>1, <2>2
<1> QED
  BY <1>1, <1>2 DEF QuietPlan

\* The changes of a plan, and then more that the tree does not show.
LEMMA PlanOfTwo ==
    ASSUME NEW h \in Seq(Op), Len(h) > 1, \A k \in DOMAIN h \ {1, 2} : Quiet(h[k]),
           NEW s \in Seq(Op), QuietPlan(s)
    PROVE  /\ h \o s \in Seq(Op) /\ h \o s # <<>> /\ {1, 2} \subseteq DOMAIN (h \o s)
           /\ (h \o s)[1] = h[1] /\ (h \o s)[2] = h[2]
           /\ \A k \in DOMAIN (h \o s) \ {1, 2} : Quiet((h \o s)[k])
           /\ Len(h \o s) \in Nat /\ Len(h \o s) > 1 /\ DOMAIN (h \o s) = 1..Len(h \o s)
<1> DEFINE t == h \o s
<1>1. Len(h) \in Nat /\ DOMAIN h = 1..Len(h) /\ Len(s) \in Nat /\ DOMAIN s = 1..Len(s)
  OBVIOUS
<1>2. /\ t \in Seq(Op) /\ Len(t) = Len(h) + Len(s) /\ DOMAIN t = 1..Len(h) + Len(s)
      /\ \A k \in 1..Len(h) + Len(s) : t[k] = IF k <= Len(h) THEN h[k] ELSE s[k - Len(h)]
  BY ConcatProperties
<1> HIDE DEF t
<1>3. ASSUME NEW k \in (1..Len(h) + Len(s)) \ {1, 2} PROVE Quiet(t[k])
  <2>1. CASE k <= Len(h)
    BY <1>1, <1>2, <2>1
  <2>2. CASE ~(k <= Len(h))
    <3>1. k - Len(h) \in DOMAIN s
      BY <1>1, <2>2
    <3> QED
      BY <1>2, <2>2, <3>1 DEF QuietPlan
  <2> QED
    BY <2>1, <2>2
<1>4. t[1] = h[1] /\ t[2] = h[2] /\ {1, 2} \subseteq DOMAIN t /\ Len(t) \in Nat /\ Len(t) > 1
  BY <1>1, <1>2
<1> QED
  BY <1>2, <1>3, <1>4 DEF t

\* The plan of rename.
IsJoined(pre, h, s, t) ==
    /\ pre \in Seq(Op) /\ h \in Seq(Op) /\ Len(h) = 2 /\ s \in Seq(Op) /\ QuietPlan(s)
    /\ t = pre \o (h \o s)

\* Where the changes of a rename are in its plan.
LEMMA PlanOfMove ==
    ASSUME NEW pre, NEW h, NEW s, NEW t, IsJoined(pre, h, s, t)
    PROVE  /\ t \in Seq(Op) /\ Len(pre) \in Nat /\ Len(t) \in Nat /\ DOMAIN t = 1..Len(t) /\ t # <<>>
           /\ Len(t) > Len(pre) + 1
           /\ \A k \in 1..Len(pre) : t[k] = pre[k]
           /\ t[Len(pre) + 1] = h[1] /\ t[Len(pre) + 2] = h[2]
           /\ \A k \in DOMAIN t : k > Len(pre) + 2 => Quiet(t[k])
<1> DEFINE r == h \o s
           p == Len(pre)
<1> USE DEF IsJoined
<1>1. Len(h) > 1 /\ \A k \in DOMAIN h \ {1, 2} : Quiet(h[k])
  OBVIOUS
<1>2. /\ r \in Seq(Op) /\ r[1] = h[1] /\ r[2] = h[2] /\ \A k \in DOMAIN r \ {1, 2} : Quiet(r[k])
      /\ Len(r) \in Nat /\ Len(r) > 1 /\ DOMAIN r = 1..Len(r)
  BY <1>1, PlanOfTwo
<1>3. p \in Nat /\ t = pre \o r
  OBVIOUS
<1> HIDE DEF r
<1>4. /\ t \in Seq(Op) /\ Len(t) = p + Len(r) /\ DOMAIN t = 1..p + Len(r)
      /\ \A k \in 1..p + Len(r) : t[k] = IF k <= p THEN pre[k] ELSE r[k - p]
  BY <1>2, <1>3, ConcatProperties
<1> HIDE DEF p
<1>5. t[p + 1] = h[1] /\ t[p + 2] = h[2]
  <2>1. p + 1 \in 1..p + Len(r) /\ p + 2 \in 1..p + Len(r) /\ (p + 1) - p = 1 /\ (p + 2) - p = 2
        /\ ~(p + 1 <= p) /\ ~(p + 2 <= p)
    BY <1>2, <1>3
  <2> QED
    BY <1>2, <1>4, <2>1
<1>6. ASSUME NEW k \in 1..p + Len(r), k > p + 2 PROVE Quiet(t[k])
  <2>1. k - p \in DOMAIN r \ {1, 2} /\ ~(k <= p)
    BY <1>2, <1>3, <1>6
  <2> QED
    BY <1>2, <1>4, <2>1
<1>7. Len(t) \in Nat /\ Len(t) > p + 1 /\ t # <<>> /\ \A k \in 1..p : t[k] = pre[k]
  BY <1>2, <1>3, <1>4
<1> QED
  BY <1>3, <1>4, <1>5, <1>6, <1>7 DEF p

-----------------------------------------------------------------------------
(* The parts of the invariant                                               *)

MemoryTyped ==
    /\ inode \in [Inos -> Inode] /\ bitmap \subseteq Blocks /\ data \in [Blocks -> Block]
    /\ orphans \subseteq Inos /\ stale \subseteq Inos /\ miscounted \subseteq Inos

\* What is in memory is an image.
LEMMA MemoryIs == Memory \in Image <=> MemoryTyped
  BY DEF Memory, Image, MemoryTyped, Inode, Block

\* The parts of an image.
LEMMA ImageIs ==
    ASSUME NEW im \in Image
    PROVE  /\ im.inode \in [Inos -> Inode] /\ im.bitmap \subseteq Blocks /\ im.data \in [Blocks -> Block]
           /\ im.orphans \subseteq Inos /\ im.stale \subseteq Inos /\ im.miscounted \subseteq Inos
  BY DEF Image, Inode, Block

\* The invariant while memory is not torn.
LEMMA Here ==
    ASSUME NamespaceInv, ~torn
    PROVE  /\ MemoryTyped /\ home \in Layouts /\ Agree(inode, bitmap) /\ MemoryInTree(todo)
           /\ todo \in Seq(Op) /\ faults \in 0..MaxFaults
           /\ Live = LiveIn(inode) /\ Dirs = DirsIn(inode)
           /\ Root \in Dirs /\ Dirs \subseteq Live /\ Live \subseteq Inos
<1>1. Live = LiveIn(inode) /\ Dirs = DirsIn(inode) /\ Dirs \subseteq Live /\ Live \subseteq Inos
  BY DEF Live, Dirs, LiveIn, DirsIn
<1>2. MemoryTyped /\ home \in Layouts /\ faults \in 0..MaxFaults
  BY MemoryIs DEF NamespaceInv, TypeOK
<1>3. Agree(inode, bitmap) /\ MemoryInTree(todo) /\ todo \in Seq(Op)
  BY DEF NamespaceInv
<1> QED
  BY <1>1, <1>2, <1>3 DEF MemoryInTree, InTree

\* A step that changes what is in memory keeps the invariant if it keeps that part.
LEMMA MemoryStep ==
    ASSUME NamespaceInv, ~torn, UNCHANGED <<disk, whole, torn, home>>,
           faults' \in 0..MaxFaults, todo' \in Seq(Op), MemoryTyped',
           Agree(inode', bitmap'), MemoryInTree(todo)'
    PROVE  NamespaceInv'
<1>1. TypeOK'
  <2>1. Memory' \in Image
    BY DEF Memory, Image, MemoryTyped, Inode, Block
  <2> QED
    BY <2>1 DEF NamespaceInv, TypeOK
<1>2. (whole \/ home.table = home.bitmap => Agree(disk.inode, disk.bitmap))'
  BY DEF NamespaceInv
<1>3. (whole => DiskInTree)'
  BY DEF NamespaceInv, DiskInTree
<1> QED
  BY <1>1, <1>2, <1>3 DEF NamespaceInv

\* An operation begins.
LEMMA BeginStep ==
    ASSUME NamespaceInv, Idle, NEW plan \in Seq(Op), Begin(plan),
           InTree(EntriesIn(inode, data), LiveIn(inode), DirsIn(inode), orphans, plan)
    PROVE  NamespaceInv'
<1>1. ~torn
  BY DEF Idle
<1>2. MemoryTyped' /\ Agree(inode', bitmap') /\ faults' \in 0..MaxFaults
  BY <1>1, Here DEF Begin, MemoryTyped
<1>3. todo' = plan /\ UNCHANGED <<inode, data, orphans, disk, whole, torn, home>>
  BY DEF Begin
<1>4. MemoryInTree(todo)'
  BY <1>3 DEF MemoryInTree
<1> QED
  BY <1>1, <1>2, <1>3, <1>4, MemoryStep

\* lookup finds the entry there is.
LEMMA LookupIs ==
    ASSUME MemoryTyped, NEW d \in DirsIn(inode), NEW n \in Names
    PROVE  \/ Lookup(d, n) = 0 /\ \A e \in EntriesIn(inode, data) : ~(e.dir = d /\ e.name = n)
           \/ /\ Lookup(d, n) \in Inos
              /\ \E e \in EntriesIn(inode, data) : e.dir = d /\ e.name = n /\ e.ino = Lookup(d, n)
<1> DEFINE found == {b \in BlocksOf(d) : data[b].names[n] # 0}
<1>1. d \in Inos /\ BlocksOf(d) = ToSet(inode[d].blocks) /\ BlocksOf(d) \subseteq Blocks
  <2>1. d \in Inos
    BY DEF DirsIn
  <2>2. inode[d].blocks \in Seq(Blocks)
    BY <2>1 DEF MemoryTyped, Inode
  <2> QED
    BY <2>1, <2>2, Sets DEF BlocksOf
<1>2. CASE found = {}
  <2>1. Lookup(d, n) = 0
    BY <1>2 DEF Lookup
  <2>2. \A e \in EntriesIn(inode, data) : ~(e.dir = d /\ e.name = n)
    BY <1>1, <1>2, Entries, Numbers DEF EntriesIn
  <2> QED
    BY <2>1, <2>2
<1>3. CASE found # {}
  <2> DEFINE b == CHOOSE b \in found : TRUE
             i == data[b].names[n]
  <2>1. b \in found
    BY <1>3
  <2>2. Lookup(d, n) = i
    BY <1>3 DEF Lookup
  <2> HIDE DEF b
  <2>3. i \in Inos /\ b \in Blocks
    <3>1. data[b] \in Block /\ i # 0
      BY <1>1, <2>1 DEF MemoryTyped
    <3> QED
      BY <1>1, <2>1, <3>1 DEF Block
  <2> HIDE DEF i
  <2>4. PICK e \in Entry : e.dir = d /\ e.block = b /\ e.name = n /\ e.ino = i
    BY <1>1, <2>3, Entries
  <2>5. e \in EntriesIn(inode, data)
    BY <1>1, <2>1, <2>4 DEF EntriesIn, i
  <2> QED
    BY <2>2, <2>3, <2>4, <2>5
<1> QED
  BY <1>2, <1>3

\* The links of an inode are the entries with its number.
LEMMA LinksIs ==
    ASSUME MemoryTyped, NEW i \in Inos
    PROVE  /\ \A l \in Links(i) : \E e \in EntriesIn(inode, data) : e.ino = i /\ l = <<e.dir, e.block, e.name>>
           /\ \A e \in EntriesIn(inode, data) : e.ino = i => <<e.dir, e.block, e.name>> \in Links(i)
<1>1. \A d \in Dirs : d \in Inos /\ BlocksOf(d) \subseteq Blocks
  <2>1. \A d \in Dirs : d \in Inos /\ inode[d].blocks \in Seq(Blocks)
    BY DEF Dirs, MemoryTyped, Inode
  <2> QED
    BY <2>1, Sets DEF BlocksOf
<1>2. ASSUME NEW l \in Links(i)
      PROVE  \E e \in EntriesIn(inode, data) : e.ino = i /\ l = <<e.dir, e.block, e.name>>
  <2>1. PICK d \in Dirs : l \in {d} \X BlocksOf(d) \X Names
    BY DEF Links
  <2>2. l[1] = d /\ l[2] \in BlocksOf(d) /\ l[3] \in Names /\ l = <<l[1], l[2], l[3]>> /\ data[l[2]].names[l[3]] = i
    BY <2>1 DEF Links
  <2>3. d \in Inos /\ l[2] \in Blocks /\ d \in DirsIn(inode)
    BY <1>1, <2>2 DEF Dirs, DirsIn
  <2>4. PICK e \in Entry : e.dir = d /\ e.block = l[2] /\ e.name = l[3] /\ e.ino = i
    BY <2>2, <2>3, Entries
  <2>5. e \in EntriesIn(inode, data)
    BY <2>2, <2>3, <2>4 DEF EntriesIn, BlocksOf
  <2> QED
    BY <2>2, <2>4, <2>5
<1>3. ASSUME NEW e \in EntriesIn(inode, data), e.ino = i
      PROVE  <<e.dir, e.block, e.name>> \in Links(i)
  <2>1. e.dir \in Dirs /\ e.block \in BlocksOf(e.dir) /\ e.name \in Names /\ data[e.block].names[e.name] = i
    BY <1>3, Entries DEF EntriesIn, DirsIn, Dirs, BlocksOf
  <2> DEFINE l == <<e.dir, e.block, e.name>>
  <2>2. l \in {e.dir} \X BlocksOf(e.dir) \X Names /\ l[2] = e.block /\ l[3] = e.name
    BY <2>1
  <2> HIDE DEF l
  <2>3. l \in Links(i)
    BY <2>1, <2>2 DEF Links
  <2> QED
    BY <2>3 DEF l
<1> QED
  BY <1>2, <1>3

-----------------------------------------------------------------------------
(* The changes in memory                                                    *)

\* The first change of the plan.
LEMMA HeadIs ==
    ASSUME NamespaceInv, todo # <<>>
    PROVE  /\ ~torn /\ Rest(Tail(todo), todo) /\ Tail(todo) \in Seq(Op)
           /\ Head(todo) = todo[1] /\ todo[1] \in Op
           /\ InTree(EntriesIn(inode, data), LiveIn(inode), DirsIn(inode), orphans, todo)
<1>1. ~torn /\ todo \in Seq(Op)
  BY DEF NamespaceInv
<1>2. InTree(EntriesIn(inode, data), LiveIn(inode), DirsIn(inode), orphans, todo)
  BY <1>1 DEF NamespaceInv, MemoryInTree
<1> QED
  BY <1>1, <1>2, RestIs

\* The allocator gives a free block.
LEMMA FirstFreeBlock ==
    ASSUME NamespaceInv, FreeBlocks # {}
    PROVE  Min(FreeBlocks) \in Blocks \ bitmap
<1>1. FreeBlocks \in SUBSET Nat
  BY Numbers DEF FreeBlocks
<1> QED
  BY <1>1, MinIsLeast DEF FreeBlocks

\* An inode that is to be made is free.
LEMMA MakesFree ==
    ASSUME NamespaceInv, todo # <<>>, Makes(todo[1])
    PROVE  todo[1].ino \in Inos \ LiveIn(inode)
<1>1. InTree(EntriesIn(inode, data), LiveIn(inode), DirsIn(inode), orphans, todo) /\ 1 \in DOMAIN todo
  BY HeadIs DEF Rest
<1>2. todo[1].ino \notin LiveIn(inode)
  BY <1>1 DEF InTree, PlanOK, MakesOK
<1> QED
  BY <1>2, HeadIs, OpParts DEF Makes

\* create writes its inode: the change,
LEMMA WriteFileInodeIs ==
    ASSUME NamespaceInv, WriteFileInode
    PROVE  /\ todo # <<>> /\ todo[1].do = "file" /\ Makes(todo[1]) /\ todo' = Tail(todo) /\ ~torn
           /\ UNCHANGED <<bitmap, data, disk, orphans, stale, miscounted, whole, torn, faults, home>>
           /\ inode' \in [Inos -> Inode]
           /\ \A j \in Inos \ {todo[1].ino} : inode'[j] = inode[j]
           /\ EntriesIn(inode', data) = EntriesIn(inode, data)
           /\ LiveIn(inode') = LiveIn(inode) \cup {todo[1].ino} /\ DirsIn(inode') = DirsIn(inode)
           /\ Agree(inode', bitmap)
<1>1. /\ todo # <<>> /\ Head(todo).do = "file" /\ todo' = Tail(todo)
      /\ UNCHANGED <<bitmap, data, disk, orphans, stale, miscounted, whole, torn, faults, home>>
  BY DEF WriteFileInode, Doing, Step, Advance
<1>2. Makes(todo[1]) /\ Head(todo) = todo[1]
  BY <1>1, HeadIs DEF Makes
<1> DEFINE i == todo[1].ino
<1>3. i \in Inos \ LiveIn(inode)
  BY <1>1, <1>2, MakesFree
<1>4. ~torn /\ MemoryTyped /\ Agree(inode, bitmap) /\ faults \in 0..MaxFaults
  BY <1>1, Here, HeadIs
<1> HIDE DEF i
<1>5. inode' = [inode EXCEPT ![i] = [kind |-> "file", nlink |-> 1, blocks |-> <<>>]]
  BY <1>2 DEF WriteFileInode, i
<1>6. /\ inode' \in [Inos -> Inode]
      /\ inode'[i].kind = "file" /\ inode'[i].blocks = <<>> /\ \A j \in Inos \ {i} : inode'[j] = inode[j]
  BY <1>3, <1>4, <1>5 DEF MemoryTyped, Inode
<1>7. /\ EntriesIn(inode', data) = EntriesIn(inode, data)
      /\ LiveIn(inode') = LiveIn(inode) \cup {i} /\ DirsIn(inode') = DirsIn(inode)
      /\ Agree(inode', bitmap)
  BY <1>3, <1>4, <1>6, MadeFile
<1> QED
  BY <1>1, <1>2, <1>4, <1>6, <1>7 DEF i

\* and the invariant after it.
LEMMA WriteFileInodeStep ==
    ASSUME NamespaceInv, WriteFileInode
    PROVE  NamespaceInv'
<1> DEFINE i == todo[1].ino
<1>1. /\ todo # <<>> /\ Makes(todo[1]) /\ todo' = Tail(todo) /\ ~torn
      /\ UNCHANGED <<bitmap, data, disk, orphans, stale, miscounted, whole, torn, faults, home>>
      /\ inode' \in [Inos -> Inode]
      /\ EntriesIn(inode', data) = EntriesIn(inode, data)
      /\ LiveIn(inode') = LiveIn(inode) \cup {i} /\ DirsIn(inode') = DirsIn(inode)
      /\ Agree(inode', bitmap)
  BY WriteFileInodeIs
<1>2. MemoryTyped /\ faults \in 0..MaxFaults
  BY <1>1, Here
<1>3. InTree(EntriesIn(inode, data), LiveIn(inode) \cup {i}, DirsIn(inode), orphans, Tail(todo))
  BY <1>1, HeadIs, AfterMaking
<1> HIDE DEF i
<1>4. MemoryInTree(todo)'
  BY <1>1, <1>3 DEF MemoryInTree
<1>5. MemoryTyped' /\ Agree(inode', bitmap')
  BY <1>1, <1>2 DEF MemoryTyped
<1>6. todo' \in Seq(Op) /\ faults' \in 0..MaxFaults
  BY <1>1, <1>2, HeadIs
<1> QED
  BY <1>1, <1>4, <1>5, <1>6, MemoryStep

\* mkdir writes its inode and a first block: the change,
LEMMA MakeDirectoryIs ==
    ASSUME NamespaceInv, MakeDirectory
    PROVE  /\ todo # <<>> /\ todo[1].do = "dir" /\ Makes(todo[1]) /\ todo' = Tail(todo) /\ ~torn
           /\ UNCHANGED <<disk, orphans, stale, miscounted, whole, torn, faults, home>>
           /\ inode' \in [Inos -> Inode] /\ data' \in [Blocks -> Block] /\ bitmap' \subseteq Blocks
           /\ \A j \in Inos \ {todo[1].ino} : inode'[j] = inode[j]
           /\ \A c \in bitmap : data'[c] = data[c]
           /\ inode'[todo[1].ino].nlink = 2 /\ inode'[todo[1].ino].blocks # <<>>
           /\ data'[Head(inode'[todo[1].ino].blocks)].dotdot = todo[1].parent
           /\ EntriesIn(inode', data') = EntriesIn(inode, data)
           /\ LiveIn(inode') = LiveIn(inode) \cup {todo[1].ino}
           /\ DirsIn(inode') = DirsIn(inode) \cup {todo[1].ino}
           /\ Agree(inode', bitmap')
<1> DEFINE i == todo[1].ino
           p == todo[1].parent
           b == Min(FreeBlocks)
<1>1. /\ todo # <<>> /\ Head(todo).do = "dir" /\ todo' = Tail(todo) /\ FreeBlocks # {}
      /\ UNCHANGED <<disk, orphans, stale, miscounted, whole, torn, faults, home>>
  BY DEF MakeDirectory, Doing, Step, Advance, CanAllocate
<1>2. Makes(todo[1]) /\ Head(todo) = todo[1] /\ p \in Inos
  BY <1>1, HeadIs, OpParts DEF Makes
<1>3. i \in Inos \ LiveIn(inode) /\ b \in Blocks \ bitmap
  BY <1>1, <1>2, MakesFree, FirstFreeBlock
<1>4. /\ bitmap' = bitmap \cup {b}
      /\ data' = [data EXCEPT ![b] = [ZeroBlock EXCEPT !.dotdot = p]]
      /\ inode' = [inode EXCEPT ![i] = [kind |-> "dir", nlink |-> 2, blocks |-> <<b>>]]
  BY <1>2 DEF MakeDirectory
<1>5. ~torn /\ MemoryTyped /\ Agree(inode, bitmap) /\ faults \in 0..MaxFaults
  BY <1>1, Here, HeadIs
<1> HIDE DEF i, p, b
<1>6. /\ inode' \in [Inos -> Inode]
      /\ inode'[i].kind = "dir" /\ ToSet(inode'[i].blocks) = {b} /\ \A j \in Inos \ {i} : inode'[j] = inode[j]
      /\ data' \in [Blocks -> Block]
      /\ \A n \in Names : data'[b].names[n] = 0
      /\ \A c \in Blocks \ {b} : data'[c] = data[c]
  <2> DEFINE z == [ZeroBlock EXCEPT !.dotdot = p]
  <2>1. z \in Block /\ \A n \in Names : z.names[n] = 0
    BY <1>2, Zeros
  <2> HIDE DEF z
  <2>2. data' = [data EXCEPT ![b] = z] /\ data \in [Blocks -> Block] /\ inode \in [Inos -> Inode]
    BY <1>4, <1>5 DEF MemoryTyped, z
  <2>3. [kind |-> "dir", nlink |-> 2, blocks |-> <<b>>] \in Inode
    BY <1>3 DEF Inode
  <2>4. ToSet(<<b>>) = {b}
    BY <1>3, Sets
  <2> QED
    BY <1>3, <1>4, <2>1, <2>2, <2>3, <2>4
<1>7. /\ EntriesIn(inode', data') = EntriesIn(inode, data)
      /\ LiveIn(inode') = LiveIn(inode) \cup {i} /\ DirsIn(inode') = DirsIn(inode) \cup {i}
      /\ Agree(inode', bitmap \cup {b})
  <2>1. IsMadeDirectory(inode, inode', data, data', bitmap, i, b)
    BY <1>3, <1>5, <1>6 DEF IsMadeDirectory
  <2> QED
    BY <2>1, MadeDirectory
<1>8. bitmap' \subseteq Blocks /\ Agree(inode', bitmap') /\ \A c \in bitmap : data'[c] = data[c]
  BY <1>3, <1>4, <1>5, <1>6, <1>7 DEF MemoryTyped
<1>9. inode'[i].nlink = 2 /\ inode'[i].blocks # <<>> /\ data'[Head(inode'[i].blocks)].dotdot = p
  <2>1. inode'[i] = [kind |-> "dir", nlink |-> 2, blocks |-> <<b>>]
    BY <1>3, <1>4, <1>5 DEF MemoryTyped
  <2>2. data'[b].dotdot = p
    BY <1>3, <1>4, <1>5 DEF MemoryTyped, ZeroBlock
  <2> QED
    BY <2>1, <2>2
<1>10. todo[1].do = "dir" /\ inode' \in [Inos -> Inode] /\ data' \in [Blocks -> Block]
       /\ \A j \in Inos \ {i} : inode'[j] = inode[j]
  BY <1>1, <1>2, <1>6
<1> QED
  BY <1>1, <1>2, <1>5, <1>7, <1>8, <1>9, <1>10 DEF i, p

\* and the invariant after it.
LEMMA MakeDirectoryStep ==
    ASSUME NamespaceInv, MakeDirectory
    PROVE  NamespaceInv'
<1> DEFINE i == todo[1].ino
<1>1. /\ todo # <<>> /\ Makes(todo[1]) /\ todo' = Tail(todo) /\ ~torn
      /\ UNCHANGED <<disk, orphans, stale, miscounted, whole, torn, faults, home>>
      /\ inode' \in [Inos -> Inode] /\ data' \in [Blocks -> Block] /\ bitmap' \subseteq Blocks
      /\ EntriesIn(inode', data') = EntriesIn(inode, data)
      /\ LiveIn(inode') = LiveIn(inode) \cup {i} /\ DirsIn(inode') = DirsIn(inode) \cup {i}
      /\ Agree(inode', bitmap')
  BY MakeDirectoryIs
<1>2. MemoryTyped /\ faults \in 0..MaxFaults
  BY <1>1, Here
<1>3. InTree(EntriesIn(inode, data), LiveIn(inode) \cup {i}, DirsIn(inode) \cup {i}, orphans, Tail(todo))
  BY <1>1, HeadIs, AfterMaking
<1> HIDE DEF i
<1>4. MemoryInTree(todo)'
  BY <1>1, <1>3 DEF MemoryInTree
<1>5. MemoryTyped'
  BY <1>1, <1>2 DEF MemoryTyped
<1>6. todo' \in Seq(Op) /\ faults' \in 0..MaxFaults
  BY <1>1, <1>2, HeadIs
<1> QED
  BY <1>1, <1>4, <1>5, <1>6, MemoryStep

\* What add_dir_entry is called with.
LEMMA LinkHead ==
    ASSUME NamespaceInv, Doing("link")
    PROVE  /\ todo # <<>> /\ ~torn /\ Head(todo) = todo[1] /\ todo[1].do = "link"
           /\ todo[1].dir \in DirsIn(inode) /\ todo[1].name \in Names /\ todo[1].ino \in Inos
           /\ \A e \in EntriesIn(inode, data) : ~(e.dir = todo[1].dir /\ e.name = todo[1].name)
<1>1. todo # <<>> /\ ~torn /\ Head(todo) = todo[1] /\ todo[1].do = "link"
  BY HeadIs DEF Doing
<1>2. InTree(EntriesIn(inode, data), LiveIn(inode), DirsIn(inode), orphans, todo) /\ 1 \in DOMAIN todo
  BY <1>1, HeadIs DEF Rest
<1>3. todo[1].dir \in DirsIn(inode) /\ \A e \in EntriesIn(inode, data) : ~Of(e, todo[1])
  BY <1>1, <1>2 DEF InTree, PlanOK, LinksOK
<1>4. todo[1].name \in Names /\ todo[1].ino \in Inos
  BY <1>1, HeadIs, OpParts
<1> QED
  BY <1>1, <1>3, <1>4 DEF Of

\* The name is in the tree, wherever it was put; link counts, parent entries and the
\* first block of a directory stay.
IsLinked(ns, ns2, bs, bs2, marked, op) ==
    /\ ns2 \in [Inos -> Inode] /\ bs2 \in [Blocks -> Block]
    /\ \E e0 \in Entry : /\ e0.dir = op.dir /\ e0.name = op.name /\ e0.ino = op.ino
                         /\ EntriesIn(ns2, bs2) = EntriesIn(ns, bs) \cup {e0}
    /\ LiveIn(ns2) = LiveIn(ns) /\ DirsIn(ns2) = DirsIn(ns)
    /\ \A j \in Inos : /\ ns2[j].nlink = ns[j].nlink
                       /\ ns2[j].blocks = ns[j].blocks \/ \E b : ns2[j].blocks = Append(ns[j].blocks, b)
    /\ \A c \in marked : bs2[c].dotdot = bs[c].dotdot

\* add_dir_entry, in whatever block.
LEMMA LinkedStep ==
    ASSUME NamespaceInv, Doing("link"), Step,
           IsLinked(inode, inode', data, data', bitmap, todo[1]),
           Agree(inode', bitmap'), bitmap' \subseteq Blocks
    PROVE  NamespaceInv'
<1>1. /\ todo # <<>> /\ todo[1].do = "link" /\ ~torn /\ todo' = Tail(todo)
      /\ UNCHANGED <<disk, orphans, stale, miscounted, whole, torn, faults, home>>
  BY LinkHead DEF Step, Advance
<1>2. MemoryTyped /\ faults \in 0..MaxFaults
  BY <1>1, Here
<1>3. PICK e0 \in Entry : /\ Of(e0, todo[1]) /\ e0.ino = todo[1].ino
                          /\ EntriesIn(inode', data') = EntriesIn(inode, data) \cup {e0}
  BY DEF IsLinked, Of
<1>4. InTree(EntriesIn(inode, data) \cup {e0}, LiveIn(inode), DirsIn(inode), orphans, Tail(todo))
  BY <1>1, <1>3, HeadIs, AfterLink
<1>5. /\ LiveIn(inode') = LiveIn(inode) /\ DirsIn(inode') = DirsIn(inode)
      /\ inode' \in [Inos -> Inode] /\ data' \in [Blocks -> Block]
  BY DEF IsLinked
<1>6. MemoryInTree(todo)'
  BY <1>1, <1>3, <1>4, <1>5 DEF MemoryInTree
<1>7. MemoryTyped'
  BY <1>1, <1>2, <1>5 DEF MemoryTyped
<1>8. todo' \in Seq(Op) /\ faults' \in 0..MaxFaults
  BY <1>1, <1>2, HeadIs
<1> QED
  BY <1>1, <1>6, <1>7, <1>8, MemoryStep

\* add_dir_entry where a block has room: the change,
LEMMA LinkInRoomIs ==
    ASSUME NamespaceInv, LinkInRoom
    PROVE  /\ Doing("link") /\ Step /\ IsLinked(inode, inode', data, data', bitmap, todo[1])
           /\ Agree(inode', bitmap') /\ bitmap' \subseteq Blocks
<1> DEFINE d == todo[1].dir
           n == todo[1].name
           i == todo[1].ino
           b == inode[d].blocks[Min(Roomy(d))]
<1>1. Doing("link") /\ Step /\ Head(todo) = todo[1] /\ UNCHANGED <<inode, bitmap>> /\ ~torn
  BY LinkHead DEF LinkInRoom
<1>2. data' = [data EXCEPT ![b].names[n] = i] /\ Roomy(d) # {}
  BY <1>1 DEF LinkInRoom
<1>3. /\ d \in DirsIn(inode) /\ n \in Names /\ i \in Inos
      /\ \A e \in EntriesIn(inode, data) : ~(e.dir = d /\ e.name = n)
  BY <1>1, LinkHead
<1>4. MemoryTyped /\ Agree(inode, bitmap)
  BY <1>1, Here
<1>5. b \in ToSet(inode[d].blocks) /\ b \in Blocks
  <2>1. d \in Inos
    BY <1>3 DEF DirsIn
  <2>2. inode[d].blocks \in Seq(Blocks)
    BY <1>4, <2>1 DEF MemoryTyped, Inode
  <2>3. Roomy(d) \in SUBSET DOMAIN inode[d].blocks /\ DOMAIN inode[d].blocks \subseteq Nat
    <3>1. Roomy(d) \in SUBSET DOMAIN inode[d].blocks
      BY Zenon DEF Roomy
    <3>2. \A q \in Seq(Blocks) : DOMAIN q \subseteq Nat
      OBVIOUS
    <3> QED
      BY <2>2, <3>1, <3>2
  <2>4. Min(Roomy(d)) \in DOMAIN inode[d].blocks
    <3>1. Roomy(d) \in SUBSET Nat
      BY <2>3
    <3> QED
      BY <1>2, <2>3, <3>1, MinIsLeast
  <2> QED
    BY <2>2, <2>4 DEF ToSet
<1> HIDE DEF d, n, i, b
<1>6. /\ data' \in [Blocks -> Block]
      /\ data'[b].names[n] = i /\ \A m \in Names \ {n} : data'[b].names[m] = data[b].names[m]
      /\ \A c \in Blocks \ {b} : data'[c] = data[c]
      /\ data'[b].dotdot = data[b].dotdot
  BY <1>2, <1>3, <1>4, <1>5 DEF MemoryTyped, Block
<1>7. IsNamed(inode, data, data', bitmap, d, b, n, i)
  BY <1>3, <1>4, <1>5, <1>6 DEF MemoryTyped, IsNamed
<1>8. PICK e0 \in Entry : /\ e0.dir = d /\ e0.name = n /\ e0.ino = i
                          /\ EntriesIn(inode, data') = EntriesIn(inode, data) \cup {e0}
  BY <1>3, <1>7, AddedInRoom
<1>9. EntriesIn(inode', data') = EntriesIn(inode, data) \cup {e0} /\ LiveIn(inode') = LiveIn(inode)
      /\ DirsIn(inode') = DirsIn(inode) /\ Agree(inode', bitmap')
      /\ inode' \in [Inos -> Inode] /\ bitmap' \subseteq Blocks
      /\ \A j \in Inos : inode'[j].nlink = inode[j].nlink /\ inode'[j].blocks = inode[j].blocks
  BY <1>1, <1>4, <1>8 DEF MemoryTyped
<1>10. \A c \in bitmap : data'[c].dotdot = data[c].dotdot
  BY <1>4, <1>6 DEF MemoryTyped
<1>11. IsLinked(inode, inode', data, data', bitmap, todo[1])
  BY <1>6, <1>8, <1>9, <1>10 DEF IsLinked, d, n, i
<1> QED
  BY <1>1, <1>9, <1>11

\* and the invariant after it.
LEMMA LinkInRoomStep ==
    ASSUME NamespaceInv, LinkInRoom
    PROVE  NamespaceInv'
  BY LinkInRoomIs, LinkedStep

\* add_dir_entry in a block of its own: the change,
LEMMA LinkInNewBlockIs ==
    ASSUME NamespaceInv, LinkInNewBlock
    PROVE  /\ Doing("link") /\ Step /\ IsLinked(inode, inode', data, data', bitmap, todo[1])
           /\ Agree(inode', bitmap') /\ bitmap' \subseteq Blocks
<1> DEFINE d == todo[1].dir
           n == todo[1].name
           i == todo[1].ino
           b == Min(FreeBlocks)
<1>1. Doing("link") /\ Step /\ Head(todo) = todo[1] /\ ~torn /\ FreeBlocks # {}
  BY LinkHead DEF LinkInNewBlock, CanAllocate
<1>2. /\ bitmap' = bitmap \cup {b}
      /\ data' = [data EXCEPT ![b] = [ZeroBlock EXCEPT !.names[n] = i]]
      /\ inode' = [inode EXCEPT ![d].blocks = Append(@, b)]
  BY <1>1 DEF LinkInNewBlock
<1>3. /\ d \in DirsIn(inode) /\ n \in Names /\ i \in Inos
      /\ \A e \in EntriesIn(inode, data) : ~(e.dir = d /\ e.name = n)
  BY <1>1, LinkHead
<1>4. MemoryTyped /\ Agree(inode, bitmap)
  BY <1>1, Here
<1>5. b \in Blocks \ bitmap
  BY <1>1, FirstFreeBlock
<1> HIDE DEF d, n, i, b
<1>6. /\ d \in Inos /\ inode \in [Inos -> Inode] /\ inode[d] \in Inode /\ inode[d].blocks \in Seq(Blocks)
      /\ data \in [Blocks -> Block]
  <2>1. d \in Inos /\ inode \in [Inos -> Inode] /\ data \in [Blocks -> Block]
    BY <1>3, <1>4 DEF DirsIn, MemoryTyped
  <2> QED
    BY <2>1 DEF Inode
<1>7. /\ inode'[d].kind = inode[d].kind /\ inode'[d].blocks = Append(inode[d].blocks, b)
      /\ inode'[d].nlink = inode[d].nlink
      /\ \A j \in Inos \ {d} : inode'[j] = inode[j]
      /\ inode' \in [Inos -> Inode]
  <2>1. Append(inode[d].blocks, b) \in Seq(Blocks)
    BY <1>5, <1>6
  <2>2. [inode[d] EXCEPT !.blocks = Append(inode[d].blocks, b)] \in Inode
    BY <1>6, <2>1 DEF Inode
  <2>3. inode' = [inode EXCEPT ![d] = [inode[d] EXCEPT !.blocks = Append(inode[d].blocks, b)]]
    BY <1>2, <1>6
  <2>4. inode'[d] = [inode[d] EXCEPT !.blocks = Append(inode[d].blocks, b)] /\ \A j \in Inos \ {d} : inode'[j] = inode[j]
    BY <1>6, <2>3
  <2>5. inode' \in [Inos -> Inode]
    BY <1>6, <2>2, <2>3
  <2> QED
    BY <1>6, <2>4, <2>5 DEF Inode
<1>8. /\ data'[b].names[n] = i /\ \A m \in Names \ {n} : data'[b].names[m] = 0
      /\ \A c \in Blocks \ {b} : data'[c] = data[c]
      /\ data' \in [Blocks -> Block]
  <2> DEFINE z == [ZeroBlock EXCEPT !.names[n] = i]
  <2>1. z \in Block /\ z.names[n] = i /\ \A m \in Names \ {n} : z.names[m] = 0
    BY <1>3 DEF Block, ZeroBlock
  <2>2. data' = [data EXCEPT ![b] = z]
    BY <1>2
  <2> HIDE DEF z
  <2> QED
    BY <1>5, <1>6, <2>1, <2>2
<1>9. IsAddedInNewBlock(inode, inode', data, data', bitmap, d, b, n, i)
  BY <1>3, <1>4, <1>5, <1>6, <1>7, <1>8 DEF IsAddedInNewBlock
<1>10. HasOneMore(inode, inode', data, data', bitmap \cup {b}, d, n, i)
  BY <1>9, AddedInNewBlock
<1>11. PICK e0 \in Entry : /\ e0.dir = d /\ e0.name = n /\ e0.ino = i
                           /\ EntriesIn(inode', data') = EntriesIn(inode, data) \cup {e0}
  BY <1>10 DEF HasOneMore
<1>12. Agree(inode', bitmap') /\ bitmap' \subseteq Blocks
  BY <1>2, <1>4, <1>5, <1>10 DEF MemoryTyped, HasOneMore
<1>13. \A j \in Inos : /\ inode'[j].nlink = inode[j].nlink
                       /\ inode'[j].blocks = inode[j].blocks \/ \E c : inode'[j].blocks = Append(inode[j].blocks, c)
  BY <1>7
<1>14. \A c \in bitmap : data'[c].dotdot = data[c].dotdot
  BY <1>4, <1>5, <1>8 DEF MemoryTyped
<1>15. IsLinked(inode, inode', data, data', bitmap, todo[1])
  BY <1>7, <1>8, <1>10, <1>11, <1>13, <1>14 DEF IsLinked, HasOneMore, d, n, i
<1> QED
  BY <1>1, <1>12, <1>15

\* and the invariant after it.
LEMMA LinkInNewBlockStep ==
    ASSUME NamespaceInv, LinkInNewBlock
    PROVE  NamespaceInv'
  BY LinkInNewBlockIs, LinkedStep

\* remove_dir_entry: the change,
LEMMA RemoveNameIs ==
    ASSUME NamespaceInv, RemoveName
    PROVE  /\ todo # <<>> /\ todo[1].do = "remove" /\ todo' = Tail(todo) /\ ~torn
           /\ UNCHANGED <<inode, bitmap, disk, orphans, stale, miscounted, whole, torn, faults, home>>
           /\ data' \in [Blocks -> Block] /\ \A c \in Blocks : data'[c].dotdot = data[c].dotdot
           /\ \E e0 \in EntriesIn(inode, data) : /\ Of(e0, todo[1])
                                                 /\ EntriesIn(inode, data') = EntriesIn(inode, data) \ {e0}
<1> DEFINE d == todo[1].dir
           n == todo[1].name
           b == CHOOSE x \in BlocksOf(d) : data[x].names[n] # 0
           es == EntriesIn(inode, data)
<1>1. /\ todo # <<>> /\ Head(todo) = todo[1] /\ todo[1].do = "remove" /\ todo' = Tail(todo) /\ ~torn
      /\ UNCHANGED <<inode, bitmap, disk, orphans, stale, miscounted, whole, torn, faults, home>>
  BY HeadIs DEF RemoveName, Doing, Step, Advance
<1>2. data' = [data EXCEPT ![b].names[n] = 0]
  BY <1>1 DEF RemoveName
<1>3. MemoryTyped /\ Agree(inode, bitmap) /\ faults \in 0..MaxFaults
  BY <1>1, Here
<1>4. PICK e1 \in es : e1.dir = d /\ e1.name = n
  <2>1. InTree(es, LiveIn(inode), DirsIn(inode), orphans, todo) /\ 1 \in DOMAIN todo
    BY <1>1, HeadIs DEF Rest
  <2>2. \E e \in es : Of(e, todo[1])
    BY <1>1, <2>1 DEF InTree, PlanOK, RemovesOK
  <2> QED
    BY <2>2 DEF Of
<1>5. n \in Names /\ d \in DirsIn(inode) /\ e1.block \in BlocksOf(d) /\ data[e1.block].names[n] # 0
  BY <1>4, Entries, Numbers DEF EntriesIn, BlocksOf
<1>6. b \in BlocksOf(d) /\ data[b].names[n] # 0
  BY <1>5
<1>7. b \in ToSet(inode[d].blocks) /\ b \in Blocks
  <2>1. d \in Inos
    BY <1>5 DEF DirsIn
  <2>2. inode[d].blocks \in Seq(Blocks)
    BY <1>3, <2>1 DEF MemoryTyped, Inode
  <2> QED
    BY <1>6, <2>2, Sets DEF BlocksOf
<1> HIDE DEF b, d, n
<1>8. /\ data' \in [Blocks -> Block] /\ data \in [Blocks -> Block]
      /\ data'[b].names[n] = 0 /\ \A m \in Names \ {n} : data'[b].names[m] = data[b].names[m]
      /\ \A c \in Blocks \ {b} : data'[c] = data[c]
      /\ data'[b].dotdot = data[b].dotdot
  BY <1>2, <1>3, <1>5, <1>7 DEF MemoryTyped, Block
<1>9. IsNamed(inode, data, data', bitmap, d, b, n, 0)
  BY <1>3, <1>5, <1>7, <1>8 DEF MemoryTyped, IsNamed
<1>10. PICK e0 \in es : e0.dir = d /\ e0.name = n /\ EntriesIn(inode, data') = es \ {e0}
  BY <1>6, <1>8, <1>9, RemovedName
<1>11. Of(e0, todo[1])
  BY <1>10 DEF Of, d, n
<1>12. \A c \in Blocks : data'[c].dotdot = data[c].dotdot
  BY <1>8
<1> QED
  BY <1>1, <1>8, <1>10, <1>11, <1>12

\* and the invariant after it.
LEMMA RemoveNameStep ==
    ASSUME NamespaceInv, RemoveName
    PROVE  NamespaceInv'
<1>1. /\ todo # <<>> /\ todo[1].do = "remove" /\ todo' = Tail(todo) /\ ~torn
      /\ UNCHANGED <<inode, bitmap, disk, orphans, stale, miscounted, whole, torn, faults, home>>
      /\ data' \in [Blocks -> Block]
  BY RemoveNameIs
<1>2. MemoryTyped /\ Agree(inode, bitmap) /\ faults \in 0..MaxFaults
  BY <1>1, Here
<1>3. PICK e0 \in EntriesIn(inode, data) : /\ Of(e0, todo[1])
                                          /\ EntriesIn(inode, data') = EntriesIn(inode, data) \ {e0}
  BY RemoveNameIs
<1>4. InTree(EntriesIn(inode, data) \ {e0}, LiveIn(inode), DirsIn(inode), orphans, Tail(todo))
  BY <1>1, <1>3, HeadIs, AfterRemove
<1>5. MemoryInTree(todo)'
  BY <1>1, <1>3, <1>4 DEF MemoryInTree
<1>6. MemoryTyped' /\ Agree(inode', bitmap')
  BY <1>1, <1>2 DEF MemoryTyped
<1>7. todo' \in Seq(Op) /\ faults' \in 0..MaxFaults
  BY <1>1, <1>2, HeadIs
<1> QED
  BY <1>1, <1>5, <1>6, <1>7, MemoryStep

\* The inode and its blocks are given back: the change,
LEMMA FreeIs ==
    ASSUME NamespaceInv, FreeInodeAndBlocks
    PROVE  /\ todo # <<>> /\ Unlinks(todo[1]) /\ todo' = Tail(todo) /\ ~torn
           /\ UNCHANGED <<disk, orphans, whole, torn, faults, home>>
           /\ stale' = stale \ {todo[1].ino} /\ miscounted' = miscounted \ {todo[1].ino}
           /\ inode' \in [Inos -> Inode] /\ data' \in [Blocks -> Block] /\ bitmap' \subseteq Blocks
           /\ todo[1].ino \in LiveIn(inode)
           /\ \A j \in Inos \ {todo[1].ino} : inode'[j] = inode[j]
           /\ \A b \in Blocks \ ToSet(inode[todo[1].ino].blocks) : data'[b] = data[b]
           /\ EntriesIn(inode', data') = EntriesIn(inode, data)
           /\ LiveIn(inode') = LiveIn(inode) \ {todo[1].ino} /\ DirsIn(inode') = DirsIn(inode) \ {todo[1].ino}
           /\ Agree(inode', bitmap')
<1> DEFINE i  == todo[1].ino
           bl == ToSet(inode[i].blocks)
<1>1. /\ todo # <<>> /\ Head(todo) = todo[1] /\ Unlinks(todo[1]) /\ todo' = Tail(todo) /\ ~torn
      /\ UNCHANGED <<disk, orphans, whole, torn, faults, home>>
      /\ stale' = stale \ {todo[1].ino} /\ miscounted' = miscounted \ {todo[1].ino}
  BY HeadIs DEF FreeInodeAndBlocks, Doing, Advance, Unlinks
<1>2. /\ bitmap' = bitmap \ bl
      /\ inode' = [inode EXCEPT ![i] = FreeInode]
      /\ data' = [b \in Blocks |-> IF b \in bl THEN ZeroBlock ELSE data[b]]
  BY <1>1 DEF FreeInodeAndBlocks, BlocksOf
<1>3. MemoryTyped /\ Agree(inode, bitmap) /\ faults \in 0..MaxFaults
  BY <1>1, Here
<1>4. /\ InTree(EntriesIn(inode, data), LiveIn(inode) \ {i}, DirsIn(inode) \ {i}, orphans, Tail(todo))
      /\ i \in LiveIn(inode) /\ \A e \in EntriesIn(inode, data) : e.dir # i
  BY <1>1, HeadIs, AfterFree
<1>5. i \in Inos
  BY <1>4 DEF LiveIn
<1> HIDE DEF i
<1>6. /\ inode' \in [Inos -> Inode] /\ data' \in [Blocks -> Block] /\ bitmap' \subseteq Blocks
      /\ inode'[i].kind = "free" /\ \A j \in Inos \ {i} : inode'[j] = inode[j]
      /\ \A b \in Blocks \ bl : data'[b] = data[b]
  BY <1>2, <1>3, <1>5, Zeros DEF MemoryTyped
<1>7. IsFreed(inode, inode', data, data', bitmap, i)
  BY <1>3, <1>4, <1>6 DEF IsFreed
<1>8. /\ EntriesIn(inode', data') = EntriesIn(inode, data)
      /\ LiveIn(inode') = LiveIn(inode) \ {i} /\ DirsIn(inode') = DirsIn(inode) \ {i}
      /\ Agree(inode', bitmap \ bl)
  BY <1>7, Freed
<1>9. Agree(inode', bitmap')
  BY <1>2, <1>8
<1> QED
  BY <1>1, <1>4, <1>6, <1>8, <1>9 DEF i

\* and the invariant after it.
LEMMA FreeStep ==
    ASSUME NamespaceInv, FreeInodeAndBlocks
    PROVE  NamespaceInv'
<1> DEFINE i == todo[1].ino
<1>1. /\ todo # <<>> /\ Unlinks(todo[1]) /\ todo' = Tail(todo) /\ ~torn
      /\ UNCHANGED <<disk, orphans, whole, torn, faults, home>>
      /\ stale' = stale \ {todo[1].ino} /\ miscounted' = miscounted \ {todo[1].ino}
      /\ inode' \in [Inos -> Inode] /\ data' \in [Blocks -> Block] /\ bitmap' \subseteq Blocks
      /\ EntriesIn(inode', data') = EntriesIn(inode, data)
      /\ LiveIn(inode') = LiveIn(inode) \ {i} /\ DirsIn(inode') = DirsIn(inode) \ {i}
      /\ Agree(inode', bitmap')
  BY FreeIs
<1>2. MemoryTyped /\ faults \in 0..MaxFaults
  BY <1>1, Here
<1>3. InTree(EntriesIn(inode, data), LiveIn(inode) \ {i}, DirsIn(inode) \ {i}, orphans, Tail(todo))
  BY <1>1, HeadIs, AfterFree
<1> HIDE DEF i
<1>4. MemoryInTree(todo)'
  BY <1>1, <1>3 DEF MemoryInTree
<1>5. MemoryTyped'
  BY <1>1, <1>2 DEF MemoryTyped
<1>6. todo' \in Seq(Op) /\ faults' \in 0..MaxFaults
  BY <1>1, <1>2, HeadIs
<1> QED
  BY <1>1, <1>4, <1>5, <1>6, MemoryStep

\* Link counts and parent entries.
LEMMA QuietStep ==
    ASSUME NamespaceInv, todo # <<>>, Quiet(todo[1]), Advance, bitmap' = bitmap,
           stale' \subseteq Inos, miscounted' \subseteq Inos,
           inode' \in [Inos -> Inode], data' \in [Blocks -> Block],
           IsSame(inode, inode', data, data')
    PROVE  NamespaceInv'
<1>1. /\ ~torn /\ todo' = Tail(todo) /\ UNCHANGED <<disk, orphans, whole, torn, faults, home>>
  BY HeadIs DEF Advance
<1>2. MemoryTyped /\ Agree(inode, bitmap) /\ faults \in 0..MaxFaults
  BY <1>1, Here
<1>3. /\ EntriesIn(inode', data') = EntriesIn(inode, data)
      /\ LiveIn(inode') = LiveIn(inode) /\ DirsIn(inode') = DirsIn(inode)
      /\ Agree(inode', bitmap)
  BY <1>2, SameEntries
<1>4. InTree(EntriesIn(inode, data), LiveIn(inode), DirsIn(inode), orphans, Tail(todo))
  BY HeadIs, AfterQuiet
<1>5. MemoryInTree(todo)'
  BY <1>1, <1>3, <1>4 DEF MemoryInTree
<1>6. MemoryTyped' /\ Agree(inode', bitmap')
  BY <1>1, <1>2, <1>3 DEF MemoryTyped
<1>7. todo' \in Seq(Op) /\ faults' \in 0..MaxFaults
  BY <1>1, <1>2, HeadIs
<1> QED
  BY <1>1, <1>5, <1>6, <1>7, MemoryStep

\* A link count goes up or down.
LEMMA CountLinksStep ==
    ASSUME NamespaceInv, CountLinks
    PROVE  NamespaceInv'
<1> DEFINE i == todo[1].ino
           c == IF todo[1].do = "more" THEN inode[i].nlink + 1
                ELSE IF inode[i].nlink = 0 THEN 0 ELSE inode[i].nlink - 1
<1>1. /\ todo # <<>> /\ Head(todo) = todo[1] /\ Quiet(todo[1]) /\ ~torn /\ Step /\ UNCHANGED <<bitmap, data>>
      /\ todo[1].do \in {"more", "less"}
  BY HeadIs DEF CountLinks, Doing, Quiet
<1>2. MemoryTyped /\ i \in Inos
  BY <1>1, Here, HeadIs, OpParts
<1>3. inode[i] \in Inode /\ inode[i].nlink \in Nat
  BY <1>2 DEF MemoryTyped, Inode
<1>4. c \in Nat
  BY <1>3
<1>5. inode' = [inode EXCEPT ![i] = [inode[i] EXCEPT !.nlink = c]]
  BY <1>1, <1>2 DEF CountLinks, MemoryTyped
<1> HIDE DEF c, i
<1>6. [inode[i] EXCEPT !.nlink = c] \in Inode
  BY <1>3, <1>4 DEF Inode
<1>7. /\ inode' \in [Inos -> Inode]
      /\ \A j \in Inos : inode'[j].kind = inode[j].kind /\ inode'[j].blocks = inode[j].blocks
  BY <1>2, <1>3, <1>5, <1>6 DEF MemoryTyped, Inode
<1>8. data' \in [Blocks -> Block] /\ \A b \in Blocks : data'[b].names = data[b].names
  BY <1>1, <1>2 DEF MemoryTyped
<1>9. Advance /\ stale' \subseteq Inos /\ miscounted' \subseteq Inos
  BY <1>1, <1>2 DEF Step, MemoryTyped
<1> QED
  BY <1>1, <1>7, <1>8, <1>9, QuietStep DEF IsSame

\* update_dotdot.
LEMMA UpdateDotdotStep ==
    ASSUME NamespaceInv, UpdateDotdot
    PROVE  NamespaceInv'
<1> DEFINE b == Head(inode[todo[1].ino].blocks)
           p == todo[1].parent
<1>1. /\ todo # <<>> /\ Head(todo) = todo[1] /\ Quiet(todo[1]) /\ ~torn /\ Advance
      /\ UNCHANGED <<inode, bitmap, miscounted>> /\ stale' = stale \ {todo[1].ino} /\ todo[1].do = "dotdot"
  BY HeadIs DEF UpdateDotdot, Doing, Quiet
<1>2. MemoryTyped /\ p \in Inos
  BY <1>1, Here, HeadIs, OpParts
<1>3. data' = [data EXCEPT ![b].dotdot = p]
  BY <1>1 DEF UpdateDotdot
<1> HIDE DEF b, p
<1>4. data' \in [Blocks -> Block] /\ \A c \in Blocks : data'[c].names = data[c].names
  BY <1>2, <1>3 DEF MemoryTyped, Block
<1>5. inode' \in [Inos -> Inode] /\ \A j \in Inos : inode'[j].kind = inode[j].kind /\ inode'[j].blocks = inode[j].blocks
  BY <1>1, <1>2 DEF MemoryTyped
<1>6. stale' \subseteq Inos /\ miscounted' \subseteq Inos
  BY <1>1, <1>2 DEF MemoryTyped
<1> QED
  BY <1>1, <1>4, <1>5, <1>6, QuietStep DEF IsSame

-----------------------------------------------------------------------------
(* What fails                                                               *)

\* An operation gives up the rest of its plan.
LEMMA GivenUpStep ==
    ASSUME NamespaceInv, todo # <<>>, todo' = <<>>, UNCHANGED <<inode, data, disk, whole, torn, home>>,
           faults' \in 0..MaxFaults, orphans' \subseteq Inos, stale' \subseteq Inos, miscounted' \subseteq Inos,
           bitmap' = bitmap \/ \E b \in Blocks : bitmap' = bitmap \cup {b},
           InTree(EntriesIn(inode, data), LiveIn(inode), DirsIn(inode), orphans', <<>>)
    PROVE  NamespaceInv'
<1>1. ~torn /\ MemoryTyped /\ Agree(inode, bitmap)
  BY Here, HeadIs
<1>2. Agree(inode', bitmap') /\ MemoryTyped'
  <2>1. bitmap \subseteq bitmap' /\ bitmap' \subseteq Blocks
    BY <1>1 DEF MemoryTyped
  <2> QED
    BY <1>1, <2>1 DEF Agree, MemoryTyped
<1>3. MemoryInTree(todo)'
  BY DEF MemoryInTree
<1>4. todo' \in Seq(Op)
  OBVIOUS
<1> QED
  BY <1>1, <1>2, <1>3, <1>4, MemoryStep

\* A block that is taken before a failure stays marked.
LEMMA FailedAllocation ==
    ASSUME NamespaceInv, FailsToAllocate
    PROVE  bitmap' = bitmap \/ \E b \in Blocks : bitmap' = bitmap \cup {b}
  BY FirstFreeBlock DEF FailsToAllocate

\* mkdir fails before its inode is written.
LEMMA MakeDirectoryFailsStep ==
    ASSUME NamespaceInv, MakeDirectoryFails
    PROVE  NamespaceInv'
<1>1. /\ todo # <<>> /\ todo[1].do = "dir" /\ FailsToAllocate /\ todo' = <<>>
      /\ UNCHANGED <<inode, data, disk, whole, torn, home, orphans, stale, miscounted, faults>>
  BY HeadIs DEF MakeDirectoryFails, Doing, GiveUp
<1>2. MemoryTyped /\ faults \in 0..MaxFaults
  BY <1>1, Here, HeadIs
<1>3. InTree(EntriesIn(inode, data), LiveIn(inode), DirsIn(inode), orphans, <<>>)
  BY <1>1, HeadIs, AfterGivingUp DEF Makes
<1>4. bitmap' = bitmap \/ \E b \in Blocks : bitmap' = bitmap \cup {b}
  BY <1>1, FailedAllocation
<1>5. /\ orphans' = orphans /\ orphans' \subseteq Inos /\ faults' \in 0..MaxFaults
      /\ stale' \subseteq Inos /\ miscounted' \subseteq Inos
  BY <1>1, <1>2 DEF MemoryTyped
<1> QED
  BY <1>1, <1>3, <1>4, <1>5, GivenUpStep

\* add_dir_entry fails: a new inode is left without a name.
LEMMA LinkFailsStep ==
    ASSUME NamespaceInv, LinkFails
    PROVE  NamespaceInv'
<1> DEFINE i == todo[1].ino
           es == EntriesIn(inode, data)
<1>1. /\ todo # <<>> /\ todo[1].do = "link" /\ Head(todo) = todo[1] /\ ~torn /\ i \in Inos
  BY LinkHead DEF LinkFails
<1>2. /\ todo' = <<>> /\ UNCHANGED <<inode, data, disk, stale, miscounted, whole, torn, home, faults>>
      /\ orphans' = orphans \cup {j \in {i} : Links(j) = {}}
      /\ bitmap' = bitmap \/ FailsToAllocate
  BY <1>1 DEF LinkFails, GiveUp
<1>3. MemoryTyped /\ faults \in 0..MaxFaults
  BY <1>1, Here
<1>4. InTree(es, LiveIn(inode), DirsIn(inode), orphans, todo) /\ 1 \in DOMAIN todo
  BY <1>1, HeadIs DEF Rest
<1>5. Links(i) = {} <=> \A e \in es : e.ino # i
  BY <1>1, <1>3, LinksIs
<1>6. orphans' = orphans \cup {j \in {i} : \A e \in es : e.ino # j}
  BY <1>2, <1>5
<1>7. InTree(es, LiveIn(inode), DirsIn(inode), orphans \cup {j \in {i} : \A e \in es : e.ino # j}, <<>>)
  BY <1>1, <1>4, AfterRefusedLink
<1>8. InTree(es, LiveIn(inode), DirsIn(inode), orphans', <<>>)
  BY <1>6, <1>7
<1>9. bitmap' = bitmap \/ \E b \in Blocks : bitmap' = bitmap \cup {b}
  BY <1>2, FailedAllocation
<1>10. /\ orphans' \subseteq Inos /\ faults' \in 0..MaxFaults
       /\ stale' \subseteq Inos /\ miscounted' \subseteq Inos
  BY <1>1, <1>2, <1>3, <1>6 DEF MemoryTyped
<1> QED
  BY <1>1, <1>2, <1>8, <1>9, <1>10, GivenUpStep

\* A carrier cannot be saved.
LEMMA FlushFailsStep ==
    ASSUME NamespaceInv, FlushFails
    PROVE  NamespaceInv'
<1>1. /\ todo # <<>> /\ Quiet(todo[1]) /\ todo' = <<>> /\ faults < MaxFaults /\ faults' = faults + 1
      /\ UNCHANGED <<inode, data, disk, whole, torn, home, bitmap, orphans, stale, miscounted>>
  BY HeadIs DEF FlushFails, Fault, Doing, GiveUp, Quiet
<1>2. MemoryTyped /\ faults \in 0..MaxFaults
  BY <1>1, Here, HeadIs
<1>3. InTree(EntriesIn(inode, data), LiveIn(inode), DirsIn(inode), orphans, <<>>)
  BY <1>1, HeadIs, AfterGivingUp
<1>4. /\ orphans' = orphans /\ orphans' \subseteq Inos /\ faults' \in 0..MaxFaults
      /\ stale' \subseteq Inos /\ miscounted' \subseteq Inos
  BY <1>1, <1>2, NamespaceAssumption DEF MemoryTyped
<1> QED
  BY <1>1, <1>3, <1>4, GivenUpStep

\* free_all_blocks cannot read a pointer block: the inode has lost its name.
LEMMA FreeFailsStep ==
    ASSUME NamespaceInv, FreeFails
    PROVE  NamespaceInv'
<1> DEFINE i  == todo[1].ino
           es == EntriesIn(inode, data)
<1>1. /\ todo # <<>> /\ Head(todo) = todo[1] /\ Unlinks(todo[1]) /\ todo' = <<>> /\ ~torn
      /\ faults < MaxFaults /\ faults' = faults + 1 /\ orphans' = orphans \cup {i}
      /\ UNCHANGED <<inode, data, disk, whole, torn, home, bitmap, stale, miscounted>>
  BY HeadIs DEF FreeFails, Fault, Doing, GiveUp, Unlinks
<1>2. MemoryTyped /\ faults \in 0..MaxFaults
  BY <1>1, Here
<1>3. InTree(es, LiveIn(inode), DirsIn(inode), orphans, todo)
  BY <1>1, HeadIs
<1>4. Loose(todo) = {i} /\ Leaving(es, todo) = {}
  BY <1>1 DEF Loose, Leaving, Unlinks
<1> HIDE DEF i, es
<1>5. InTree(es, LiveIn(inode), DirsIn(inode), orphans', <<>>)
  BY <1>1, <1>3, <1>4, NothingPlanned DEF InTree
<1>6. orphans' \subseteq LiveIn(inode)
  BY <1>5, NothingPlanned DEF InTree, Tree
<1>7. /\ orphans' \subseteq Inos /\ stale' \subseteq Inos /\ miscounted' \subseteq Inos
      /\ faults' \in 0..MaxFaults
  BY <1>1, <1>2, <1>6, NamespaceAssumption DEF MemoryTyped, LiveIn
<1> QED
  BY <1>1, <1>5, <1>7, GivenUpStep DEF es

\* update_dotdot cannot read its block: the directory is where it was moved to.
LEMMA UpdateDotdotFailsStep ==
    ASSUME NamespaceInv, UpdateDotdotFails
    PROVE  NamespaceInv'
<1>1. /\ todo # <<>> /\ Head(todo) = todo[1] /\ Quiet(todo[1]) /\ todo' = <<>> /\ ~torn
      /\ faults < MaxFaults /\ faults' = faults + 1
      /\ stale' = stale \cup {todo[1].ino}
      /\ miscounted' = miscounted \cup {e.ino : e \in {f \in ToSet(todo) : f.do \in {"less", "more"}}}
      /\ todo[1].do = "dotdot"
      /\ UNCHANGED <<inode, data, disk, whole, torn, home, bitmap, orphans>>
  BY HeadIs DEF UpdateDotdotFails, Fault, Doing, GiveUp, Quiet
<1>2. MemoryTyped /\ faults \in 0..MaxFaults /\ todo \in Seq(Op) /\ todo[1] \in Op
  BY <1>1, Here, HeadIs
<1>3. InTree(EntriesIn(inode, data), LiveIn(inode), DirsIn(inode), orphans, <<>>)
  BY <1>1, HeadIs, AfterGivingUp
<1>4. ToSet(todo) \subseteq Op
  <2>1. \A k \in DOMAIN todo : todo[k] \in Op
    BY <1>2
  <2> QED
    BY <2>1 DEF ToSet
<1>5. \A f \in Op : f.do \in {"less", "more", "dotdot"} => f.ino \in Inos
  BY OpParts
<1>6. stale' \subseteq Inos /\ miscounted' \subseteq Inos
  BY <1>1, <1>2, <1>4, <1>5 DEF MemoryTyped
<1>7. orphans' = orphans /\ orphans' \subseteq Inos /\ faults' \in 0..MaxFaults
  BY <1>1, <1>2, NamespaceAssumption DEF MemoryTyped
<1> QED
  BY <1>1, <1>3, <1>6, <1>7, GivenUpStep

-----------------------------------------------------------------------------
(* The operations                                                           *)

\* What an operation finds when it begins.
LEMMA AtRest ==
    ASSUME NamespaceInv, Idle
    PROVE  /\ InTree(EntriesIn(inode, data), LiveIn(inode), DirsIn(inode), orphans, <<>>)
           /\ MemoryTyped /\ Live = LiveIn(inode) /\ Dirs = DirsIn(inode) /\ Dirs \subseteq Live /\ Live \subseteq Inos
           /\ \A d : Known(d) => d \in Dirs
           /\ Sync \in Seq(Op) /\ QuietPlan(Sync)
<1>1. ~torn /\ todo = <<>>
  BY DEF Idle
<1> QED
  BY <1>1, Here, SyncIs DEF MemoryInTree, Known

\* The allocator gives a free inode.
LEMMA FirstFreeInode ==
    ASSUME FreeInos # {}
    PROVE  Min(FreeInos) \in Inos \ Live
<1>1. FreeInos \in SUBSET Nat
  BY Numbers DEF FreeInos
<1> QED
  BY <1>1, MinIsLeast DEF FreeInos

\* create begins.
LEMMA CreateStep ==
    ASSUME NamespaceInv, NEW p \in Inos, NEW n \in Names, Create(p, n)
    PROVE  NamespaceInv'
<1> DEFINE i == Min(FreeInos)
           a == [do |-> "file", ino |-> i]
           l == [do |-> "link", dir |-> p, name |-> n, ino |-> i]
           h == <<a, l>>
           t == h \o Sync
           es == EntriesIn(inode, data)
<1>1. Idle /\ p \in Dirs /\ Lookup(p, n) = 0 /\ i \in Inos \ Live
  BY AtRest, FirstFreeInode DEF Create
<1>2. Begin(t)
  BY DEF Create
<1> HIDE DEF i
<1>3. a \in Op /\ l \in Op
  BY <1>1, Ops
<1>4. h \in Seq(Op) /\ Len(h) > 1 /\ \A k \in DOMAIN h \ {1, 2} : Quiet(h[k])
  BY <1>3
<1>5. /\ t \in Seq(Op) /\ t # <<>> /\ {1, 2} \subseteq DOMAIN t /\ t[1] = h[1] /\ t[2] = h[2]
      /\ \A k \in DOMAIN t \ {1, 2} : Quiet(t[k])
  BY <1>1, <1>4, AtRest, PlanOfTwo
<1>6. \A e \in es : ~(e.dir = p /\ e.name = n)
  BY <1>1, AtRest, LookupIs, Numbers
<1>7. /\ Makes(t[1]) /\ t[1].ino \notin LiveIn(inode)
      /\ t[2].do = "link" /\ t[2].ino = t[1].ino /\ t[2].dir \in DirsIn(inode) /\ \A e \in es : ~Of(e, t[2])
  BY <1>1, <1>5, <1>6, AtRest DEF Makes, Of
<1> HIDE DEF t, h, a, l, es
<1>8. InTree(es, LiveIn(inode), DirsIn(inode), orphans, <<>>)
  BY <1>1, AtRest DEF es
<1>9. InTree(es, LiveIn(inode), DirsIn(inode), orphans, t)
  BY <1>5, <1>7, <1>8, PlanToMake
<1> QED
  BY <1>1, <1>2, <1>5, <1>9, BeginStep DEF es

\* mkdir begins.
LEMMA MkdirStep ==
    ASSUME NamespaceInv, NEW p \in Inos, NEW n \in Names, Mkdir(p, n)
    PROVE  NamespaceInv'
<1> DEFINE i == Min(FreeInos)
           a == [do |-> "dir", ino |-> i, parent |-> p]
           l == [do |-> "link", dir |-> p, name |-> n, ino |-> i]
           c == [do |-> "more", ino |-> p]
           h == <<a, l, c>>
           t == h \o Sync
           es == EntriesIn(inode, data)
<1>1. Idle /\ p \in Dirs /\ Lookup(p, n) = 0 /\ i \in Inos \ Live
  BY AtRest, FirstFreeInode DEF Mkdir
<1>2. Begin(t)
  BY DEF Mkdir
<1> HIDE DEF i
<1>3. a \in Op /\ l \in Op /\ c \in Op /\ Quiet(c)
  BY <1>1, Ops DEF Quiet
<1>4. h \in Seq(Op) /\ Len(h) > 1 /\ \A k \in DOMAIN h \ {1, 2} : Quiet(h[k])
  BY <1>3
<1>5. /\ t \in Seq(Op) /\ t # <<>> /\ {1, 2} \subseteq DOMAIN t /\ t[1] = h[1] /\ t[2] = h[2]
      /\ \A k \in DOMAIN t \ {1, 2} : Quiet(t[k])
  BY <1>1, <1>4, AtRest, PlanOfTwo
<1>6. \A e \in es : ~(e.dir = p /\ e.name = n)
  BY <1>1, AtRest, LookupIs, Numbers
<1>7. /\ Makes(t[1]) /\ t[1].ino \notin LiveIn(inode)
      /\ t[2].do = "link" /\ t[2].ino = t[1].ino /\ t[2].dir \in DirsIn(inode) /\ \A e \in es : ~Of(e, t[2])
  BY <1>1, <1>5, <1>6, AtRest DEF Makes, Of
<1> HIDE DEF t, h, a, l, c, es
<1>8. InTree(es, LiveIn(inode), DirsIn(inode), orphans, <<>>)
  BY <1>1, AtRest DEF es
<1>9. InTree(es, LiveIn(inode), DirsIn(inode), orphans, t)
  BY <1>5, <1>7, <1>8, PlanToMake
<1> QED
  BY <1>1, <1>2, <1>5, <1>9, BeginStep DEF es

\* An entry that is found, and a directory that is found empty.
LEMMA Found ==
    ASSUME NamespaceInv, Idle, NEW d \in Dirs, NEW n \in Names, Lookup(d, n) \in Live
    PROVE  /\ Lookup(d, n) \in Inos
           /\ \E e \in EntriesIn(inode, data) : e.dir = d /\ e.name = n /\ e.ino = Lookup(d, n)
  BY AtRest, LookupIs, Numbers

\* A directory that was found empty has no entries.
LEMMA FoundEmpty ==
    ASSUME NamespaceInv, Idle, NEW d \in Live, d \in Dirs => IsEmpty(d)
    PROVE  \A e \in EntriesIn(inode, data) : e.dir # d
<1> SUFFICES ASSUME NEW e \in EntriesIn(inode, data), e.dir = d PROVE FALSE
  OBVIOUS
<1>1. d \in Dirs /\ d \in DirsIn(inode) /\ e.name \in Names /\ MemoryTyped
  BY AtRest, Entries DEF EntriesIn
<1>2. Lookup(d, e.name) = 0
  BY <1>1 DEF IsEmpty
<1> QED
  BY <1>1, <1>2, LookupIs, Numbers

\* The plans of unlink and rmdir.
LEMMA RemovalPlans ==
    ASSUME NamespaceInv, Idle, NEW p \in Dirs, NEW n \in Names, Lookup(p, n) \in Live,
           NEW t, t \in {UnlinkPlan(p, n), RmdirPlan(p, n)}
    PROVE  /\ t \in Seq(Op) /\ t # <<>> /\ {1, 2} \subseteq DOMAIN t
           /\ t[1].do = "remove" /\ t[1].dir = p /\ t[1].name = n
           /\ Unlinks(t[2]) /\ t[2].ino = Lookup(p, n)
           /\ \A k \in DOMAIN t \ {1, 2} : Quiet(t[k])
           /\ Len(t) \in Nat /\ Len(t) > 1 /\ DOMAIN t = 1..Len(t)
<1> DEFINE i == Lookup(p, n)
           r == [do |-> "remove", dir |-> p, name |-> n]
           u == [do |-> "drop", ino |-> i]
           f == [do |-> "free", ino |-> i]
           c == [do |-> "less", ino |-> p]
           g == <<r, u>>
           h == <<r, f, c>>
<1>1. UnlinkPlan(p, n) = g \o Sync /\ RmdirPlan(p, n) = h \o Sync
  BY DEF UnlinkPlan, RmdirPlan
<1>2. i \in Inos /\ p \in Inos
  BY AtRest
<1> HIDE DEF i
<1>3. r \in Op /\ u \in Op /\ f \in Op /\ c \in Op /\ Quiet(c)
  BY <1>2, Ops DEF Quiet
<1>4. h \in Seq(Op) /\ Len(h) > 1 /\ \A k \in DOMAIN h \ {1, 2} : Quiet(h[k])
  BY <1>3
<1>5. g \in Seq(Op) /\ Len(g) > 1 /\ \A k \in DOMAIN g \ {1, 2} : Quiet(g[k])
  BY <1>3
<1>6. g[1] = r /\ g[2] = u /\ h[1] = r /\ h[2] = f /\ Unlinks(u) /\ Unlinks(f)
  BY DEF Unlinks
<1> HIDE DEF g, h
<1>0. Sync \in Seq(Op) /\ QuietPlan(Sync)
  BY AtRest
<1>7. CASE t = g \o Sync
  <2>1. /\ t \in Seq(Op) /\ t # <<>> /\ {1, 2} \subseteq DOMAIN t /\ t[1] = g[1] /\ t[2] = g[2]
        /\ \A k \in DOMAIN t \ {1, 2} : Quiet(t[k])
        /\ Len(t) \in Nat /\ Len(t) > 1 /\ DOMAIN t = 1..Len(t)
    BY <1>0, <1>5, <1>7, PlanOfTwo
  <2> QED
    BY <1>6, <2>1 DEF i
<1>8. CASE t = h \o Sync
  <2>1. /\ t \in Seq(Op) /\ t # <<>> /\ {1, 2} \subseteq DOMAIN t /\ t[1] = h[1] /\ t[2] = h[2]
        /\ \A k \in DOMAIN t \ {1, 2} : Quiet(t[k])
        /\ Len(t) \in Nat /\ Len(t) > 1 /\ DOMAIN t = 1..Len(t)
    BY <1>0, <1>4, <1>8, PlanOfTwo
  <2> QED
    BY <1>6, <2>1 DEF i
<1> QED
  BY <1>1, <1>7, <1>8

\* unlink or rmdir begins.
LEMMA RemovalStep ==
    ASSUME NamespaceInv, Idle, NEW p \in Dirs, NEW n \in Names, Lookup(p, n) \in Live,
           Lookup(p, n) \in Dirs => IsEmpty(Lookup(p, n)),
           NEW t, t \in {UnlinkPlan(p, n), RmdirPlan(p, n)}, Begin(t)
    PROVE  NamespaceInv'
<1> DEFINE es == EntriesIn(inode, data)
<1>1. /\ t \in Seq(Op) /\ t # <<>> /\ {1, 2} \subseteq DOMAIN t
      /\ t[1].do = "remove" /\ t[1].dir = p /\ t[1].name = n
      /\ Unlinks(t[2]) /\ t[2].ino = Lookup(p, n)
      /\ \A k \in DOMAIN t \ {1, 2} : Quiet(t[k])
  BY RemovalPlans
<1>2. (\E e \in es : Of(e, t[1]) /\ e.ino = t[2].ino) /\ (\A e \in es : e.dir # t[2].ino)
  BY <1>1, Found, FoundEmpty DEF Of
<1>3. InTree(es, LiveIn(inode), DirsIn(inode), orphans, <<>>)
  BY AtRest
<1> HIDE DEF es
<1>4. InTree(es, LiveIn(inode), DirsIn(inode), orphans, t)
  BY <1>1, <1>2, <1>3, PlanToUnlink
<1> QED
  BY <1>1, <1>4, BeginStep DEF es

\* The changes of rename before the link, its target being there or not.
LEMMA ReplacePlanIs ==
    ASSUME NamespaceInv, Idle, NEW q \in Dirs, NEW m \in Names, NEW i \in Live, Replaceable(i, Lookup(q, m)),
           NEW pre, pre = ReplacePlan(i, q, m)
    PROVE  \/ pre = <<>> /\ \A e \in EntriesIn(inode, data) : ~(e.dir = q /\ e.name = m)
           \/ /\ pre \in Seq(Op) /\ Len(pre) \in Nat /\ Len(pre) > 1 /\ DOMAIN pre = 1..Len(pre)
              /\ pre[1].do = "remove" /\ pre[1].dir = q /\ pre[1].name = m /\ Unlinks(pre[2])
              /\ \A k \in DOMAIN pre \ {1, 2} : Quiet(pre[k])
              /\ \E e \in EntriesIn(inode, data) : e.dir = q /\ e.name = m /\ e.ino = pre[2].ino
              /\ \A e \in EntriesIn(inode, data) : e.dir # pre[2].ino
              /\ pre[2].ino # q /\ pre[2].ino # i
<1> DEFINE t == Lookup(q, m)
<1>1. CASE t = 0
  <2>1. pre = <<>>
    BY <1>1 DEF ReplacePlan
  <2>2. \A e \in EntriesIn(inode, data) : ~(e.dir = q /\ e.name = m)
    BY <1>1, AtRest, LookupIs, Numbers
  <2> QED
    BY <2>1, <2>2
<1>2. CASE t # 0
  <2>1. t \in Live /\ t # i /\ (t \in Dirs => IsEmpty(t))
    BY <1>2 DEF Replaceable
  <2>2. pre \in {UnlinkPlan(q, m), RmdirPlan(q, m)}
    BY <1>2 DEF ReplacePlan
  <2>3. /\ pre \in Seq(Op) /\ Len(pre) \in Nat /\ Len(pre) > 1 /\ DOMAIN pre = 1..Len(pre)
        /\ pre[1].do = "remove" /\ pre[1].dir = q /\ pre[1].name = m /\ Unlinks(pre[2]) /\ pre[2].ino = t
        /\ \A k \in DOMAIN pre \ {1, 2} : Quiet(pre[k])
    BY <2>1, <2>2, RemovalPlans
  <2>4. \E e \in EntriesIn(inode, data) : e.dir = q /\ e.name = m /\ e.ino = t
    BY <2>1, Found
  <2>5. \A e \in EntriesIn(inode, data) : e.dir # t
    BY <2>1, FoundEmpty
  <2>6. t # q
    BY <2>4, <2>5
  <2> QED
    BY <2>1, <2>3, <2>4, <2>5, <2>6
<1> QED
  BY <1>1, <1>2

\* The end of a rename changes no name.
LEMMA MovePlanIs ==
    ASSUME NEW i \in Inos, NEW p \in Inos, NEW q \in Inos
    PROVE  MovePlan(i, p, q) \in Seq(Op) /\ QuietPlan(MovePlan(i, p, q))
<1> DEFINE a == [do |-> "dotdot", ino |-> i, parent |-> q]
           b == [do |-> "less", ino |-> p]
           c == [do |-> "more", ino |-> q]
<1>1. MovePlan(i, p, q) \in {<<a, b, c>>, <<>>}
  BY DEF MovePlan
<1>2. a \in Op /\ b \in Op /\ c \in Op /\ Quiet(a) /\ Quiet(b) /\ Quiet(c)
  BY Ops DEF Quiet
<1> HIDE DEF a, b, c
<1>3. <<a, b, c>> \in Seq(Op) /\ QuietPlan(<<a, b, c>>)
  BY <1>2 DEF QuietPlan
<1>4. <<>> \in Seq(Op) /\ QuietPlan(<<>>)
  BY DEF QuietPlan
<1> QED
  BY <1>1, <1>3, <1>4

\* rename begins.
LEMMA RenameStep ==
    ASSUME NamespaceInv, NEW p \in Inos, NEW q \in Inos, NEW n \in Names, NEW m \in Names, Rename(p, n, q, m)
    PROVE  NamespaceInv'
<1> DEFINE i   == Lookup(p, n)
           l   == [do |-> "link", dir |-> q, name |-> m, ino |-> i]
           r   == [do |-> "remove", dir |-> p, name |-> n]
           h   == <<l, r>>
           pre == ReplacePlan(i, q, m)
           mv  == MovePlan(i, p, q)
           s   == mv \o Sync
           t   == pre \o (h \o s)
           es  == EntriesIn(inode, data)
           k   == Len(pre)
<1>1. Idle /\ p \in Dirs /\ q \in Dirs /\ <<p, n>> # <<q, m>>
  BY AtRest DEF Rename
<1>2. i \in Live /\ Replaceable(i, Lookup(q, m)) /\ i \in Inos
  BY <1>1, AtRest DEF Rename
<1>3. Begin(pre \o h \o mv \o Sync)
  BY DEF Rename
<1>4. \E e \in es : e.dir = p /\ e.name = n /\ e.ino = i
  BY <1>1, <1>2, Found
<1>5. \/ pre = <<>> /\ \A e \in es : ~(e.dir = q /\ e.name = m)
      \/ /\ pre \in Seq(Op) /\ Len(pre) \in Nat /\ Len(pre) > 1 /\ DOMAIN pre = 1..Len(pre)
         /\ pre[1].do = "remove" /\ pre[1].dir = q /\ pre[1].name = m /\ Unlinks(pre[2])
         /\ \A j \in DOMAIN pre \ {1, 2} : Quiet(pre[j])
         /\ \E e \in es : e.dir = q /\ e.name = m /\ e.ino = pre[2].ino
         /\ \A e \in es : e.dir # pre[2].ino
         /\ pre[2].ino # q /\ pre[2].ino # i
  BY <1>1, <1>2, ReplacePlanIs
<1> HIDE DEF i, pre
<1>6. mv \in Seq(Op) /\ QuietPlan(mv)
  BY <1>2, MovePlanIs
<1>7. Sync \in Seq(Op) /\ QuietPlan(Sync)
  BY <1>1, AtRest
<1>8. s \in Seq(Op) /\ QuietPlan(s)
  BY <1>6, <1>7, QuietConcat
<1>9. l \in Op /\ r \in Op
  BY <1>2, Ops
<1>10. h \in Seq(Op) /\ Len(h) = 2 /\ h[1] = l /\ h[2] = r
  BY <1>9
<1>11. pre \in Seq(Op)
  <2>1. <<>> \in Seq(Op)
    OBVIOUS
  <2> QED
    BY <1>5, <2>1
<1> HIDE DEF h, mv
<1>12. pre \o h \o mv \o Sync = t
  <2>1. (pre \o h) \in Seq(Op)
    BY <1>10, <1>11, ConcatProperties
  <2>2. (pre \o h) \o mv \o Sync = (pre \o h) \o s
    <3>1. \A x \in Seq(Op) : (x \o mv) \o Sync = x \o (mv \o Sync)
      BY <1>6, <1>7, ConcatAssociative
    <3> QED
      BY <2>1, <3>1
  <2>3. (pre \o h) \o s = pre \o (h \o s)
    <3>1. h \in Seq(Op) /\ s \in Seq(Op)
      BY <1>8, <1>10
    <3> HIDE DEF s
    <3> QED
      BY <1>11, <3>1, ConcatAssociative
  <2> QED
    BY <2>2, <2>3
<1> HIDE DEF s
<1>13. t = pre \o (h \o s)
  OBVIOUS
<1> HIDE DEF t, l, r
<1>14. /\ t \in Seq(Op) /\ Len(pre) \in Nat /\ Len(t) \in Nat /\ DOMAIN t = 1..Len(t) /\ t # <<>>
       /\ Len(t) > Len(pre) + 1
       /\ \A j \in 1..Len(pre) : t[j] = pre[j]
       /\ t[Len(pre) + 1] = h[1] /\ t[Len(pre) + 2] = h[2]
       /\ \A j \in DOMAIN t : j > Len(pre) + 2 => Quiet(t[j])
  <2>1. IsJoined(pre, h, s, t)
    BY <1>8, <1>10, <1>11, <1>13 DEF IsJoined
  <2> QED
    BY <2>1, PlanOfMove
<1>15. /\ t[k + 1].do = "link" /\ t[k + 1].dir = q /\ t[k + 1].name = m /\ t[k + 1].ino = i
       /\ t[k + 2].do = "remove" /\ t[k + 2].dir = p /\ t[k + 2].name = n
  BY <1>10, <1>14 DEF l, r
<1>16. k = 0 => \A e \in es : ~Of(e, t[1])
  <2>1. pre = <<>> \/ Len(pre) # 0
    BY <1>5
  <2>2. Len(pre) = 0 => \A e \in es : ~(e.dir = q /\ e.name = m)
    BY <1>5
  <2>3. Len(pre) = 0 => Len(pre) + 1 = 1
    OBVIOUS
  <2> QED
    BY <1>15, <2>2, <2>3 DEF Of
<1>17. k # 0 => /\ k > 1 /\ t[1].do = "remove" /\ Unlinks(t[2])
                /\ t[1].dir = t[k + 1].dir /\ t[1].name = t[k + 1].name
                /\ \E e \in es : Of(e, t[1]) /\ e.ino = t[2].ino
                /\ \A e \in es : e.dir # t[2].ino
                /\ t[2].ino # t[k + 1].dir /\ t[2].ino # t[k + 1].ino
  <2> SUFFICES ASSUME k # 0
               PROVE  /\ k > 1 /\ t[1].do = "remove" /\ Unlinks(t[2])
                      /\ t[1].dir = t[k + 1].dir /\ t[1].name = t[k + 1].name
                      /\ \E e \in es : Of(e, t[1]) /\ e.ino = t[2].ino
                      /\ \A e \in es : e.dir # t[2].ino
                      /\ t[2].ino # t[k + 1].dir /\ t[2].ino # t[k + 1].ino
    OBVIOUS
  <2>1. pre # <<>>
    OBVIOUS
  <2>2. k > 1
    BY <1>5, <2>1
  <2>3. t[1] = pre[1] /\ t[2] = pre[2]
    BY <1>14, <2>2
  <2> QED
    BY <1>5, <1>15, <2>1, <2>2, <2>3 DEF Of
<1>18. \A j \in DOMAIN t \ {1, 2, k + 1, k + 2} : Quiet(t[j])
  <2> SUFFICES ASSUME NEW j \in DOMAIN t \ {1, 2, k + 1, k + 2} PROVE Quiet(t[j])
    OBVIOUS
  <2>1. CASE j > k + 2
    BY <1>14, <2>1
  <2>2. CASE ~(j > k + 2)
    <3>1. j \in 1..Len(pre) /\ j \notin {1, 2}
      BY <1>14, <2>2
    <3>2. t[j] = pre[j] /\ pre # <<>>
      BY <1>14, <3>1
    <3> QED
      BY <1>5, <3>1, <3>2
  <2> QED
    BY <2>1, <2>2
<1>19. {1, 2, k + 1, k + 2} \subseteq DOMAIN t /\ \A j \in DOMAIN t : j \in Nat
  BY <1>14
<1>20. \E e \in es : Of(e, t[k + 2]) /\ e.ino = t[k + 1].ino
  BY <1>4, <1>15 DEF Of
<1>21. InTree(es, LiveIn(inode), DirsIn(inode), orphans, <<>>) /\ q \in DirsIn(inode)
  BY <1>1, AtRest
<1>22. k \in Nat
  BY <1>14
<1> HIDE DEF k, es
<1>23. <<t[k + 2].dir, t[k + 2].name>> # <<t[k + 1].dir, t[k + 1].name>> /\ t[k + 1].dir \in DirsIn(inode)
  BY <1>1, <1>15, <1>21
<1>24. IsMove(es, DirsIn(inode), t, k)
  BY <1>14, <1>15, <1>16, <1>17, <1>18, <1>19, <1>20, <1>22, <1>23 DEF IsMove
<1>25. InTree(es, LiveIn(inode), DirsIn(inode), orphans, t)
  BY <1>21, <1>24, PlanToMove
<1> QED
  BY <1>1, <1>3, <1>12, <1>14, <1>25, BeginStep DEF es

-----------------------------------------------------------------------------
(* Carriers, and the theorems                                               *)

\* A carrier is saved.
LEMMA FlushStep ==
    ASSUME NamespaceInv, Flush
    PROVE  NamespaceInv'
<1> DEFINE c == Head(todo).carrier
<1>1. /\ todo # <<>> /\ Quiet(todo[1]) /\ todo' = Tail(todo) /\ disk' = WriteCarrier(c) /\ ~torn
      /\ whole' = (disk' = Memory \/ (whole /\ disk' = disk))
      /\ UNCHANGED <<inode, bitmap, data, orphans, stale, miscounted, torn, faults, home>>
  BY HeadIs DEF Flush, Doing, Quiet
<1> HIDE DEF c
<1>2. MemoryTyped /\ Agree(inode, bitmap) /\ faults \in 0..MaxFaults /\ disk \in Image /\ home \in Layouts
  BY <1>1, Here DEF NamespaceInv, TypeOK
<1>3. disk' \in Image
  <2>1. /\ disk'.inode \in {inode, disk.inode} /\ disk'.bitmap \in {bitmap, disk.bitmap}
        /\ disk'.orphans \in {orphans, disk.orphans}
        /\ disk'.stale \in {stale, disk.stale} /\ disk'.miscounted \in {miscounted, disk.miscounted}
        /\ disk'.data = [b \in Blocks |-> IF home.block[b] = c THEN data[b] ELSE disk.data[b]]
        /\ disk' = [inode |-> disk'.inode, bitmap |-> disk'.bitmap, data |-> disk'.data,
                    orphans |-> disk'.orphans, stale |-> disk'.stale, miscounted |-> disk'.miscounted]
    BY <1>1 DEF WriteCarrier
  <2>2. /\ disk.inode \in [Inos -> Inode] /\ disk.bitmap \subseteq Blocks /\ disk.data \in [Blocks -> Block]
        /\ disk.orphans \subseteq Inos /\ disk.stale \subseteq Inos /\ disk.miscounted \subseteq Inos
    BY <1>2, ImageIs
  <2>3. /\ disk'.inode \in [Inos -> Inode] /\ disk'.bitmap \subseteq Blocks /\ disk'.data \in [Blocks -> Block]
        /\ disk'.orphans \subseteq Inos /\ disk'.stale \subseteq Inos /\ disk'.miscounted \subseteq Inos
    BY <1>2, <2>1, <2>2 DEF MemoryTyped
  <2> QED
    BY <2>1, <2>3 DEF Image, Inode, Block
<1>4. TypeOK'
  <2>1. Memory' = Memory /\ Memory \in Image
    BY <1>1, <1>2, MemoryIs DEF Memory
  <2>2. whole' \in BOOLEAN
    BY <1>1
  <2>3. torn' \in BOOLEAN /\ home' \in Layouts
    <3>1. torn \in BOOLEAN
      BY DEF NamespaceInv, TypeOK
    <3> QED
      BY <1>1, <1>2, <3>1
  <2>4. faults' \in 0..MaxFaults
    BY <1>1, <1>2
  <2> QED
    BY <1>3, <2>1, <2>2, <2>3, <2>4 DEF TypeOK
<1>5. (whole \/ home.table = home.bitmap => Agree(disk.inode, disk.bitmap))'
  <2>1. CASE disk' = Memory
    BY <1>2, <2>1 DEF Memory
  <2>2. CASE whole /\ disk' = disk
    BY <2>2 DEF NamespaceInv
  <2>3. CASE home.table = home.bitmap
    <3>1. \/ disk'.inode = inode /\ disk'.bitmap = bitmap
          \/ disk'.inode = disk.inode /\ disk'.bitmap = disk.bitmap
      BY <1>1, <2>3 DEF WriteCarrier
    <3>2. Agree(disk.inode, disk.bitmap)
      BY <2>3 DEF NamespaceInv
    <3> QED
      BY <1>2, <3>1, <3>2
  <2> QED
    BY <1>1, <2>1, <2>2, <2>3
<1>6. (whole => DiskInTree)'
  <2>1. CASE disk' = Memory
    <3>1. InTree(EntriesIn(inode, data), LiveIn(inode), DirsIn(inode), orphans, <<>>)
      BY <1>1, HeadIs, AfterGivingUp
    <3>2. disk'.inode = inode /\ disk'.data = data /\ disk'.orphans = orphans
      BY <2>1 DEF Memory
    <3> QED
      BY <3>1, <3>2 DEF DiskInTree
  <2>2. CASE whole /\ disk' = disk
    BY <2>2 DEF NamespaceInv, DiskInTree
  <2> QED
    BY <1>1, <2>1, <2>2
<1>7. MemoryInTree(todo)'
  <2>1. InTree(EntriesIn(inode, data), LiveIn(inode), DirsIn(inode), orphans, Tail(todo))
    BY <1>1, HeadIs, AfterQuiet
  <2> QED
    BY <1>1, <2>1 DEF MemoryInTree
<1>8. todo' \in Seq(Op) /\ Agree(inode', bitmap') /\ ~torn'
  BY <1>1, <1>2, HeadIs
<1> QED
  BY <1>4, <1>5, <1>6, <1>7, <1>8 DEF NamespaceInv

\* The process ends, and the pool is opened again.
LEMMA ReopenStep ==
    ASSUME NamespaceInv, Reopen
    PROVE  NamespaceInv'
<1>1. /\ inode' = disk.inode /\ bitmap' = disk.bitmap /\ data' = disk.data
      /\ orphans' = disk.orphans /\ stale' = disk.stale /\ miscounted' = disk.miscounted
      /\ todo' = <<>> /\ torn' = ~whole /\ UNCHANGED <<disk, whole, faults, home>>
  BY DEF Reopen
<1>2. disk \in Image /\ whole \in BOOLEAN /\ faults \in 0..MaxFaults /\ home \in Layouts
  BY DEF NamespaceInv, TypeOK
<1>3. TypeOK'
  <2>1. Memory' \in Image
    BY <1>1, <1>2 DEF Memory, Image
  <2> QED
    BY <1>1, <1>2, <2>1 DEF TypeOK
<1>4. (~torn \/ home.table = home.bitmap => Agree(inode, bitmap))'
  BY <1>1, <1>2 DEF NamespaceInv
<1>5. (whole \/ home.table = home.bitmap => Agree(disk.inode, disk.bitmap))'
  BY <1>1 DEF NamespaceInv
<1>6. (~torn => MemoryInTree(todo))'
  BY <1>1, <1>2 DEF NamespaceInv, MemoryInTree, DiskInTree
<1>7. (whole => DiskInTree)'
  BY <1>1 DEF NamespaceInv, DiskInTree
<1>8. todo' \in Seq(Op) /\ (todo # <<>> => ~torn)'
  BY <1>1
<1> QED
  BY <1>3, <1>4, <1>5, <1>6, <1>7, <1>8 DEF NamespaceInv

\* A formatted pool.
LEMMA InitInv == Init => NamespaceInv
<1> SUFFICES ASSUME Init PROVE NamespaceInv
  OBVIOUS
<1> DEFINE root == [kind |-> "dir", nlink |-> 2, blocks |-> <<1>>]
           first == [ZeroBlock EXCEPT !.dotdot = Root]
<1>1. 1 \in Blocks /\ Root \in Inos
  BY NamespaceAssumption DEF Blocks, Inos, Root
<1>2. root \in Inode /\ first \in Block /\ \A n \in Names : first.names[n] = 0
  BY <1>1, Zeros DEF Inode
<1>3. inode[Root] = root /\ \A i \in Inos \ {Root} : inode[i] = FreeInode
  BY <1>1 DEF Init
<1>4. data[1] = first /\ \A b \in Blocks \ {1} : data[b] = ZeroBlock
  BY <1>1 DEF Init
<1>5. inode \in [Inos -> Inode]
  BY <1>2, Zeros DEF Init
<1>6. data \in [Blocks -> Block]
  BY <1>2, Zeros DEF Init
<1>7. LiveIn(inode) = {Root} /\ DirsIn(inode) = {Root}
  BY <1>1, <1>3, Zeros DEF LiveIn, DirsIn
<1>8. ToSet(inode[Root].blocks) = {1}
  BY <1>1, <1>3, Sets
<1>9. EntriesIn(inode, data) = {}
  <2> SUFFICES ASSUME NEW e \in EntriesIn(inode, data) PROVE FALSE
    OBVIOUS
  <2>1. e.dir = Root /\ e.block = 1 /\ e.name \in Names /\ e.ino \in Inos /\ data[1].names[e.name] = e.ino
    BY <1>7, <1>8, Entries DEF EntriesIn
  <2> QED
    BY <1>2, <1>4, <2>1, Numbers
<1>10. bitmap = {1} /\ orphans = {} /\ stale = {} /\ miscounted = {} /\ disk = Memory /\ todo = <<>> /\ whole = TRUE /\ torn = FALSE
       /\ faults = 0 /\ home \in Layouts
  BY DEF Init
<1>11. MemoryTyped
  BY <1>1, <1>5, <1>6, <1>10 DEF MemoryTyped
<1>12. TypeOK
  <2>1. Memory \in Image /\ disk \in Image
    BY <1>10, <1>11, MemoryIs
  <2>2. whole \in BOOLEAN /\ torn \in BOOLEAN
    BY <1>10
  <2>3. MaxFaults \in Nat
    BY NamespaceAssumption
  <2>4. faults \in 0..MaxFaults /\ home \in Layouts
    BY <1>10, <2>3
  <2> QED
    BY <2>1, <2>2, <2>4 DEF TypeOK
<1>13. Agree(inode, bitmap)
  BY <1>7, <1>8, <1>10 DEF Agree
<1>14. InTree(EntriesIn(inode, data), LiveIn(inode), DirsIn(inode), orphans, <<>>)
  BY <1>7, <1>9, <1>10, NothingPlanned DEF InTree, Tree
<1>15. MemoryInTree(todo)
  BY <1>10, <1>14 DEF MemoryInTree
<1>16. disk.inode = inode /\ disk.bitmap = bitmap /\ disk.data = data /\ disk.orphans = orphans
  BY <1>10 DEF Memory
<1>17. Agree(disk.inode, disk.bitmap) /\ DiskInTree
  BY <1>13, <1>14, <1>16 DEF DiskInTree
<1>18. todo \in Seq(Op)
  BY <1>10
<1> QED
  BY <1>10, <1>12, <1>13, <1>15, <1>17, <1>18 DEF NamespaceInv

\* Nothing happens.
LEMMA StutterStep ==
    ASSUME NamespaceInv, UNCHANGED vars
    PROVE  NamespaceInv'
<1>1. TypeOK'
  BY DEF NamespaceInv, TypeOK, vars, Memory
<1>2. (MemoryInTree(todo) => MemoryInTree(todo)') /\ (DiskInTree => DiskInTree')
  BY DEF vars, MemoryInTree, DiskInTree
<1> QED
  BY <1>1, <1>2 DEF NamespaceInv, vars

\* Every step keeps the invariant.
LEMMA NextInv == NamespaceInv /\ [Next]_vars => NamespaceInv'
<1> SUFFICES ASSUME NamespaceInv, [Next]_vars PROVE NamespaceInv'
  OBVIOUS
<1>1. ASSUME NEW p \in Inos, NEW n \in Names, Create(p, n) \/ Mkdir(p, n) PROVE NamespaceInv'
  BY <1>1, CreateStep, MkdirStep
<1>2. ASSUME NEW p \in Inos, NEW n \in Names, Unlink(p, n) PROVE NamespaceInv'
  <2>1. /\ Idle /\ p \in Dirs /\ Lookup(p, n) \in Live /\ Lookup(p, n) \notin Dirs /\ Begin(UnlinkPlan(p, n))
    BY <1>2, AtRest DEF Unlink
  <2> QED
    BY <2>1, RemovalStep
<1>3. ASSUME NEW p \in Inos, NEW n \in Names, Rmdir(p, n) PROVE NamespaceInv'
  <2>1. /\ Idle /\ p \in Dirs /\ Lookup(p, n) \in Live /\ IsEmpty(Lookup(p, n)) /\ Begin(RmdirPlan(p, n))
    BY <1>3, AtRest DEF Rmdir
  <2> QED
    BY <2>1, RemovalStep
<1>4. ASSUME NEW p \in Inos, NEW q \in Inos, NEW n \in Names, NEW m \in Names, Rename(p, n, q, m)
      PROVE  NamespaceInv'
  BY <1>4, RenameStep
<1>5. CASE WriteFileInode \/ MakeDirectory \/ MakeDirectoryFails
  BY <1>5, WriteFileInodeStep, MakeDirectoryStep, MakeDirectoryFailsStep
<1>6. CASE LinkInRoom \/ LinkInNewBlock \/ LinkFails
  BY <1>6, LinkInRoomStep, LinkInNewBlockStep, LinkFailsStep
<1>7. CASE RemoveName \/ FreeInodeAndBlocks \/ CountLinks \/ UpdateDotdot
  BY <1>7, RemoveNameStep, FreeStep, CountLinksStep, UpdateDotdotStep
<1>8. CASE FreeFails \/ UpdateDotdotFails \/ Flush \/ FlushFails \/ Reopen
  BY <1>8, FreeFailsStep, UpdateDotdotFailsStep, FlushStep, FlushFailsStep, ReopenStep
<1>9. CASE Abandoned \/ UNCHANGED vars
  BY <1>9, StutterStep DEF Abandoned
<1> QED
  BY <1>1, <1>2, <1>3, <1>4, <1>5, <1>6, <1>7, <1>8, <1>9 DEF Next

\* The tree is the tree of the plan in every state, and so is what the carriers of one
\* sync hold.
THEOREM InTheTree == Spec => []NamespaceInv
  BY InitInv, NextInv, PTL DEF Spec

\* Every variable has its type: the tree never outgrows the tables, whatever
\* create, mkdir, unlink, rmdir, rename, a failure or a restart does.
THEOREM TypeCorrect == Spec => []TypeOK
<1>1. NamespaceInv => TypeOK
  BY DEF NamespaceInv
<1> QED
  BY <1>1, InTheTree, PTL

\* add_dir_entry comes after the inode is written and remove_dir_entry before it is
\* freed: no directory ever names an inode that is not in use.
THEOREM NamesAreLive == Spec => []NoDangling
<1>1. NamespaceInv => NoDangling
  <2> SUFFICES ASSUME NamespaceInv, ~torn, NEW d \in Dirs, NEW b \in BlocksOf(d), NEW n \in Names
               PROVE  data[b].names[n] \in {0} \cup Live
    BY DEF NoDangling
  <2>1. /\ MemoryTyped /\ Live = LiveIn(inode) /\ d \in DirsIn(inode) /\ d \in Inos
        /\ \A e \in EntriesIn(inode, data) : e.ino \in Live
    BY Here DEF MemoryInTree, InTree
  <2>2. b \in Blocks
    <3>1. inode[d].blocks \in Seq(Blocks)
      BY <2>1 DEF MemoryTyped, Inode
    <3> QED
      BY <3>1, Sets DEF BlocksOf
  <2>3. data[b].names[n] \in {0} \cup Inos
    BY <2>1, <2>2 DEF MemoryTyped, Block
  <2>4. ASSUME data[b].names[n] \in Inos PROVE data[b].names[n] \in Live
    <3> DEFINE i == data[b].names[n]
    <3>1. i \in Inos
      BY <2>4
    <3> HIDE DEF i
    <3>2. PICK e \in Entry : e.dir = d /\ e.block = b /\ e.name = n /\ e.ino = i
      BY <2>1, <2>2, <3>1, Entries
    <3>3. e \in EntriesIn(inode, data)
      BY <2>1, <3>2 DEF EntriesIn, BlocksOf, i
    <3> QED
      BY <2>1, <3>2, <3>3 DEF i
  <2> QED
    BY <2>3, <2>4
<1> QED
  BY <1>1, InTheTree, PTL

\* Between operations nothing is loose but orphans.
LEMMA NamedOnceAtRest == NamespaceInv => NamedOnce
<1> SUFFICES ASSUME NamespaceInv, Idle
             PROVE  /\ \A i \in Live \ {Root} : Cardinality(Links(i)) = IF i \in orphans THEN 0 ELSE 1
                    /\ \A d \in Dirs : \A b, c \in BlocksOf(d) : \A n \in Names :
                          data[b].names[n] # 0 /\ data[c].names[n] # 0 => b = c
  BY DEF NamedOnce
<1> DEFINE es == EntriesIn(inode, data)
<1>1. /\ InTree(es, LiveIn(inode), DirsIn(inode), orphans, <<>>)
      /\ MemoryTyped /\ Live = LiveIn(inode) /\ Dirs = DirsIn(inode) /\ Dirs \subseteq Live /\ Live \subseteq Inos
  BY AtRest
<1>2. Tree(es, Live, orphans) /\ \A e, f \in es : Of(e, f) => e = f
  <2>1. es \ {} = es /\ orphans \cup {} = orphans
    OBVIOUS
  <2> QED
    BY <1>1, <2>1, NothingPlanned DEF InTree
<1>3. ASSUME NEW i \in Live \ {Root} PROVE Cardinality(Links(i)) = IF i \in orphans THEN 0 ELSE 1
  <2>1. /\ \A l \in Links(i) : \E e \in es : e.ino = i /\ l = <<e.dir, e.block, e.name>>
        /\ \A e \in es : e.ino = i => <<e.dir, e.block, e.name>> \in Links(i)
    BY <1>1, LinksIs
  <2>2. (i \in orphans <=> \A e \in es : e.ino # i) /\ \A e, f \in es : e.ino = f.ino => e = f
    BY <1>2 DEF Tree
  <2> HIDE DEF es
  <2>3. CASE i \in orphans
    <3>1. Links(i) = {}
      BY <2>1, <2>2, <2>3
    <3> QED
      BY <2>3, <3>1, FS_EmptySet
  <2>4. CASE i \notin orphans
    <3>1. PICK e \in es : e.ino = i
      BY <2>2, <2>4
    <3>2. Links(i) = {<<e.dir, e.block, e.name>>}
      BY <2>1, <2>2, <3>1
    <3> QED
      BY <2>4, <3>2, FS_Singleton
  <2> QED
    BY <2>3, <2>4
<1>4. ASSUME NEW d \in Dirs, NEW b \in BlocksOf(d), NEW c \in BlocksOf(d), NEW n \in Names,
             data[b].names[n] # 0, data[c].names[n] # 0
      PROVE  b = c
  <2>1. d \in Inos /\ d \in DirsIn(inode) /\ inode[d].blocks \in Seq(Blocks)
    BY <1>1 DEF MemoryTyped, Inode
  <2>2. b \in Blocks /\ c \in Blocks /\ b \in ToSet(inode[d].blocks) /\ c \in ToSet(inode[d].blocks)
    BY <2>1, Sets DEF BlocksOf
  <2>3. data[b].names[n] \in Inos /\ data[c].names[n] \in Inos
    BY <1>1, <1>4, <2>2 DEF MemoryTyped, Block
  <2>4. ASSUME NEW x \in Blocks, NEW i \in Inos, x \in ToSet(inode[d].blocks), data[x].names[n] = i
        PROVE  \E e \in es : e.dir = d /\ e.block = x /\ e.name = n
    <3>1. PICK e \in Entry : e.dir = d /\ e.block = x /\ e.name = n /\ e.ino = i
      BY <2>1, Entries
    <3>2. e \in es
      BY <2>1, <2>4, <3>1 DEF EntriesIn
    <3> QED
      BY <3>1, <3>2
  <2> HIDE DEF es
  <2>5. PICK e \in es : e.dir = d /\ e.block = b /\ e.name = n
    BY <2>2, <2>3, <2>4
  <2>6. PICK f \in es : f.dir = d /\ f.block = c /\ f.name = n
    BY <2>2, <2>3, <2>4
  <2> QED
    BY <1>2, <2>5, <2>6 DEF Of
<1> QED
  BY <1>3, <1>4

\* Between operations, also after failures and restarts, an inode in use has exactly one
\* name, and none only if the add_dir_entry of its create or mkdir or the free_all_blocks of
\* its unlink failed;
\* find_dir_entry can find a name in one block only.
THEOREM EveryFileHasOneName == Spec => []NamedOnce
  BY InTheTree, NamedOnceAtRest, PTL

\* With the bitmap and the inode table in one carrier, every block of an inode in use is
\* marked and has one owner, also when the process ends between two saves.
THEOREM MetadataIsOfOneSync == Spec => []MetadataAgrees
<1>1. NamespaceInv => MetadataAgrees
  BY DEF NamespaceInv, MetadataAgrees, Agree, Live, LiveIn, BlocksOf
<1> QED
  BY <1>1, InTheTree, PTL
=============================================================================
