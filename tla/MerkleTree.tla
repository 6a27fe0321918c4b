----------------------------- MODULE MerkleTree -----------------------------
(***************************************************************************)
(* The Merkle tree of src/merkletree: NewMerkleTree and Paths (tree.go,    *)
(* path.go), the wire format of a path (marshall.go), and the verifier    *)
(* Verify2 with isPlausible, VerifyLeaf and verifyPath (verify.go,         *)
(* verify1.go, verify2.go).                                                *)
(*                                                                         *)
(* The tree is built for the leaves 0..n-1, as the package's tests do.     *)
(* Building is a state machine: one step per iteration of calcLayer's      *)
(* NodeLoop and one per return of calcLayer.  Once the paths exist, a      *)
(* verifier receives one of them marshalled, possibly damaged in one       *)
(* element on the way, and checks it against a leaf content.               *)
(*                                                                         *)
(* A hash is the pair of the element's prefix (IsLeaf, IsLeft, IsEmpty,    *)
(* Depths) and its digest; a digest is the pair of the hashed inputs, so   *)
(* hashes collide only when their inputs are equal.                        *)
(***************************************************************************)
EXTENDS Naturals, Sequences, SequencesExt

CONSTANTS
  MaxLeaves,    \* bound of the leaf count
  DepthWrap,    \* stands for 2^32, the range of the uint32 Depths field
  ZeroContent,  \* the all-zero content an empty node hashes
  NoHash,       \* an absent (nil) child hash
  Panic,        \* a Go panic in the verifier
  Garbled,      \* marks a digest changed on the wire
  Nil

VARIABLES
  n,           \* leaveCount
  treeDepths,
  nodeDepths,
  cache,       \* nodeCache: position -> PathElement or Nil
  paths,       \* leaves: position -> Path
  lpos,        \* calcLayer's read position
  broken,      \* NodeLoop has been left through its root break
  phase,       \* "layer" while Paths() runs, then "done"; "panic" if it panics
  rcv,         \* the path the verifier received, after UnMarshallPath
  rcvFor,      \* whose path was sent
  claimed,     \* the leaf content the verifier checks it against
  verdict,     \* Verify2's answer, or Panic
  verdictMethod \* the answer of verify2.go's own verifier, or Panic

vars == <<n, treeDepths, nodeDepths, cache, paths, lpos, broken, phase, rcv,
          rcvFor, claimed, verdict, verdictMethod>>

\* Path p indexed from 0, as in the code.
P(p, i) == p[i + 1]

\* PathElement.prefix: the flags and the depths written before the digest.
prefix(pe) == <<pe.IsLeaf, pe.IsLeft, pe.IsEmpty, pe.Depths>>

\* CalcHash: the digest over 0x00 || left || 0x00 || right || 0x00, with the
\* prefix in front.
CalcHash(pe, left, right) == [pe EXCEPT !.Hash = <<prefix(pe), <<left, right>>>>]

Elem(isLeaf, isLeft, depths, isEmpty) ==
  [IsLeaf |-> isLeaf, IsLeft |-> isLeft, Depths |-> depths, IsEmpty |-> isEmpty,
   Hash |-> NoHash]

createLeafFromContent(content, isLeft, depths) ==
  CalcHash(Elem(TRUE, isLeft, depths, FALSE), content, NoHash)

emptyNode(isLeft, isLeaf, depths) ==
  CalcHash(Elem(isLeaf, isLeft, depths, TRUE), ZeroContent, NoHash)

\* uint32 decrement.
Dec(d) == (d + DepthWrap - 1) % DepthWrap

\* ParentPathElement: an interior node one level up, hashing both children.
ParentPathElement(isLeft, leftNode, rightNode) ==
  CalcHash(Elem(FALSE, isLeft, Dec(leftNode.Depths), FALSE),
           leftNode.Hash, rightNode.Hash)

\* ceil(log2(n)), at least 1.
RECURSIVE ceilLog2(_, _)
ceilLog2(k, d) == IF 2^d >= k THEN d ELSE ceilLog2(k, d + 1)

Depths(k) == IF ceilLog2(k, 0) = 0 THEN 1 ELSE ceilLog2(k, 0)

\* setPaths: append pe to the paths of leaves start .. start+count-1, the
\* end clamped to the leaf count.
setPaths(ps, start, count, pe) ==
  [i \in DOMAIN ps |-> IF start <= i /\ i < start + count /\ i < n
                       THEN Append(ps[i], pe) ELSE ps[i]]

\* Mutant of distributePaths: each sibling is pushed into the whole tree
\* under the parent instead of into its half.
distributePathsWide(ps, leftNode, rightNode, writePos) ==
  LET treeCount == 2^(treeDepths - (leftNode.Depths - 1))
      leftTreeStart == writePos * treeCount
  IN setPaths(setPaths(ps, leftTreeStart, treeCount, rightNode),
              leftTreeStart + treeCount \div 2, treeCount \div 2, leftNode)

\* distributePaths: the right child goes into the paths of the left
\* subtree's leaves, the left child into those of the right subtree.
distributePaths(ps, leftNode, rightNode, writePos) ==
  LET treeCount == 2^(treeDepths - (leftNode.Depths - 1))
      subtreeCount == treeCount \div 2
      leftTreeStart == writePos * treeCount
  IN setPaths(setPaths(ps, leftTreeStart, subtreeCount, rightNode),
              leftTreeStart + subtreeCount, subtreeCount, leftNode)

-----------------------------------------------------------------------------
(* The wire format and the verifier.                                       *)

\* Path.Marshall: the concatenated hashes, each carrying its prefix.
Marshall(p) == [i \in DOMAIN p |-> p[i].Hash]

\* UnMarshallPathElement: the flags and depths are read back from the
\* prefix bytes of the hash.
UnMarshallPathElement(h) ==
  [IsLeaf |-> h[1][1], IsLeft |-> h[1][2], IsEmpty |-> h[1][3],
   Depths |-> h[1][4], Hash |-> h]

UnMarshallPath(bytes) == [i \in DOMAIN bytes |-> UnMarshallPathElement(bytes[i])]

\* isPlausible's descending-depths loop, from index i with last depth d:
\* empty elements are skipped, the second element may equal the leaf's.
RECURSIVE descending(_, _, _)
descending(p, i, d) ==
  IF i >= Len(p) THEN TRUE
  ELSE IF P(p, i).IsEmpty THEN descending(p, i + 1, d)
  ELSE IF P(p, i).Depths >= d
       THEN i = 1 /\ P(p, i).Depths = d /\ descending(p, i + 1, d)
  ELSE descending(p, i + 1, P(p, i).Depths)

isPlausible(p) ==
  IF Len(p) < 2 THEN FALSE
  ELSE LET p0 == P(p, 0)
           r == P(p, Len(p) - 1)
           ends == /\ p0.IsLeaf /\ ~p0.IsEmpty /\ p0.Depths > 0
                   /\ ~r.IsLeaf /\ r.Depths = 0 /\ ~r.IsEmpty
           second == IF ends /\ P(p, 1).Depths = p0.Depths
                     THEN Len(p) > 2 /\ P(p, 1).IsLeaf /\ p0.IsLeft # P(p, 1).IsLeft
                     ELSE ends
       IN second /\ descending(p, 1, p0.Depths)

verifyMyLeafConstruction(pe, content) ==
  createLeafFromContent(content, pe.IsLeft, pe.Depths).Hash = pe.Hash

VerifyLeaf(p, content) == Len(p) > 1 /\ verifyMyLeafConstruction(P(p, 0), content)

\* getNextSibling: the path's element at pos if it is a non-empty node of
\* mynode's depth, otherwise a fresh empty node; a conflict panics.  An
\* index past the end is Go's index-out-of-range panic.
getNextSibling(p, pos, mynode) ==
  IF pos >= Len(p) THEN Panic
  ELSE LET s == IF P(p, pos).Depths = mynode.Depths /\ ~P(p, pos).IsEmpty
                THEN P(p, pos)
                ELSE emptyNode(~mynode.IsLeft, mynode.IsLeaf, mynode.Depths)
       IN IF \/ mynode.Depths # s.Depths
             \/ s.IsLeft = mynode.IsLeft
             \/ mynode.IsLeaf # s.IsLeaf
          THEN Panic ELSE s

nextNodeIsLeft(p, pos, depths) ==
  IF pos >= Len(p) THEN Panic
  ELSE IF P(p, pos).Depths = depths
       THEN IF depths = 0 THEN TRUE
            ELSE IF pos + 1 >= Len(p) THEN Panic ELSE ~P(p, pos + 1).IsLeft
  ELSE IF pos >= Len(p) - 1 THEN Panic
  ELSE IF P(p, pos + 1).Depths = depths
       THEN IF depths = 0 THEN TRUE ELSE ~P(p, pos + 1).IsLeft
  ELSE TRUE

\* genBranch's GeneratorLoop: hash mynode with its sibling, and again with
\* an empty sibling, until the next path element's depth is reached.
RECURSIVE branchLoop(_, _, _)
branchLoop(p, pos, mynode) ==
  LET s == getNextSibling(p, pos, mynode)
  IN IF s = Panic THEN Panic
     ELSE LET isLeft == nextNodeIsLeft(p, pos, Dec(mynode.Depths))
          IN IF isLeft = Panic THEN Panic
             ELSE LET new == IF s.IsLeft THEN ParentPathElement(isLeft, s, mynode)
                             ELSE ParentPathElement(isLeft, mynode, s)
                  IN IF new.Depths = 0 THEN new
                     ELSE IF pos + 1 >= Len(p) THEN Panic
                     ELSE IF new.Depths = P(p, pos + 1).Depths THEN new
                     ELSE branchLoop(p, pos, new)

\* verifyPath's loop over genBranch, one path position per branch; the
\* node reached when genBranch reports no branch (depth 0).
RECURSIVE verifyLoop(_, _, _)
verifyLoop(p, pos, mynode) ==
  IF mynode.Depths = 0 THEN mynode
  ELSE LET b == branchLoop(p, pos, mynode)
       IN IF b = Panic THEN Panic ELSE verifyLoop(p, pos + 1, b)

\* Mutant of verifyPath: the root hash comparison dropped.
verifyPathNoHash(p) ==
  LET m == verifyLoop(p, 1, P(p, 0))
      root == P(p, Len(p) - 1)
  IN IF m = Panic THEN Panic
     ELSE /\ ~root.IsLeaf /\ root.Depths = 0
          /\ root.IsLeft = m.IsLeft /\ root.IsLeaf = m.IsLeaf
          /\ root.Depths = m.Depths /\ m.Depths = 0

\* verifyPath: the recomputed root must equal the path's root (GetRoot).
verifyPath(p) ==
  LET m == verifyLoop(p, 1, P(p, 0))
      root == P(p, Len(p) - 1)
  IN IF m = Panic THEN Panic
     ELSE /\ ~root.IsLeaf /\ root.Depths = 0
          /\ root.IsLeft = m.IsLeft /\ root.IsLeaf = m.IsLeaf
          /\ root.Depths = m.Depths /\ m.Depths = 0
          /\ root.Hash = m.Hash

Verify2(p, content) ==
  IF ~isPlausible(p) THEN FALSE
  ELSE IF ~VerifyLeaf(p, content) THEN FALSE
  ELSE verifyPath(p)

-----------------------------------------------------------------------------
(* The Path.verifyPath method of verify2.go, which Verify2 does not call   *)
(* (it calls verify1.go's verifyPath).  The path is read as a stack; the   *)
(* pending node is the one of leftnode and rightnode that is not nil.      *)
(* Reading past the end of the stack gives nil, and using a nil node       *)
(* panics.                                                                 *)

\* pathStack.get after pos moves: the element at pos, or Nil past the end.
stackAt(p, pos) == IF pos < Len(p) THEN P(p, pos) ELSE Nil

\* firstNode: the leaf and the element after it; the pending node is the
\* leaf, on its side.
firstNode(p) ==
  LET f == P(p, 0)
      s == stackAt(p, 1)
  IN IF ~f.IsLeaf THEN [ok |-> FALSE]
     ELSE IF s = Nil THEN Panic
     ELSE IF f.Depths < s.Depths THEN [ok |-> FALSE]
     ELSE IF f.Depths = s.Depths /\ (f.IsLeft = s.IsLeft \/ ~s.IsLeaf)
          THEN [ok |-> FALSE]
     ELSE [ok |-> TRUE, left |-> IF f.IsLeft THEN f ELSE Nil,
           right |-> IF f.IsLeft THEN Nil ELSE f, depths |-> f.Depths]

\* noNilNode: exactly one of the two must be set.
noNilNode(a, b) ==
  IF (a = Nil) = (b = Nil) THEN Panic ELSE IF a # Nil THEN a ELSE b

\* One pass of DepthsLoop at depth d with the stack at pos: fit the path
\* element in as a sibling, or an empty node, and hash one level up.
RECURSIVE depthsLoop(_, _, _, _, _)
depthsLoop(p, pos, d, left, right) ==
  IF d = 0 THEN [ok |-> TRUE, pos |-> pos, left |-> left, right |-> right]
  ELSE
  LET cur == stackAt(p, pos)
      top == noNilNode(left, right)
  IN IF cur = Nil THEN Panic
     ELSE IF cur.Depths > d THEN [ok |-> FALSE]
     ELSE IF top = Panic THEN Panic
     ELSE IF cur.Depths = d /\ (top.IsLeaf # cur.IsLeaf \/ top.IsLeft = cur.IsLeft)
          THEN [ok |-> FALSE]
     ELSE
     LET next == IF cur.Depths = d THEN cur
                 ELSE emptyNode(~top.IsLeft, top.IsLeaf, d)
         l1 == IF next.IsLeft THEN next ELSE left
         r1 == IF next.IsLeft THEN right ELSE next
         distance == d - cur.Depths
         pos2 == IF distance = 0 THEN pos + 1 ELSE pos
         side == IF distance = 0 THEN stackAt(p, pos2) ELSE cur
     IN IF (distance <= 1 /\ side = Nil) \/ l1 = Nil \/ r1 = Nil THEN Panic
        ELSE
        LET isLeft == IF d - 1 = 0 THEN TRUE
                      ELSE IF distance <= 1 THEN ~side.IsLeft ELSE TRUE
            create == CalcHash(Elem(FALSE, isLeft, d - 1, FALSE), l1.Hash, r1.Hash)
        IN depthsLoop(p, pos2, d - 1,
                      IF isLeft THEN create ELSE Nil,
                      IF isLeft THEN Nil ELSE create)

\* Mutant of Path.verifyPath: the root hash comparison dropped.
verifyPathMethodNoHash(p) ==
  IF Len(p) < 2 THEN FALSE
  ELSE LET fn == firstNode(p)
       IN IF fn = Panic THEN Panic
          ELSE IF ~fn.ok THEN FALSE
          ELSE LET r == depthsLoop(p, 1, fn.depths, fn.left, fn.right)
               IN IF r = Panic THEN Panic
                  ELSE IF ~r.ok THEN FALSE
                  ELSE LET root == stackAt(p, r.pos)
                           rootTest == noNilNode(r.left, r.right)
                       IN IF root = Nil \/ rootTest = Panic THEN Panic
                          ELSE root.Depths = 0 /\ stackAt(p, r.pos + 1) = Nil

\* Path.verifyPath (verify2.go): the recombined root must equal the stack's
\* element, have depth 0, and be the path's last element.
verifyPathMethod(p) ==
  IF Len(p) < 2 THEN FALSE
  ELSE LET fn == firstNode(p)
       IN IF fn = Panic THEN Panic
          ELSE IF ~fn.ok THEN FALSE
          ELSE LET r == depthsLoop(p, 1, fn.depths, fn.left, fn.right)
               IN IF r = Panic THEN Panic
                  ELSE IF ~r.ok THEN FALSE
                  ELSE LET root == stackAt(p, r.pos)
                           rootTest == noNilNode(r.left, r.right)
                       IN IF root = Nil \/ rootTest = Panic THEN Panic
                          ELSE /\ root.Hash = rootTest.Hash
                               /\ root.Depths = 0
                               /\ stackAt(p, r.pos + 1) = Nil

\* Verify2 as verify2.go's method would have it.
Verify2Method(p, content) ==
  IF ~isPlausible(p) THEN FALSE
  ELSE IF ~VerifyLeaf(p, content) THEN FALSE
  ELSE verifyPathMethod(p)

-----------------------------------------------------------------------------
(* Building the tree: newtreeCache, then Paths() calling calcLayer.        *)

Leaf(pos, depths) == createLeafFromContent(pos, pos % 2 = 0, depths)

Init ==
  /\ n \in 1..MaxLeaves
  /\ treeDepths = Depths(n)
  /\ nodeDepths = treeDepths
  /\ cache = [pos \in 0..n-1 |-> Leaf(pos, treeDepths)]
  /\ paths = [pos \in 0..n-1 |-> <<Leaf(pos, treeDepths)>>]
  /\ lpos = 0
  /\ broken = FALSE
  /\ phase = "layer"
  /\ rcv = Nil /\ rcvFor = Nil /\ claimed = Nil /\ verdict = Nil
  /\ verdictMethod = Nil

hasRight(c, pos) == pos < n - 1 /\ c[pos + 1] # Nil

getRightNode(c, pos, leftNode) ==
  IF hasRight(c, pos) THEN c[pos + 1]
  ELSE emptyNode(~leftNode.IsLeft, leftNode.IsLeaf, leftNode.Depths)

\* Mutant of getRightNode's bookkeeping: the right node's slot is not freed.
freeRightKeep(c, pos) == c

\* getRightNode frees the slot it takes the right node from.
freeRight(c, pos) == IF hasRight(c, pos) THEN [c EXCEPT ![pos + 1] = Nil] ELSE c

\* Mutant of newParent: the parent's side taken from the wrong parity.
newParentOdd(c, leftNode, rightNode, writePos) ==
  [c EXCEPT ![writePos] = ParentPathElement(writePos % 2 = 1, leftNode, rightNode)]

\* newParent: the parent is written at lpos / 2, left if that is even.
newParent(c, leftNode, rightNode, writePos) ==
  [c EXCEPT ![writePos] = ParentPathElement(writePos % 2 = 0, leftNode, rightNode)]

\* One iteration of NodeLoop: getLeftNode frees the slot and panics on a
\* depth other than the layer's; the root (depth 0) goes into every path
\* and ends the loop; otherwise getRightNode (which panics the same way),
\* distributePaths and newParent, and lpos advances by two.
NodeStep ==
  /\ phase = "layer" /\ ~broken
  /\ lpos < n /\ cache[lpos] # Nil
  /\ LET leftNode == cache[lpos]
         c1 == [cache EXCEPT ![lpos] = Nil]
         rightNode == getRightNode(c1, lpos, leftNode)
         rpos == lpos \div 2
     IN IF leftNode.Depths # nodeDepths
        THEN /\ phase' = "panic" /\ cache' = c1
             /\ UNCHANGED <<paths, lpos, broken>>
        ELSE IF leftNode.Depths = 0
        THEN /\ paths' = setPaths(paths, 0, n, leftNode)
             /\ cache' = c1 /\ broken' = TRUE
             /\ UNCHANGED <<phase, lpos>>
        ELSE IF hasRight(c1, lpos) /\ rightNode.Depths # nodeDepths
        THEN /\ phase' = "panic" /\ cache' = freeRight(c1, lpos)
             /\ UNCHANGED <<paths, lpos, broken>>
        ELSE /\ paths' = distributePaths(paths, leftNode, rightNode, rpos)
             /\ cache' = newParent(freeRight(c1, lpos), leftNode, rightNode, rpos)
             /\ lpos' = lpos + 2
             /\ UNCHANGED <<phase, broken>>
  /\ UNCHANGED <<n, treeDepths, nodeDepths, rcv, rcvFor, claimed, verdict,
                 verdictMethod>>

\* NodeLoop's exit test: past the cache or at a freed slot.
endOfCache == IF lpos >= n THEN TRUE ELSE cache[lpos] = Nil

\* Mutant of calcLayer's end: the depth counter stops at zero instead of
\* going negative, so calcLayer never returns false.
EndLayerClamped ==
  /\ phase = "layer"
  /\ broken \/ endOfCache
  /\ nodeDepths' = IF nodeDepths > 0 THEN nodeDepths - 1 ELSE 0
  /\ lpos' = 0 /\ broken' = FALSE
  /\ UNCHANGED <<n, treeDepths, cache, paths, phase, rcv, rcvFor, claimed, verdict,
                 verdictMethod>>

\* The return of calcLayer: the end of the cache or the root's break ends
\* NodeLoop; the int64 copy of the depth is decremented and Paths() calls
\* calcLayer again while it is not negative.
EndLayer ==
  /\ phase = "layer"
  /\ broken \/ endOfCache
  /\ IF nodeDepths - 1 >= 0
     THEN /\ nodeDepths' = nodeDepths - 1
          /\ lpos' = 0 /\ broken' = FALSE
          /\ UNCHANGED phase
     ELSE /\ phase' = "done"
          /\ UNCHANGED <<nodeDepths, lpos, broken>>
  /\ UNCHANGED <<n, treeDepths, cache, paths, rcv, rcvFor, claimed, verdict,
                 verdictMethod>>

-----------------------------------------------------------------------------
(* The channel: one path goes over the wire, maybe with one element        *)
(* damaged: a flag byte toggled, the depth off by one (uint32), the digest *)
(* changed, two neighbouring elements swapped, or an element dropped.      *)

Damages(len) ==
  {[kind |-> "none"]}
  \cup [kind : {"flag"}, elem : 1..len, field : 1..3]
  \cup [kind : {"depth"}, elem : 1..len, delta : {1, DepthWrap - 1}]
  \cup [kind : {"digest", "drop"}, elem : 1..len]
  \cup [kind : {"swap"}, elem : 1..len - 1]

Damage(bytes, dmg) ==
  CASE dmg.kind = "none"   -> bytes
    [] dmg.kind = "flag"   -> [bytes EXCEPT ![dmg.elem][1][dmg.field] = ~@]
    [] dmg.kind = "depth"  -> [bytes EXCEPT ![dmg.elem][1][4] = (@ + dmg.delta) % DepthWrap]
    [] dmg.kind = "digest" -> [bytes EXCEPT ![dmg.elem][2] = <<Garbled, @>>]
    [] dmg.kind = "drop"   -> RemoveAt(bytes, dmg.elem)
    [] dmg.kind = "swap"   -> [bytes EXCEPT ![dmg.elem] = bytes[dmg.elem + 1],
                                            ![dmg.elem + 1] = bytes[dmg.elem]]

\* A receiver unmarshalls a path of the finished tree and runs Verify2 on
\* it with some leaf content; each behaviour checks one delivery.
Deliver ==
  /\ phase = "done" /\ rcv = Nil
  /\ \E j, content \in 0..n-1 : \E dmg \in Damages(Len(paths[j])) :
       LET p == UnMarshallPath(Damage(Marshall(paths[j]), dmg))
       IN /\ rcv' = p /\ rcvFor' = j /\ claimed' = content
          /\ verdict' = Verify2(p, content)
          /\ verdictMethod' = Verify2Method(p, content)
  /\ UNCHANGED <<n, treeDepths, nodeDepths, cache, paths, lpos, broken, phase>>

Build == NodeStep \/ EndLayer

Next == Build \/ Deliver

\* Paths() is one sequential loop: once called it keeps running.
Spec == Init /\ [][Next]_vars /\ WF_vars(Build)

-----------------------------------------------------------------------------
NonEmpty(p) == SelectSeq(p, LAMBDA e : ~e.IsEmpty)

\* r is o with some of its empty elements left out (as Path.Compress does).
RECURSIVE IsCompressionOf(_, _)
IsCompressionOf(r, o) ==
  IF o = <<>> THEN r = <<>>
  ELSE IF r # <<>> /\ Head(r) = Head(o) THEN IsCompressionOf(Tail(r), Tail(o))
  ELSE Head(o).IsEmpty /\ IsCompressionOf(r, Tail(o))

TypeOK ==
  /\ phase \in {"layer", "done", "panic"}
  /\ n \in 1..MaxLeaves
  /\ nodeDepths \in 0..treeDepths
  /\ lpos \in 0..n + 1
  /\ broken \in BOOLEAN
  /\ \A pos \in 0..n-1 : Len(paths[pos]) <= treeDepths + 2
  /\ phase = "done" => \A pos \in 0..n-1 : Len(paths[pos]) = treeDepths + 2
  /\ verdict \in BOOLEAN \cup {Panic, Nil}
  /\ verdictMethod \in BOOLEAN \cup {Panic, Nil}

\* calcLayer's slot bookkeeping (getLeftNode and getRightNode free what they
\* take) keeps every node in the cache at the layer's depth, so building
\* the tree never reaches the "Tainted nodeCache" panics.
BuildNeverPanics == phase # "panic"

\* Every path Paths() returns verifies with Verify2 for its own leaf: the
\* paths distributePaths assembles agree with the order in which genBranch
\* consumes them.
PathsVerify ==
  (rcvFor # Nil /\ rcv = paths[rcvFor] /\ claimed = rcvFor) => verdict = TRUE

\* Verify2 accepts a path for a leaf content only if the path's non-empty
\* elements are, in order, those of the path Paths() built for that leaf:
\* a changed flag, depth or digest of a non-empty element, or a swap or
\* drop of one, is rejected unless it happens to yield that very path.
DamageDetected ==
  verdict = TRUE => NonEmpty(rcv) = NonEmpty(paths[claimed])

\* Verify2 returns false on a damaged path rather than panicking (the
\* fuzz test treats a recovered panic as a failure).
VerifyNeverPanics == verdict # Panic

\* The verifier verify2.go implements, but Verify2 does not call, meets
\* spec.md 4.H on every delivered path: it never panics, accepts the path
\* built for the leaf, and accepts nothing else but that path with some of
\* its empty elements left out.
MethodVerifierExact ==
  rcv # Nil => /\ verdictMethod \in BOOLEAN
               /\ rcv = paths[claimed] => verdictMethod
               /\ verdictMethod => IsCompressionOf(rcv, paths[claimed])

\* Paths() returns: calcLayer eventually reports no more layers.
BuildTerminates == <>(phase = "done")

=============================================================================
