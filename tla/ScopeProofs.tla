----------------------------- MODULE ScopeProofs -----------------------------
(***************************************************************************)
(* Proofs about scopes and the names in them.  Of ImportWalk: for every    *)
(* set of scopes and every graph of imports, visible_from collects exactly *)
(* what is reachable, import_cycle finds a cycle if there is one and only  *)
(* then, and without a cycle every scope is covered by a generation        *)
(* target.  Of Expansion: for every project, what the checks let through   *)
(* means one thing wherever it is seen, and the expansion of fragments     *)
(* ends, cuts only what is on a cycle, and reports all of that.            *)
(***************************************************************************)
EXTENDS ImportWalk, Expansion, FiniteSetTheorems, WellFoundedInduction, TLAPS

-----------------------------------------------------------------------------
(* Numbers *)

\* A set of natural numbers that is not empty has a least one.
LEMMA LeastNumber ==
  ASSUME NEW S, S \subseteq Nat, S # {}
  PROVE  \E m \in S: \A k \in S: m <= k
<1> DEFINE R == OpToRel(<, Nat)
<1>1. IsWellFoundedOn(R, Nat)  BY NatLessThanWellFounded
<1>2. \A x, y \in Nat: <<y, x>> \in R <=> y < x  BY DEF OpToRel
<1> HIDE DEF R
<1>3. PICK x \in S: \A y \in S: ~(<<y, x>> \in R)  BY <1>1, WFMin
<1>4. \A k \in S: x <= k
  <2> TAKE k \in S
  <2>1. k \in Nat /\ x \in Nat  OBVIOUS
  <2>2. ~(k < x)  BY <1>2, <1>3, <2>1
  <2> QED  BY <2>1, <2>2
<1> QED  BY <1>4

-----------------------------------------------------------------------------
(* What a scope sees *)

LEMMA ImportIsWithinReach ==
  ASSUME NEW graph, NEW scope, NEW other, NEW import \in ImportsFrom(graph, other)
  PROVE  import \in WithinReachOf(graph, scope)
<1>1. other \in DOMAIN graph
  BY DEF ImportsFrom, ImportList, ToSet
<1>2. ImportsFrom(graph, other) = ToSet(graph[other])
  BY <1>1, Zenon DEF ImportsFrom, ImportList
<1> QED  BY <1>1, <1>2, Zenon DEF WithinReachOf

\* Seeing is being in every closed set, whatever else the set contains.
LEMMA SeenIsInClosedSets ==
  ASSUME NEW graph, NEW scope, NEW other, Sees(graph, scope, other),
         NEW C, scope \in C, ClosedUnderImports(graph, C)
  PROVE  other \in C
<1> DEFINE D == C \cap WithinReachOf(graph, scope)
<1>1. D \in SUBSET WithinReachOf(graph, scope)  OBVIOUS
<1>2. scope \in D  BY Zenon DEF WithinReachOf
<1>3. ClosedUnderImports(graph, D)
  BY ImportIsWithinReach, Zenon DEF ClosedUnderImports
<1> QED  BY <1>1, <1>2, <1>3, Zenon DEF Sees

LEMMA SeesItself ==
  ASSUME NEW graph, NEW scope  PROVE  Sees(graph, scope, scope)
  BY Zenon DEF Sees

LEMMA SeesImports ==
  ASSUME NEW graph, NEW scope, NEW other, Sees(graph, scope, other),
         NEW import \in ImportsFrom(graph, other)
  PROVE  Sees(graph, scope, import)
  BY Zenon DEF Sees, ClosedUnderImports

LEMMA SeesThroughImport ==
  ASSUME NEW graph, NEW scope, NEW import \in ImportsFrom(graph, scope),
         NEW other, Sees(graph, import, other)
  PROVE  Sees(graph, scope, other)
<1> SUFFICES ASSUME NEW C \in SUBSET WithinReachOf(graph, scope),
                    scope \in C, ClosedUnderImports(graph, C)
             PROVE  other \in C
  BY Zenon DEF Sees
<1>1. import \in C  BY Zenon DEF ClosedUnderImports
<1> QED  BY <1>1, SeenIsInClosedSets, Zenon

LEMMA SeenIsVisible ==
  ASSUME NEW graph, NEW scope, NEW other
  PROVE  other \in VisibleFrom(graph, scope) <=> Sees(graph, scope, other)
<1>1. scope \in WithinReachOf(graph, scope)  BY Zenon DEF WithinReachOf
<1>2. ClosedUnderImports(graph, WithinReachOf(graph, scope))
  BY ImportIsWithinReach, Zenon DEF ClosedUnderImports
<1> QED  BY <1>1, <1>2, SeenIsInClosedSets, Zenon DEF VisibleFrom

-----------------------------------------------------------------------------
(* Types *)

Frames == [scope: ScopeName, next: Nat \ {0}]

WalkTypeOK ==
    /\ imports \in ImportGraphs /\ start \in ScopeName
    /\ walk \in {"visible", "cycle"}
    /\ stack \in Seq(Frames)
    /\ visible \in Seq(ScopeName)
    /\ root \in Nat \ {0}
    /\ visited \in SUBSET ScopeName
    /\ cycle \in Seq(ScopeName)

LEMMA GraphIsTyped ==
  ASSUME imports \in ImportGraphs
  PROVE  /\ DOMAIN imports = ToSet(Configured)
         /\ \A scope: ImportList(imports, scope) \in Seq(ScopeName)
         /\ \A scope: ImportsFrom(imports, scope) \in SUBSET ScopeName
<1>1. imports \in [ToSet(Configured) -> Seq(ScopeName)]  BY GraphsOfScopes
<1>2. \A scope: ImportList(imports, scope) \in Seq(ScopeName)
  BY <1>1 DEF ImportList
<1> QED  BY <1>1, <1>2 DEF ImportsFrom, ToSet

LEMMA TopFrame ==
  ASSUME WalkTypeOK, stack # <<>>
  PROVE  /\ Len(stack) \in Nat \ {0} /\ Len(stack) \in DOMAIN stack
         /\ Here \in ScopeName /\ stack[Len(stack)].next \in Nat \ {0}
         /\ HereImports \in Seq(ScopeName)
<1>1. stack \in Seq(Frames)  BY DEF WalkTypeOK
<1>2. Len(stack) \in Nat \ {0} /\ Len(stack) \in DOMAIN stack  BY <1>1
<1>3. stack[Len(stack)] \in Frames  BY <1>1, <1>2
<1>4. Here \in ScopeName /\ stack[Len(stack)].next \in Nat \ {0}  BY <1>3 DEF Here, Frames
<1>5. HereImports \in Seq(ScopeName)  BY GraphIsTyped DEF WalkTypeOK, HereImports
<1> QED  BY <1>2, <1>4, <1>5

\* What a call comes to is an import of its scope.
LEMMA ImportIsTyped ==
  ASSUME WalkTypeOK, AtImport
  PROVE  Import \in ScopeName /\ Import \in ImportsFrom(imports, Here)
<1>1. stack[Len(stack)].next \in 1..Len(HereImports) /\ HereImports \in Seq(ScopeName)
  BY TopFrame DEF AtImport
<1>2. Import \in ScopeName  BY <1>1 DEF Import
<1>3. stack[Len(stack)].next \in DOMAIN HereImports  BY <1>1
<1>4. ImportsFrom(imports, Here) = {HereImports[i] : i \in DOMAIN HereImports}
  BY Zenon DEF ImportsFrom, ToSet, HereImports
<1> QED  BY <1>2, <1>3, <1>4, Zenon DEF Import

LEMMA AdvancedFrames ==
  ASSUME WalkTypeOK, stack # <<>>
  PROVE  /\ Advanced \in Seq(Frames) /\ Len(Advanced) = Len(stack)
         /\ \A i \in 1..Len(stack):
                /\ Advanced[i].scope = stack[i].scope
                /\ Advanced[i].next = IF i = Len(stack) THEN stack[i].next + 1 ELSE stack[i].next
<1>1. stack \in Seq(Frames)  BY DEF WalkTypeOK
<1>2. \A i \in 1..Len(stack): stack[i] \in Frames  BY <1>1
<1>3. /\ DOMAIN Advanced = 1..Len(stack)
      /\ \A i \in 1..Len(stack):
            Advanced[i] = IF i = Len(stack) THEN [stack[i] EXCEPT !.next = @ + 1] ELSE stack[i]
  BY <1>1 DEF Advanced
<1>4. \A i \in 1..Len(stack):
        /\ Advanced[i] \in Frames
        /\ Advanced[i].scope = stack[i].scope
        /\ Advanced[i].next = IF i = Len(stack) THEN stack[i].next + 1 ELSE stack[i].next
  BY <1>2, <1>3 DEF Frames
<1>5. Advanced = [i \in 1..Len(stack) |-> Advanced[i]]
  <2> DEFINE top == Len(stack)
             moved == [stack[top] EXCEPT !.next = @ + 1]
  <2>1. Advanced = [stack EXCEPT ![top] = moved]  BY DEF Advanced
  <2>2. DOMAIN stack = 1..top  BY <1>1
  <2> HIDE DEF moved, top
  <2>3. Advanced = [i \in 1..top |-> Advanced[i]]  BY <2>1, <2>2, Zenon
  <2> QED  BY <2>3 DEF top
<1>6. Len(stack) \in Nat  BY <1>1
<1>7. Advanced \in Seq(Frames) /\ Len(Advanced) = Len(stack)
  BY <1>3, <1>4, <1>5, <1>6
<1> QED  BY <1>4, <1>7

\* The calls that stay open are still being visited.
LEMMA StaysOnStack ==
  ASSUME \A i \in DOMAIN stack: i \in DOMAIN stack' /\ stack'[i].scope = stack[i].scope
  PROVE  \A scope: OnStack(scope) => OnStack(scope)'
  BY Zenon DEF OnStack

LEMMA CalledFrames ==
  ASSUME WalkTypeOK, AtImport
  PROVE  /\ Called \in Seq(Frames) /\ Len(Called) = Len(stack) + 1
         /\ \A i \in 1..Len(stack): Called[i] = Advanced[i]
         /\ Called[Len(stack) + 1].scope = Import
         /\ Called[Len(stack) + 1].next = 1
<1>1. Advanced \in Seq(Frames) /\ Len(Advanced) = Len(stack)
  BY AdvancedFrames DEF AtImport
<1>2. Frame(Import) \in Frames /\ Frame(Import).scope = Import /\ Frame(Import).next = 1
  BY ImportIsTyped DEF Frame, Frames
<1> QED  BY <1>1, <1>2 DEF Called

LEMMA FrontFrames ==
  ASSUME WalkTypeOK, stack # <<>>
  PROVE  /\ Front(stack) \in Seq(Frames) /\ Len(Front(stack)) = Len(stack) - 1
         /\ \A i \in 1..(Len(stack) - 1): Front(stack)[i] = stack[i]
<1>1. stack \in Seq(Frames) /\ Len(stack) \in Nat \ {0}  BY TopFrame DEF WalkTypeOK
<1>2. \A i \in 1..(Len(stack) - 1): stack[i] \in Frames  BY <1>1
<1>3. Front(stack) = [i \in 1..(Len(stack) - 1) |-> stack[i]]
  BY <1>1 DEF Front
<1> QED  BY <1>1, <1>2, <1>3

LEMMA WalkTypeInvariant == WalkSpec => []WalkTypeOK
<1>1. WalkInit => WalkTypeOK
  <2> SUFFICES ASSUME WalkInit PROVE WalkTypeOK
    OBVIOUS
  <2>1. Frame(start) \in Frames  BY DEF WalkInit, Frame, Frames
  <2>2. /\ <<>> \in Seq(Frames) /\ <<Frame(start)>> \in Seq(Frames)
        /\ <<>> \in Seq(ScopeName) /\ (start \in ScopeName => <<start>> \in Seq(ScopeName))
    BY <2>1
  <2>3. stack \in Seq(Frames) /\ visible \in Seq(ScopeName) /\ cycle \in Seq(ScopeName)
    BY <2>2, Zenon DEF WalkInit
  <2>4. root \in Nat \ {0} /\ visited \in SUBSET ScopeName  BY DEF WalkInit
  <2> QED  BY <2>3, <2>4, Zenon DEF WalkInit, WalkTypeOK
<1>2. WalkTypeOK /\ [WalkNext]_walkVars => WalkTypeOK'
  <2> SUFFICES ASSUME WalkTypeOK, [WalkNext]_walkVars PROVE WalkTypeOK'
    OBVIOUS
  <2> USE DEF WalkTypeOK
  <2>1. CASE CollectSeen
    BY <2>1, AdvancedFrames DEF CollectSeen, AtImport
  <2>2. CASE CollectNew
    <3>1. Import \in ScopeName  BY <2>2, ImportIsTyped DEF CollectNew
    <3>2. visible' \in Seq(ScopeName)  BY <2>2, <3>1 DEF CollectNew
    <3> QED  BY <2>2, <3>2, CalledFrames DEF CollectNew
  <2>3. CASE CollectReturns
    BY <2>3, FrontFrames DEF CollectReturns, AtEnd
  <2>4. CASE VisitRoot
    <3>1. Configured[root] \in ScopeName
      BY <2>4, ConfiguredScopes DEF VisitRoot
    <3>2. Frame(Configured[root]) \in Frames  BY <3>1 DEF Frame, Frames
    <3>3. stack' \in Seq(Frames)  BY <2>4, <3>2 DEF VisitRoot
    <3> QED  BY <2>4, <3>3 DEF VisitRoot
  <2>5. CASE VisitVisited
    BY <2>5, AdvancedFrames DEF VisitVisited, AtImport
  <2>6. CASE VisitNew
    BY <2>6, CalledFrames DEF VisitNew
  <2>7. CASE FindCycle
    <3> DEFINE first == CHOOSE i \in DOMAIN stack: stack[i].scope = Import
               n == Len(stack) - first + 1
               path == [i \in 1..n |-> stack[first + i - 1].scope]
    <3>1. Import \in ScopeName  BY <2>7, ImportIsTyped DEF FindCycle
    <3>2. first \in DOMAIN stack
      BY <2>7 DEF FindCycle, OnStack
    <3>3. stack \in Seq(Frames) /\ DOMAIN stack = 1..Len(stack) /\ Len(stack) \in Nat  OBVIOUS
    <3> HIDE DEF first
    <3>4. n \in Nat /\ \A i \in 1..n: first + i - 1 \in DOMAIN stack
      BY <3>2, <3>3
    <3>5. \A i \in 1..n: stack[first + i - 1].scope \in ScopeName
      <4> TAKE i \in 1..n
      <4>1. stack[first + i - 1] \in Frames  BY <3>3, <3>4
      <4> QED  BY <4>1 DEF Frames
    <3> HIDE DEF n
    <3>6. path \in Seq(ScopeName)  BY <3>4, <3>5
    <3>7. cycle' = Append(path, Import)
      BY <2>7 DEF FindCycle, CycleOf, first, n
    <3> HIDE DEF path
    <3>8. cycle' \in Seq(ScopeName)  BY <3>1, <3>6, <3>7
    <3>9. stack' \in Seq(Frames)  BY <2>7 DEF FindCycle
    <3> QED  BY <2>7, <3>8, <3>9 DEF FindCycle
  <2>8. CASE FinishVisit
    BY <2>8, FrontFrames, TopFrame DEF FinishVisit, AtEnd
  <2>9. CASE UNCHANGED walkVars
    BY <2>9 DEF walkVars
  <2> QED  BY <2>1, <2>2, <2>3, <2>4, <2>5, <2>6, <2>7, <2>8, <2>9 DEF WalkNext
<1> QED  BY <1>1, <1>2, PTL DEF WalkSpec

-----------------------------------------------------------------------------
(* Frames *)

\* The imports that a frame has come to.
Taken(graph, frame) == {ImportList(graph, frame.scope)[j] : j \in 1..(frame.next - 1)}

LEMMA TakenAtFirst ==
  ASSUME NEW graph, NEW frame, frame.next = 1  PROVE  Taken(graph, frame) = {}
  BY DEF Taken

LEMMA TakenAtEnd ==
  ASSUME WalkTypeOK, AtEnd
  PROVE  ImportsFrom(imports, Here) \subseteq Taken(imports, stack[Len(stack)])
<1>1. /\ stack[Len(stack)].next \in Nat \ {0} /\ stack[Len(stack)].next > Len(HereImports)
      /\ HereImports \in Seq(ScopeName)
  BY TopFrame DEF AtEnd
<1>2. DOMAIN HereImports \subseteq 1..(stack[Len(stack)].next - 1)
  BY <1>1
<1> QED  BY <1>2, Zenon DEF Taken, ImportsFrom, ToSet, HereImports, Here

LEMMA TakenNext ==
  ASSUME NEW graph, NEW frame, NEW later, frame.next \in Nat \ {0},
         later.scope = frame.scope, later.next = frame.next + 1
  PROVE  Taken(graph, later) = Taken(graph, frame) \cup {ImportList(graph, frame.scope)[frame.next]}
<1> DEFINE list == ImportList(graph, frame.scope)
<1>1. 1..(later.next - 1) = 1..(frame.next - 1) \cup {frame.next}  OBVIOUS
<1>2. ImportList(graph, later.scope) = list  BY Zenon
<1> DEFINE before == 1..(frame.next - 1)
           after == 1..(later.next - 1)
<1>3. Taken(graph, later) = {list[j] : j \in after}  BY <1>2 DEF Taken
<1>4. Taken(graph, frame) = {list[j] : j \in before}  BY DEF Taken
<1>5. after = before \cup {frame.next}  BY <1>1, Zenon
<1> HIDE DEF list, before, after
<1>6. Taken(graph, later) = Taken(graph, frame) \cup {list[frame.next]}  BY <1>3, <1>4, <1>5, Zenon
<1> QED  BY <1>6, Zenon DEF list

LEMMA TakenAdvanced ==
  ASSUME WalkTypeOK, AtImport
  PROVE  /\ \A i \in 1..Len(stack): i # Len(stack) => Taken(imports, Advanced[i]) = Taken(imports, stack[i])
         /\ Taken(imports, Advanced[Len(stack)]) = Taken(imports, stack[Len(stack)]) \cup {Import}
<1>1. stack # <<>>  BY DEF AtImport
<1>2. \A i \in 1..Len(stack):
        /\ Advanced[i].scope = stack[i].scope
        /\ Advanced[i].next = IF i = Len(stack) THEN stack[i].next + 1 ELSE stack[i].next
  BY <1>1, AdvancedFrames
<1>3. Len(stack) \in 1..Len(stack) /\ stack[Len(stack)].next \in Nat \ {0}
  BY <1>1, TopFrame
<1>4. \A i \in 1..Len(stack): i # Len(stack) => Taken(imports, Advanced[i]) = Taken(imports, stack[i])
  BY <1>2, Zenon DEF Taken
<1>5. /\ Advanced[Len(stack)].scope = stack[Len(stack)].scope
      /\ Advanced[Len(stack)].next = stack[Len(stack)].next + 1
  BY <1>2, <1>3
<1>6. Import = ImportList(imports, stack[Len(stack)].scope)[stack[Len(stack)].next]
  BY Zenon DEF Import, HereImports, Here
<1>7. Taken(imports, Advanced[Len(stack)]) = Taken(imports, stack[Len(stack)]) \cup {Import}
  BY <1>3, <1>5, <1>6, TakenNext, Zenon
<1> QED  BY <1>4, <1>7

LEMMA ToSetAppend ==
  ASSUME NEW S, NEW seq \in Seq(S), NEW e \in S
  PROVE  ToSet(Append(seq, e)) = ToSet(seq) \cup {e}
<1>1. /\ Len(seq) \in Nat /\ DOMAIN seq = 1..Len(seq) /\ DOMAIN Append(seq, e) = 1..(Len(seq) + 1)
      /\ \A i \in 1..Len(seq): Append(seq, e)[i] = seq[i]
      /\ Append(seq, e)[Len(seq) + 1] = e
  OBVIOUS
<1>2. 1..(Len(seq) + 1) = 1..Len(seq) \cup {Len(seq) + 1}  BY <1>1
<1>3. ToSet(seq) \subseteq ToSet(Append(seq, e))  BY <1>1, <1>2 DEF ToSet
<1>4. e \in ToSet(Append(seq, e))  BY <1>1, <1>2 DEF ToSet
<1>5. ASSUME NEW x \in ToSet(Append(seq, e))  PROVE x \in ToSet(seq) \cup {e}
  <2>1. PICK i \in 1..(Len(seq) + 1): x = Append(seq, e)[i]  BY <1>1, <1>5 DEF ToSet
  <2>2. CASE i \in 1..Len(seq)  BY <1>1, <2>1, <2>2 DEF ToSet
  <2>3. CASE i = Len(seq) + 1  BY <1>1, <2>1, <2>3
  <2> QED  BY <1>2, <2>1, <2>2, <2>3
<1> QED  BY <1>3, <1>4, <1>5

-----------------------------------------------------------------------------
(* visible_from *)

\* All that is collected is seen by the scope, a call has collected the imports that it has
\* come to, and a scope without a call has all of its imports collected.
CollectInv ==
    walk = "visible" =>
        /\ visible # <<>> /\ visible[1] = start
        /\ \A i, j \in 1..Len(visible): visible[i] = visible[j] => i = j
        /\ \A scope \in ToSet(visible): Sees(imports, start, scope)
        /\ \A i \in 1..Len(stack):
                stack[i].scope \in ToSet(visible) /\ Taken(imports, stack[i]) \subseteq ToSet(visible)
        /\ \A scope \in ToSet(visible):
                OnStack(scope) \/ ImportsFrom(imports, scope) \subseteq ToSet(visible)

LEMMA CollectInvInit == WalkInit => CollectInv
<1> SUFFICES ASSUME WalkInit, walk = "visible" PROVE CollectInv
  BY DEF CollectInv
<1>1. stack = <<Frame(start)>> /\ visible = <<start>>  BY DEF WalkInit
<1>2. /\ Len(stack) = 1 /\ stack[1].scope = start /\ stack[1].next = 1
      /\ Len(visible) = 1 /\ visible # <<>> /\ visible[1] = start /\ DOMAIN visible = {1} /\ DOMAIN stack = {1}
  BY <1>1 DEF Frame
<1>3. ToSet(visible) = {start}  BY <1>2, Zenon DEF ToSet
<1>4. 1..Len(stack) = {1} /\ 1..Len(visible) = {1}  BY <1>2
<1>5. Taken(imports, stack[1]) = {}  BY <1>2, TakenAtFirst
<1>6. OnStack(start)  BY <1>2, Zenon DEF OnStack
<1> QED  BY <1>2, <1>3, <1>4, <1>5, <1>6, SeesItself, Zenon DEF CollectInv

LEMMA CollectInvStep == WalkTypeOK /\ CollectInv /\ [WalkNext]_walkVars => CollectInv'
<1> SUFFICES ASSUME WalkTypeOK, CollectInv, [WalkNext]_walkVars, walk = "visible" PROVE CollectInv'
  BY DEF CollectInv, WalkNext, walkVars, CollectSeen, CollectNew, CollectReturns, Searching,
         VisitRoot, VisitVisited, VisitNew, FindCycle, FinishVisit
<1> DEFINE top == Len(stack)
<1>typed. stack \in Seq(Frames) /\ visible \in Seq(ScopeName) /\ Len(stack) \in Nat /\ Len(visible) \in Nat
  BY DEF WalkTypeOK
<1>a. /\ visible # <<>> /\ visible[1] = start
      /\ \A i, j \in 1..Len(visible): visible[i] = visible[j] => i = j
      /\ \A scope \in ToSet(visible): Sees(imports, start, scope)
      /\ \A i \in 1..Len(stack):
            stack[i].scope \in ToSet(visible) /\ Taken(imports, stack[i]) \subseteq ToSet(visible)
      /\ \A scope \in ToSet(visible):
            OnStack(scope) \/ ImportsFrom(imports, scope) \subseteq ToSet(visible)
  BY Zenon DEF CollectInv
<1>b. \A scope: OnStack(scope) <=> \E i \in 1..Len(stack): stack[i].scope = scope
  BY <1>typed DEF OnStack
<1>1. CASE CollectSeen
  <2>1. AtImport /\ stack' = Advanced /\ UNCHANGED <<imports, start, visible>> /\ Import \in ToSet(visible)
    BY <1>1, <1>typed DEF CollectSeen, Contains, ToSet
  <2>2. /\ Advanced \in Seq(Frames) /\ Len(Advanced) = Len(stack)
        /\ \A i \in 1..Len(stack): Advanced[i].scope = stack[i].scope
    BY <2>1, AdvancedFrames DEF AtImport
  <2>3. \A i \in 1..Len(stack): Taken(imports, Advanced[i]) \subseteq ToSet(visible)
    BY <1>a, <2>1, TakenAdvanced, Zenon
  <2>4. \A scope: OnStack(scope) => OnStack(scope)'
    BY <1>b, <2>1, <2>2 DEF OnStack
  <2> QED  BY <1>a, <2>1, <2>2, <2>3, <2>4, Zenon DEF CollectInv
<1>2. CASE CollectNew
  <2>1. /\ AtImport /\ stack' = Called /\ visible' = Append(visible, Import)
        /\ UNCHANGED <<imports, start>> /\ Import \notin ToSet(visible)
    BY <1>2, <1>typed DEF CollectNew, Contains, ToSet
  <2>2. Import \in ScopeName /\ Import \in ImportsFrom(imports, Here) /\ top \in 1..top /\ stack # <<>>
    BY <2>1, ImportIsTyped, TopFrame DEF AtImport
  <2>3. ToSet(visible') = ToSet(visible) \cup {Import}
    BY <1>typed, <2>1, <2>2, ToSetAppend
  <2>4. /\ Len(visible') = Len(visible) + 1 /\ visible'[Len(visible) + 1] = Import
        /\ \A i \in 1..Len(visible): visible'[i] = visible[i]
        /\ visible' # <<>>
    BY <1>typed, <2>1, <2>2
  <2>5. /\ Len(stack') = Len(stack) + 1
        /\ \A i \in 1..Len(stack): stack'[i] = Advanced[i] /\ stack'[i].scope = stack[i].scope
        /\ stack'[Len(stack) + 1].scope = Import /\ stack'[Len(stack) + 1].next = 1
        /\ stack' \in Seq(Frames)
    BY <2>1, <2>2, CalledFrames, AdvancedFrames
  <2>6. visible'[1] = start
    BY <1>a, <1>typed, <2>4
  <2>7. \A i, j \in 1..Len(visible'): visible'[i] = visible'[j] => i = j
    <3>1. \A i \in 1..Len(visible): visible[i] # Import
      BY <2>1, <1>typed DEF ToSet
    <3> QED  BY <1>a, <1>typed, <2>4, <3>1
  <2>8. \A scope \in ToSet(visible'): Sees(imports, start, scope)
    <3>1. Here \in ToSet(visible)  BY <1>a, <2>2, Zenon DEF Here
    <3> QED  BY <1>a, <2>2, <2>3, <3>1, SeesImports, Zenon
  <2>9. \A i \in 1..Len(stack'):
            stack'[i].scope \in ToSet(visible') /\ Taken(imports, stack'[i]) \subseteq ToSet(visible')
    <3>1. \A i \in 1..Len(stack): Taken(imports, stack'[i]) \subseteq ToSet(visible')
      <4> TAKE i \in 1..Len(stack)
      <4>1. stack'[i] = Advanced[i]  BY <2>5, Zenon
      <4>2. CASE i = Len(stack)
        BY <1>a, <2>1, <2>3, <4>1, <4>2, TakenAdvanced, Zenon
      <4>3. CASE i # Len(stack)
        <5>1. Taken(imports, Advanced[i]) = Taken(imports, stack[i])
          BY <2>1, <4>3, TakenAdvanced, Zenon
        <5> QED  BY <1>a, <2>3, <4>1, <5>1, Zenon
      <4> QED  BY <4>2, <4>3
    <3>2. Taken(imports, stack'[Len(stack) + 1]) = {}
      BY <2>5, TakenAtFirst
    <3>3. \A i \in 1..Len(stack'): i \in 1..Len(stack) \/ i = Len(stack) + 1
      BY <1>typed, <2>5
    <3> QED  BY <1>a, <2>3, <2>5, <3>1, <3>2, <3>3, Zenon
  <2>10. \A scope \in ToSet(visible'):
            OnStack(scope)' \/ ImportsFrom(imports, scope) \subseteq ToSet(visible')
    <3>1. DOMAIN stack' = 1..(Len(stack) + 1)  BY <1>typed, <2>5
    <3>2. \A scope: OnStack(scope) => OnStack(scope)'
      BY <1>b, <1>typed, <2>5, <3>1 DEF OnStack
    <3>3. \A scope: scope = Import => OnStack(scope)'
      <4>1. Len(stack) + 1 \in DOMAIN stack'  BY <1>typed, <3>1
      <4>2. \A scope: scope = stack'[Len(stack) + 1].scope => OnStack(scope)'
        BY <4>1, Zenon DEF OnStack
      <4> QED  BY <2>5, <4>2, Zenon
    <3> QED  BY <1>a, <2>3, <3>2, <3>3, Zenon
  <2> QED  BY <2>1, <2>4, <2>6, <2>7, <2>8, <2>9, <2>10, Zenon DEF CollectInv
<1>3. CASE CollectReturns
  <2>1. AtEnd /\ stack # <<>> /\ stack' = Front(stack) /\ UNCHANGED <<imports, start, visible>>
    BY <1>3 DEF CollectReturns, AtEnd
  <2>2. /\ stack' \in Seq(Frames) /\ Len(stack') = Len(stack) - 1
        /\ \A i \in 1..(Len(stack) - 1): stack'[i] = stack[i]
    BY <2>1, FrontFrames
  <2>3. Len(stack) \in 1..Len(stack)  BY <2>1, TopFrame
  <2>4. ImportsFrom(imports, Here) \subseteq ToSet(visible)
    BY <1>a, <2>1, <2>3, TakenAtEnd, Zenon
  <2>5. \A scope: OnStack(scope) => OnStack(scope)' \/ scope = Here
    BY <1>b, <1>typed, <2>2 DEF OnStack, Here
  <2>6. \A i \in 1..Len(stack'): i \in 1..Len(stack) /\ stack'[i] = stack[i]
    BY <1>typed, <2>2
  <2> QED  BY <1>a, <2>1, <2>4, <2>5, <2>6, Zenon DEF CollectInv
<1>4. CASE UNCHANGED walkVars
  BY <1>a, <1>4, Zenon DEF CollectInv, walkVars, OnStack
<1> QED
  BY <1>1, <1>2, <1>3, <1>4 DEF WalkNext, Searching, VisitRoot, VisitVisited, VisitNew, FindCycle, FinishVisit

LEMMA CollectDoneIsRight == WalkTypeOK /\ CollectInv /\ CollectDone => CollectsWhatIsSeen
<1> SUFFICES ASSUME WalkTypeOK, CollectInv, CollectDone PROVE CollectsWhatIsSeen
  OBVIOUS
<1>1. walk = "visible" /\ stack = <<>>  BY DEF CollectDone
<1>2. /\ visible[1] = start /\ 1 \in DOMAIN visible /\ DOMAIN visible = 1..Len(visible)
      /\ \A i, j \in 1..Len(visible): visible[i] = visible[j] => i = j
  BY <1>1 DEF CollectInv, WalkTypeOK
<1>3. IsInjective(visible)  BY <1>2, Zenon DEF IsInjective
<1>4. \A scope: ~OnStack(scope)  BY <1>1 DEF OnStack
<1>5. ClosedUnderImports(imports, ToSet(visible))
  BY <1>1, <1>4, Zenon DEF CollectInv, ClosedUnderImports
<1>6. start \in ToSet(visible)  BY <1>2, Zenon DEF ToSet
<1>7. \A scope: scope \in ToSet(visible) <=> Sees(imports, start, scope)
  BY <1>1, <1>5, <1>6, SeenIsInClosedSets, Zenon DEF CollectInv
<1>8. ToSet(visible) = VisibleFrom(imports, start)
  BY <1>7, SeenIsVisible, Zenon
<1> QED  BY <1>2, <1>3, <1>8, Zenon DEF CollectsWhatIsSeen

-----------------------------------------------------------------------------
(* import_cycle *)

\* Scopes that import each other in an order: each has a number, below n, that is above
\* those of its imports.
Numbered(graph, scopes, number, n) ==
    \A scope \in scopes:
        /\ number[scope] < n
        /\ \A import \in ImportsFrom(graph, scope): import \in scopes /\ number[import] < number[scope]

Ordered(graph, scopes) == \E n \in Nat: \E number \in [scopes -> Nat]: Numbered(graph, scopes, number, n)

\* The visited scopes import each other in an order; the calls are a path along imports that
\* meets no scope twice, and have come to nothing but visited scopes and the next call; no
\* configured scope before root was left out.
SearchInv ==
    walk = "cycle" =>
        /\ Ordered(imports, visited)
        /\ \A i, j \in 1..Len(stack): stack[i].scope = stack[j].scope => i = j
        /\ \A i \in 1..Len(stack): stack[i].scope \notin visited
        /\ \A i \in 1..(Len(stack) - 1):
                /\ stack[i + 1].scope \in ImportsFrom(imports, stack[i].scope)
                /\ Taken(imports, stack[i]) \subseteq visited \cup {stack[i + 1].scope}
        /\ stack # <<>> => Taken(imports, stack[Len(stack)]) \subseteq visited
        /\ cycle = <<>> => \A r \in 1..(root - 1):
                r \in DOMAIN Configured => Configured[r] \in visited \/ OnStack(Configured[r])
        /\ cycle # <<>> => IsImportCycle(cycle)

\* A scope whose imports are all in the order comes after them.
LEMMA OrderedWithImporter ==
  ASSUME NEW graph, NEW scopes, Ordered(graph, scopes),
         NEW scope, scope \notin scopes, ImportsFrom(graph, scope) \subseteq scopes
  PROVE  Ordered(graph, scopes \cup {scope})
<1>1. PICK n \in Nat, number \in [scopes -> Nat]: Numbered(graph, scopes, number, n)
  BY Zenon DEF Ordered
<1> DEFINE all == scopes \cup {scope}
           later == [s \in all |-> IF s = scope THEN n ELSE number[s]]
<1>2. later \in [all -> Nat] /\ n + 1 \in Nat  OBVIOUS
<1>3. later[scope] = n /\ \A s \in scopes: later[s] = number[s]  OBVIOUS
<1> HIDE DEF later
<1>4. Numbered(graph, all, later, n + 1)
  <2> SUFFICES ASSUME NEW s \in all
               PROVE  /\ later[s] < n + 1
                      /\ \A import \in ImportsFrom(graph, s): import \in all /\ later[import] < later[s]
    BY Zenon DEF Numbered
  <2>0. \A t \in scopes: number[t] \in Nat  OBVIOUS
  <2>1. CASE s \in scopes
    <3>1. number[s] < n /\ \A import \in ImportsFrom(graph, s): import \in scopes /\ number[import] < number[s]
      BY <1>1, <2>1, Zenon DEF Numbered
    <3>2. later[s] < n + 1  BY <1>3, <2>0, <2>1, <3>1
    <3>3. \A import \in ImportsFrom(graph, s): later[import] < later[s]
      BY <1>3, <2>1, <3>1, Zenon
    <3> QED  BY <3>1, <3>2, <3>3, Zenon
  <2>2. CASE s = scope
    <3>1. later[s] = n  BY <1>3, <2>2
    <3>2. \A import \in ImportsFrom(graph, s): import \in scopes /\ number[import] < n
      BY <1>1, <2>2, Zenon DEF Numbered
    <3>3. \A import \in ImportsFrom(graph, s): import \in all /\ later[import] < later[s]
      BY <1>3, <3>1, <3>2, Zenon
    <3> QED  BY <3>1, <3>3
  <2> QED  BY <2>1, <2>2
<1> QED  BY <1>2, <1>4, Zenon DEF Ordered

\* Nothing in an order is on a cycle: what an import sees has no higher number than it.
LEMMA OrderedIsAcyclic ==
  ASSUME NEW graph, NEW scopes, Ordered(graph, scopes), NEW scope \in scopes
  PROVE  ~OnImportCycle(graph, scope)
<1> SUFFICES ASSUME NEW import \in ImportsFrom(graph, scope), Sees(graph, import, scope) PROVE FALSE
  BY Zenon DEF OnImportCycle
<1>1. PICK n \in Nat, number \in [scopes -> Nat]: Numbered(graph, scopes, number, n)
  BY Zenon DEF Ordered
<1>2. import \in scopes /\ number[import] < number[scope]
  BY <1>1, Zenon DEF Numbered
<1>3. \A s \in scopes: number[s] \in Nat  OBVIOUS
<1> DEFINE C == {s \in scopes: number[s] <= number[import]}
<1>4. ClosedUnderImports(graph, C)
  <2> SUFFICES ASSUME NEW s \in C, NEW t \in ImportsFrom(graph, s) PROVE t \in C
    BY Zenon DEF ClosedUnderImports
  <2>1. t \in scopes /\ number[t] < number[s]  BY <1>1, Zenon DEF Numbered
  <2> QED  BY <1>2, <1>3, <2>1
<1>5. import \in C  BY <1>2, <1>3
<1>6. scope \in C  BY <1>4, <1>5, SeenIsInClosedSets, Zenon
<1> QED  BY <1>2, <1>3, <1>6

LEMMA SearchInvInit == WalkInit => SearchInv
<1> SUFFICES ASSUME WalkInit, walk = "cycle" PROVE SearchInv
  BY DEF SearchInv
<1>1. stack = <<>> /\ visited = {} /\ cycle = <<>> /\ root = 1  BY DEF WalkInit
<1>2. Ordered(imports, visited)
  <2>1. [s \in visited |-> 0] \in [visited -> Nat] /\ 0 \in Nat  BY <1>1
  <2>2. Numbered(imports, visited, [s \in visited |-> 0], 0)  BY <1>1, Zenon DEF Numbered
  <2> QED  BY <2>1, <2>2, Zenon DEF Ordered
<1>3. Len(stack) = 0 /\ 1..Len(stack) = {} /\ 1..(Len(stack) - 1) = {} /\ 1..(root - 1) = {}
  BY <1>1
<1> QED  BY <1>1, <1>2, <1>3, Zenon DEF SearchInv

\* The part of the stack that the search finds closed.
LEMMA CycleIsFound ==
  ASSUME WalkTypeOK, SearchInv, walk = "cycle", AtImport, OnStack(Import)
  PROVE  IsImportCycle(CycleOf(Import)) /\ CycleOf(Import) # <<>>
<1> DEFINE first == CHOOSE i \in DOMAIN stack: stack[i].scope = Import
           top == Len(stack)
           n == top - first + 1
           path == [i \in 1..n |-> stack[first + i - 1].scope]
           found == CycleOf(Import)
<1>1. stack \in Seq(Frames) /\ DOMAIN stack = 1..top /\ top \in Nat  BY DEF WalkTypeOK
<1>2. first \in 1..top /\ stack[first].scope = Import
  BY <1>1 DEF OnStack
<1>3. found = Append(path, Import)  BY DEF CycleOf
<1>4. Import \in ImportsFrom(imports, stack[top].scope)
  BY ImportIsTyped, Zenon DEF Here
<1>5. /\ \A i, j \in 1..top: stack[i].scope = stack[j].scope => i = j
      /\ \A i \in 1..(top - 1): stack[i + 1].scope \in ImportsFrom(imports, stack[i].scope)
  BY Zenon DEF SearchInv
<1> HIDE DEF first, top
<1>6. n \in Nat \ {0}  BY <1>1, <1>2
<1>7. /\ Len(path) = n /\ path \in Seq({stack[i].scope : i \in 1..top})
      /\ \A k \in 1..n: path[k] = stack[first + k - 1].scope
  BY <1>1, <1>2, <1>6
<1> HIDE DEF path, n
<1>8. /\ Len(found) = n + 1 /\ found[n + 1] = Import
      /\ \A k \in 1..n: found[k] = stack[first + k - 1].scope
  BY <1>3, <1>6, <1>7
<1> HIDE DEF found
<1>9. found[1] = found[Len(found)]
  <2>1. found[1] = stack[first + 1 - 1].scope  BY <1>6, <1>8
  <2>2. first + 1 - 1 = first  BY <1>1, <1>2
  <2> QED  BY <1>2, <1>8, <2>1, <2>2
<1>10. ASSUME NEW k \in 1..(Len(found) - 1) PROVE found[k + 1] \in ImportsFrom(imports, found[k])
  <2>1. k \in 1..n  BY <1>6, <1>8
  <2>2. CASE k = n
    <3>1. first + k - 1 = top  BY <1>1, <1>2, <2>2 DEF n
    <3> QED  BY <1>4, <1>8, <2>1, <2>2, <3>1
  <2>3. CASE k # n
    <3>1. k + 1 \in 1..n /\ first + (k + 1) - 1 = (first + k - 1) + 1 /\ first + k - 1 \in 1..(top - 1)
      BY <1>1, <1>2, <2>1, <2>3 DEF n
    <3> QED  BY <1>5, <1>8, <2>1, <3>1
  <2> QED  BY <2>2, <2>3
<1>11. ASSUME NEW i \in 2..Len(found), NEW j \in 2..Len(found), found[i] = found[j], i < j PROVE FALSE
  <2>1. i \in 1..n /\ first + i - 1 \in 1..top /\ first + i - 1 # first
    BY <1>1, <1>2, <1>6, <1>8, <1>11 DEF n
  <2>2. CASE j = n + 1
    BY <1>2, <1>5, <1>8, <1>11, <2>1, <2>2
  <2>3. CASE j # n + 1
    <3>1. j \in 1..n /\ first + j - 1 \in 1..top /\ first + i - 1 # first + j - 1
      BY <1>1, <1>2, <1>6, <1>8, <1>11, <2>3 DEF n
    <3> QED  BY <1>5, <1>8, <1>11, <2>1, <3>1
  <2> QED  BY <2>2, <2>3
<1>12. ASSUME NEW i \in 2..Len(found), NEW j \in 2..Len(found), found[i] = found[j] PROVE i = j
  <2>1. i \in Int /\ j \in Int  BY <1>6, <1>8
  <2>2. ~(i < j) /\ ~(j < i)  BY <1>11, <1>12
  <2> QED  BY <2>1, <2>2
<1>13. Len(found) > 1 /\ found # <<>>  BY <1>6, <1>8
<1> QED  BY <1>9, <1>10, <1>12, <1>13, Zenon DEF IsImportCycle, found

LEMMA Positions ==
  ASSUME NEW n \in Nat
  PROVE  /\ \A i \in 1..(n - 1): i \in 1..n /\ i + 1 \in 1..n /\ i # n
         /\ \A i \in 1..n: i = n \/ i \in 1..(n - 1)
         /\ \A i \in 1..(n + 1): i \in 1..n \/ i = n + 1
         /\ \A i \in 1..(n - 1 - 1): i \in 1..(n - 1) /\ i + 1 \in 1..(n - 1)
         /\ 1..n \subseteq 1..(n + 1) /\ n + 1 - 1 = n /\ n - 1 + 1 = n
         /\ n # 0 => n \in 1..n
  OBVIOUS

LEMMA SearchInvStep == WalkTypeOK /\ SearchInv /\ [WalkNext]_walkVars => SearchInv'
<1> SUFFICES ASSUME WalkTypeOK, SearchInv, [WalkNext]_walkVars, walk = "cycle" PROVE SearchInv'
  BY DEF SearchInv, WalkNext, walkVars, CollectSeen, CollectNew, CollectReturns, Searching,
         VisitRoot, VisitVisited, VisitNew, FindCycle, FinishVisit
<1> DEFINE top == Len(stack)
<1>typed. stack \in Seq(Frames) /\ top \in Nat /\ DOMAIN stack = 1..top /\ root \in Nat \ {0}
  BY DEF WalkTypeOK
<1>n. top \in Nat  BY <1>typed
<1>a. /\ Ordered(imports, visited)
      /\ \A i, j \in 1..top: stack[i].scope = stack[j].scope => i = j
      /\ \A i \in 1..top: stack[i].scope \notin visited
      /\ \A i \in 1..(top - 1):
            /\ stack[i + 1].scope \in ImportsFrom(imports, stack[i].scope)
            /\ Taken(imports, stack[i]) \subseteq visited \cup {stack[i + 1].scope}
      /\ stack # <<>> => Taken(imports, stack[top]) \subseteq visited
      /\ cycle = <<>> => \A r \in 1..(root - 1):
            r \in DOMAIN Configured => Configured[r] \in visited \/ OnStack(Configured[r])
      /\ cycle # <<>> => IsImportCycle(cycle)
  BY Zenon DEF SearchInv
<1>b. \A scope: OnStack(scope) <=> \E i \in 1..top: stack[i].scope = scope
  BY <1>typed, Zenon DEF OnStack
<1>d. \A scope: OnStack(scope)' <=> \E i \in DOMAIN stack': stack'[i].scope = scope
  BY Zenon DEF OnStack
<1>c. \A scopes: imports' = imports => (IsImportCycle(scopes) => IsImportCycle(scopes)')
  BY Zenon DEF IsImportCycle
<1>1. CASE VisitRoot
  <2>1. /\ stack = <<>> /\ top = 0 /\ cycle = <<>> /\ root' = root + 1 /\ UNCHANGED <<imports, visited, cycle>>
        /\ stack' = IF Configured[root] \in visited THEN <<>> ELSE <<Frame(Configured[root])>>
    BY <1>1 DEF VisitRoot, Searching
  <2>2. \A scope: ~OnStack(scope)  BY <1>b, <2>1
  <2>3. \A r \in 1..(root' - 1): r \in 1..(root - 1) \/ r = root  BY <1>typed, <2>1
  <2>4. CASE Configured[root] \in visited
    <3>1. stack' = <<>> /\ Len(stack') = 0 /\ 1..Len(stack') = {} /\ 1..(Len(stack') - 1) = {}
      BY <2>1, <2>4
    <3> QED  BY <1>a, <2>1, <2>2, <2>3, <2>4, <3>1, Zenon DEF SearchInv
  <2>5. CASE Configured[root] \notin visited
    <3>1. stack' = <<Frame(Configured[root])>>  BY <2>1, <2>5
    <3>2. /\ Len(stack') = 1 /\ 1..Len(stack') = {1} /\ DOMAIN stack' = {1} /\ 1..(Len(stack') - 1) = {}
          /\ stack'[1].scope = Configured[root] /\ stack'[1].next = 1
      BY <3>1 DEF Frame
    <3>3. Taken(imports, stack'[1]) = {}  BY <3>2, TakenAtFirst
    <3>4. \A scope: scope = Configured[root] => OnStack(scope)'
      BY <3>2, Zenon DEF OnStack
    <3>5. \A r \in 1..(root' - 1): r \in DOMAIN Configured => Configured[r] \in visited \/ OnStack(Configured[r])'
      <4> TAKE r \in 1..(root' - 1)
      <4>1. CASE r = root
        <5>1. Configured[r] = Configured[root]  BY <4>1
        <5> QED  BY <3>2, <5>1, Zenon DEF OnStack
      <4>2. CASE r \in 1..(root - 1)
        BY <1>a, <2>1, <2>2, <4>2, Zenon
      <4> QED  BY <2>3, <4>1, <4>2
    <3> QED  BY <1>a, <2>1, <2>5, <3>2, <3>3, <3>5, Zenon DEF SearchInv
  <2> QED  BY <2>4, <2>5
<1>2. CASE VisitVisited
  <2>1. /\ AtImport /\ stack' = Advanced /\ stack # <<>> /\ Import \in visited
        /\ UNCHANGED <<imports, visited, cycle, root>>
    BY <1>2 DEF VisitVisited, AtImport
  <2>2. /\ Len(stack') = top /\ stack' \in Seq(Frames) /\ DOMAIN stack' = 1..top /\ top \in 1..top
        /\ \A i \in 1..top: stack'[i].scope = stack[i].scope
    BY <2>1, AdvancedFrames, TopFrame
  <2>3. \A i \in 1..(top - 1): i \in 1..top /\ i + 1 \in 1..top /\ i # top  BY <1>n, Positions
  <2>4. \A i \in 1..(top - 1): Taken(imports, stack'[i]) = Taken(imports, stack[i])
    BY <2>1, <2>3, TakenAdvanced, Zenon
  <2>5. Taken(imports, stack'[top]) \subseteq visited
    BY <1>a, <2>1, TakenAdvanced, Zenon
  <2>6. \A i \in 1..(Len(stack') - 1):
            /\ stack'[i + 1].scope \in ImportsFrom(imports, stack'[i].scope)
            /\ Taken(imports, stack'[i]) \subseteq visited \cup {stack'[i + 1].scope}
    BY <1>a, <2>2, <2>3, <2>4, Zenon
  <2>7. \A scope: OnStack(scope) => OnStack(scope)'
    <3>1. \A i \in DOMAIN stack: i \in DOMAIN stack' /\ stack'[i].scope = stack[i].scope
      BY <1>typed, <2>2, Zenon
    <3> QED  BY <3>1, StaysOnStack, Zenon
  <2>8. /\ \A i, j \in 1..Len(stack'): stack'[i].scope = stack'[j].scope => i = j
        /\ \A i \in 1..Len(stack'): stack'[i].scope \notin visited'
    <3>1. 1..Len(stack') = 1..top /\ visited' = visited  BY <2>1, <2>2
    <3>2. \A i, j \in 1..top: stack'[i].scope = stack'[j].scope => i = j
      BY <1>a, <2>2, Zenon
    <3>3. \A i \in 1..top: stack'[i].scope \notin visited  BY <1>a, <2>2, Zenon
    <3> QED  BY <3>1, <3>2, <3>3
  <2>9. cycle' = <<>> => \A r \in 1..(root' - 1):
            r \in DOMAIN Configured => Configured[r] \in visited' \/ OnStack(Configured[r])'
    BY <1>a, <2>1, <2>7, Zenon
  <2>10. cycle' # <<>> => IsImportCycle(cycle)'
    BY <1>a, <1>c, <2>1, Zenon
  <2>11. Ordered(imports', visited') /\ (stack' # <<>> => Taken(imports', stack'[Len(stack')]) \subseteq visited')
    BY <1>a, <2>1, <2>2, <2>5
  <2> QED  BY <2>1, <2>6, <2>8, <2>9, <2>10, <2>11, Zenon DEF SearchInv
<1>3. CASE VisitNew
  <2>1. /\ AtImport /\ stack' = Called /\ stack # <<>> /\ Import \notin visited /\ ~OnStack(Import)
        /\ UNCHANGED <<imports, visited, cycle, root>>
    BY <1>3 DEF VisitNew, AtImport
  <2>2. /\ Len(stack') = top + 1 /\ stack' \in Seq(Frames) /\ DOMAIN stack' = 1..(top + 1) /\ top \in 1..top
        /\ \A i \in 1..top: stack'[i].scope = stack[i].scope /\ stack'[i] = Advanced[i]
        /\ stack'[top + 1].scope = Import /\ stack'[top + 1].next = 1
    BY <2>1, CalledFrames, AdvancedFrames, TopFrame
  <2>3. \A i \in 1..(top - 1): i \in 1..top /\ i + 1 \in 1..top /\ i # top  BY <1>n, Positions
  <2>4. /\ \A i \in 1..(top - 1): Taken(imports, stack'[i]) = Taken(imports, stack[i])
        /\ Taken(imports, stack'[top]) \subseteq visited \cup {Import}
        /\ Taken(imports, stack'[top + 1]) = {}
    <3>1. \A i \in 1..(top - 1): Taken(imports, stack'[i]) = Taken(imports, stack[i])
      BY <2>1, <2>2, <2>3, TakenAdvanced, Zenon
    <3>2. Taken(imports, stack'[top]) \subseteq visited \cup {Import}
      BY <1>a, <2>1, <2>2, TakenAdvanced, Zenon
    <3>3. Taken(imports, stack'[top + 1]) = {}  BY <2>2, TakenAtFirst
    <3> QED  BY <3>1, <3>2, <3>3
  <2>5. \A i, j \in 1..(top + 1): stack'[i].scope = stack'[j].scope => i = j
    <3>1. \A i \in 1..top: stack[i].scope # Import  BY <1>b, <2>1, Zenon
    <3>2. \A i \in 1..(top + 1): i \in 1..top \/ i = top + 1  BY <1>n, Positions
    <3> QED  BY <1>a, <2>2, <3>1, <3>2, Zenon
  <2>6. \A i \in 1..(top + 1): stack'[i].scope \notin visited
    <3>1. \A i \in 1..(top + 1): i \in 1..top \/ i = top + 1  BY <1>n, Positions
    <3> QED  BY <1>a, <2>1, <2>2, <3>1, Zenon
  <2>7. \A i \in 1..(Len(stack') - 1):
            /\ stack'[i + 1].scope \in ImportsFrom(imports, stack'[i].scope)
            /\ Taken(imports, stack'[i]) \subseteq visited \cup {stack'[i + 1].scope}
    <3> TAKE i \in 1..(Len(stack') - 1)
    <3>1. CASE i = top
      <4>1. Import \in ImportsFrom(imports, stack[top].scope)
        BY <2>1, ImportIsTyped, Zenon DEF Here
      <4> QED  BY <2>2, <2>4, <3>1, <4>1
    <3>2. CASE i # top
      <4>1. i \in 1..(top - 1)
        <5>1. Len(stack') - 1 = top  BY <1>n, <2>2
        <5>2. i \in 1..top  BY <5>1
        <5> QED  BY <1>n, <3>2, <5>2, Positions
      <4> QED  BY <1>a, <2>2, <2>3, <2>4, <4>1, Zenon
    <3> QED  BY <3>1, <3>2
  <2>8. \A scope: OnStack(scope) => OnStack(scope)'
    <3>1. 1..top \subseteq 1..(top + 1)  BY <1>n, Positions
    <3> QED  BY <1>b, <1>d, <2>2, <3>1
  <2>9. Taken(imports, stack'[Len(stack')]) \subseteq visited  BY <2>2, <2>4
  <2> QED  BY <1>a, <1>c, <2>1, <2>2, <2>5, <2>6, <2>7, <2>8, <2>9, Zenon DEF SearchInv
<1>4. CASE FindCycle
  <2>1. /\ AtImport /\ OnStack(Import) /\ stack' = <<>> /\ cycle' = CycleOf(Import)
        /\ UNCHANGED <<imports, visited, root>>
    BY <1>4 DEF FindCycle
  <2>2. Len(stack') = 0 /\ 1..Len(stack') = {} /\ 1..(Len(stack') - 1) = {}  BY <2>1
  <2>3. IsImportCycle(cycle') /\ cycle' # <<>>
    BY <2>1, CycleIsFound, Zenon
  <2>4. IsImportCycle(cycle)'
    BY <2>1, <2>3, Zenon DEF IsImportCycle
  <2> QED  BY <1>a, <2>1, <2>2, <2>3, <2>4, Zenon DEF SearchInv
<1>5. CASE FinishVisit
  <2>1. /\ AtEnd /\ stack # <<>> /\ stack' = Front(stack) /\ visited' = visited \cup {Here}
        /\ UNCHANGED <<imports, cycle, root>>
    BY <1>5 DEF FinishVisit, AtEnd
  <2>2. /\ stack' \in Seq(Frames) /\ Len(stack') = top - 1 /\ DOMAIN stack' = 1..(top - 1)
        /\ \A i \in 1..(top - 1): stack'[i] = stack[i]
    BY <2>1, FrontFrames
  <2>3. top \in 1..top /\ Here = stack[top].scope
    <3>1. top # 0  BY <2>1, TopFrame
    <3> QED  BY <1>n, <3>1, Positions DEF Here
  <2>4. \A i \in 1..(top - 1): i \in 1..top /\ i # top  BY <1>n, Positions
  <2>5. Ordered(imports, visited')
    <3>1. ImportsFrom(imports, Here) \subseteq visited  BY <1>a, <2>1, TakenAtEnd, Zenon
    <3>2. Here \notin visited  BY <1>a, <2>3, Zenon
    <3> QED  BY <1>a, <2>1, <3>1, <3>2, OrderedWithImporter, Zenon
  <2>6. \A i \in 1..(top - 1): stack'[i].scope \notin visited'
    BY <1>a, <2>1, <2>2, <2>3, <2>4, Zenon
  <2>7. \A i \in 1..(Len(stack') - 1):
            /\ stack'[i + 1].scope \in ImportsFrom(imports, stack'[i].scope)
            /\ Taken(imports, stack'[i]) \subseteq visited' \cup {stack'[i + 1].scope}
    <3> TAKE i \in 1..(Len(stack') - 1)
    <3>1. i \in 1..(top - 1) /\ i + 1 \in 1..(top - 1)  BY <1>typed, <2>2
    <3> QED  BY <1>a, <2>1, <2>2, <3>1, Zenon
  <2>8. stack' # <<>> => Taken(imports, stack'[Len(stack')]) \subseteq visited'
    <3> SUFFICES ASSUME stack' # <<>> PROVE Taken(imports, stack'[Len(stack')]) \subseteq visited'
      OBVIOUS
    <3>1. top - 1 \in 1..(top - 1) /\ (top - 1) + 1 = top  BY <1>typed, <2>2
    <3>2. Taken(imports, stack[top - 1]) \subseteq visited \cup {Here}
      BY <1>a, <2>3, <3>1
    <3> QED  BY <2>1, <2>2, <3>1, <3>2
  <2>9. \A scope: OnStack(scope) => OnStack(scope)' \/ scope \in visited'
    <3>1. \A i \in 1..top: i = top \/ i \in 1..(top - 1)  BY <1>n, Positions
    <3> QED  BY <1>b, <1>d, <2>1, <2>2, <2>3, <3>1
  <2>10. \A i, j \in 1..(top - 1): stack'[i].scope = stack'[j].scope => i = j
    BY <1>a, <2>2, <2>4, Zenon
  <2> QED  BY <1>a, <1>c, <2>1, <2>2, <2>5, <2>6, <2>7, <2>8, <2>9, <2>10, Zenon DEF SearchInv
<1>6. CASE UNCHANGED walkVars
  BY <1>a, <1>6, Zenon DEF SearchInv, walkVars, OnStack, IsImportCycle
<1> QED
  BY <1>1, <1>2, <1>3, <1>4, <1>5, <1>6 DEF WalkNext, CollectSeen, CollectNew, CollectReturns

\* Whatever a scope of a cycle imports leads around it, and back.
LEMMA CycleLeadsBack ==
  ASSUME WalkTypeOK, IsImportCycle(cycle)
  PROVE  cycle[1] \in ScopeName /\ OnImportCycle(imports, cycle[1])
<1>1. cycle \in Seq(ScopeName) /\ Len(cycle) \in Nat /\ Len(cycle) > 1  BY DEF WalkTypeOK, IsImportCycle
<1>2. /\ cycle[1] = cycle[Len(cycle)]
      /\ \A i \in 1..(Len(cycle) - 1): cycle[i + 1] \in ImportsFrom(imports, cycle[i])
  BY Zenon DEF IsImportCycle
<1>3. cycle[2] \in ImportsFrom(imports, cycle[1])
  <2>1. 1 \in 1..(Len(cycle) - 1) /\ 1 + 1 = 2  BY <1>1
  <2> QED  BY <1>2, <2>1
<1>4. Sees(imports, cycle[2], cycle[Len(cycle)])
  <2> SUFFICES ASSUME NEW C \in SUBSET WithinReachOf(imports, cycle[2]),
                      cycle[2] \in C, ClosedUnderImports(imports, C)
               PROVE  cycle[Len(cycle)] \in C
    BY Zenon DEF Sees
  <2> DEFINE Missed == {k \in 2..Len(cycle): cycle[k] \notin C}
  <2>1. CASE Missed = {}
    <3>1. Len(cycle) \in 2..Len(cycle)  BY <1>1
    <3> QED  BY <2>1, <3>1, Zenon
  <2>2. CASE Missed # {}
    <3>1. Missed \subseteq Nat  OBVIOUS
    <3>2. PICK m \in Missed: \A k \in Missed: m <= k  BY <2>2, <3>1, LeastNumber, Zenon
    <3>3. m \in 2..Len(cycle) /\ cycle[m] \notin C  OBVIOUS
    <3>4. m - 1 \in 2..Len(cycle) /\ m - 1 \in 1..(Len(cycle) - 1) /\ (m - 1) + 1 = m /\ ~(m <= m - 1)
      <4>1. m # 2  BY <3>3
      <4> QED  BY <1>1, <3>3, <4>1
    <3>5. cycle[m - 1] \in C  BY <3>2, <3>4
    <3>6. cycle[m] \in ImportsFrom(imports, cycle[m - 1])  BY <1>2, <3>4
    <3> QED  BY <3>3, <3>5, <3>6, Zenon DEF ClosedUnderImports
  <2> QED  BY <2>1, <2>2
<1> QED  BY <1>1, <1>2, <1>3, <1>4 DEF OnImportCycle

\* Without a cycle, all configured scopes are in the order, and the others import nothing.
LEMMA ConfiguredAreVisited ==
  ASSUME WalkTypeOK, SearchInv, SearchDone, cycle = <<>>
  PROVE  DOMAIN imports \subseteq visited /\ Ordered(imports, visited)
<1>1. walk = "cycle" /\ stack = <<>> /\ root > Len(Configured) /\ root \in Nat
  BY DEF SearchDone, WalkTypeOK
<1>2. \A scope: ~OnStack(scope)  BY <1>1 DEF OnStack
<1>3. \A r \in DOMAIN Configured: r \in 1..(root - 1)
  BY <1>1, ConfiguredScopes
<1>4. \A r \in DOMAIN Configured: Configured[r] \in visited
  BY <1>1, <1>2, <1>3, Zenon DEF SearchInv
<1>5. DOMAIN imports = ToSet(Configured)  BY GraphIsTyped DEF WalkTypeOK
<1>6. DOMAIN imports \subseteq visited  BY <1>4, <1>5, Zenon DEF ToSet
<1> QED  BY <1>1, <1>6, Zenon DEF SearchInv

LEMMA SearchDoneIsRight == WalkTypeOK /\ SearchInv /\ SearchDone => FindsTheCycle
<1> SUFFICES ASSUME WalkTypeOK, SearchInv, SearchDone PROVE FindsTheCycle
  OBVIOUS
<1>1. cycle # <<>> => IsImportCycle(cycle)  BY Zenon DEF SearchInv, SearchDone
<1>2. cycle # <<>> => \E scope \in ScopeName: OnImportCycle(imports, scope)
  BY <1>1, CycleLeadsBack, Zenon
<1>3. ASSUME cycle = <<>>, NEW scope \in ScopeName PROVE ~OnImportCycle(imports, scope)
  <2>1. DOMAIN imports \subseteq visited /\ Ordered(imports, visited)
    BY <1>3, ConfiguredAreVisited
  <2>2. CASE scope \in visited  BY <2>1, <2>2, OrderedIsAcyclic, Zenon
  <2>3. CASE scope \notin DOMAIN imports
    <3>1. ImportsFrom(imports, scope) = {}  BY <2>3 DEF ImportsFrom, ImportList, ToSet
    <3> QED  BY <3>1, Zenon DEF OnImportCycle
  <2> QED  BY <2>1, <2>2, <2>3, Zenon
<1> QED  BY <1>1, <1>2, <1>3, Zenon DEF FindsTheCycle

\* Of the scopes that see a scope, the one with the highest number is imported by none.
LEMMA TargetSees ==
  ASSUME WalkTypeOK, SearchInv, SearchDone, cycle = <<>>, NEW scope \in DOMAIN imports
  PROVE  \E target \in DOMAIN imports: IsGenerationTarget(imports, target) /\ Sees(imports, target, scope)
<1>1. DOMAIN imports \subseteq visited /\ Ordered(imports, visited)
  BY ConfiguredAreVisited
<1>2. PICK n \in Nat, number \in [visited -> Nat]: Numbered(imports, visited, number, n)
  BY <1>1, Zenon DEF Ordered
<1>3. \A s \in visited: number[s] \in Nat /\ n - number[s] \in Nat
  <2> TAKE s \in visited
  <2>1. number[s] \in Nat  OBVIOUS
  <2>2. number[s] < n  BY <1>2, Zenon DEF Numbered
  <2> QED  BY <2>1, <2>2
<1> DEFINE Seers == {s \in DOMAIN imports: Sees(imports, s, scope)}
           Depths == {n - number[s] : s \in Seers}
<1>4. scope \in Seers  BY SeesItself
<1>5. Depths \subseteq Nat /\ Depths # {}
  BY <1>1, <1>3, <1>4
<1>6. PICK least \in Depths: \A k \in Depths: least <= k  BY <1>5, LeastNumber
<1>7. PICK target \in Seers: least = n - number[target]  OBVIOUS
<1>8. ASSUME NEW other \in DOMAIN imports, Contains(imports[other], target) PROVE FALSE
  <2>1. target \in ImportsFrom(imports, other)
    <3>1. imports[other] \in Seq(ScopeName)  BY GraphIsTyped DEF WalkTypeOK, ImportList
    <3> QED  BY <1>8, <3>1 DEF Contains, ImportsFrom, ImportList, ToSet
  <2>2. other \in Seers  BY <2>1, SeesThroughImport
  <2>3. number[target] < number[other] /\ other \in visited /\ target \in visited
    BY <1>1, <1>2, <2>1, Zenon DEF Numbered
  <2>4. n - number[target] <= n - number[other]  BY <1>6, <1>7, <2>2
  <2> QED  BY <1>3, <2>3, <2>4
<1>9. IsGenerationTarget(imports, target)  BY <1>8, Zenon DEF IsGenerationTarget
<1> QED  BY <1>9

\* What a scope sees besides itself is imported by some configured scope.
LEMMA NoTargetIsSeen ==
  ASSUME WalkTypeOK, NEW s, NEW t, Sees(imports, s, t), IsGenerationTarget(imports, t)
  PROVE  s = t
<1> SUFFICES ASSUME s # t PROVE FALSE
  OBVIOUS
<1> DEFINE C == (WithinReachOf(imports, s) \cup {s}) \ {t}
<1>1. ASSUME NEW other, NEW import \in ImportsFrom(imports, other) PROVE import # t
  <2>1. other \in DOMAIN imports /\ ImportsFrom(imports, other) = ToSet(imports[other])
    BY <1>1 DEF ImportsFrom, ImportList, ToSet
  <2>2. imports[other] \in Seq(ScopeName)  BY <2>1, GraphIsTyped DEF WalkTypeOK, ImportList
  <2>3. Contains(imports[other], import)  BY <1>1, <2>1, <2>2 DEF Contains, ToSet
  <2> QED  BY <2>1, <2>3, Zenon DEF IsGenerationTarget
<1>2. ClosedUnderImports(imports, C)
  BY <1>1, ImportIsWithinReach, Zenon DEF ClosedUnderImports
<1>3. s \in C  OBVIOUS
<1> HIDE DEF C
<1>4. t \in C  BY <1>2, <1>3, SeenIsInClosedSets, Zenon
<1> QED  BY <1>4 DEF C

LEMMA TargetsCoverWithoutCycle == WalkTypeOK /\ SearchInv /\ SearchDone /\ cycle = <<>> => TargetsCover
<1> SUFFICES ASSUME WalkTypeOK, SearchInv, SearchDone, cycle = <<>> PROVE TargetsCover
  OBVIOUS
<1>1. DOMAIN imports \subseteq ScopeName
  BY GraphIsTyped, ConfiguredScopes DEF WalkTypeOK, ToSet
<1> QED  BY <1>1, TargetSees, NoTargetIsSeen, Zenon DEF TargetsCover

-----------------------------------------------------------------------------
(* The walks along imports *)

WalkInv == WalkTypeOK /\ CollectInv /\ SearchInv

\* What the two walks have done so far is right at every step (collect, visit).
THEOREM WalkInvariant == WalkSpec => []WalkInv
<1>1. WalkInit => CollectInv /\ SearchInv
  BY CollectInvInit, SearchInvInit
<1>2. WalkTypeOK /\ CollectInv /\ SearchInv /\ [WalkNext]_walkVars => CollectInv' /\ SearchInv'
  BY CollectInvStep, SearchInvStep
<1> QED  BY <1>1, <1>2, WalkTypeInvariant, PTL DEF WalkSpec, WalkInv

\* For every set of scopes and every graph of imports, with cycles, with scopes that are
\* imported twice or not configured: visible_from collects what is reachable and nothing
\* else, each scope once; import_cycle finds a cycle exactly if there is one; and without
\* one the generation targets cover the project.
THEOREM ImportsFollowed == WalkSpec => []ImportsAreFollowed
<1>1. WalkInv => ImportsAreFollowed
  BY CollectDoneIsRight, SearchDoneIsRight, TargetsCoverWithoutCycle, Zenon DEF WalkInv, ImportsAreFollowed
<1> QED  BY <1>1, WalkInvariant, PTL

-----------------------------------------------------------------------------
(* Seeing, further *)

LEMMA SeesTransitively ==
  ASSUME NEW graph, NEW a, NEW b, NEW c, Sees(graph, a, b), Sees(graph, b, c)
  PROVE  Sees(graph, a, c)
<1> SUFFICES ASSUME NEW C \in SUBSET WithinReachOf(graph, a), a \in C, ClosedUnderImports(graph, C)
             PROVE  c \in C
  BY Zenon DEF Sees
<1>1. b \in C  BY SeenIsInClosedSets, Zenon
<1> QED  BY <1>1, SeenIsInClosedSets, Zenon

-----------------------------------------------------------------------------
(* Names *)

IsProject(p) ==
    /\ IsFiniteSet(p.definitions)
    /\ \A d, e \in p.definitions: d.id \in Nat /\ (d.id = e.id => d = e)

\* What is seen from where it is written under its own name is the definition itself.
LEMMA NoNamesake ==
  ASSUME NEW p, IsProject(p), ConflictingDefinitions(p) = {},
         NEW d \in p.definitions, NEW e \in p.definitions,
         d.kind = e.kind, d.name = e.name, Sees(p.imports, d.scope, e.scope)
  PROVE  d = e
<1> SUFFICES ASSUME d # e PROVE FALSE
  OBVIOUS
<1>1. SameName(d, e) /\ SameName(e, d)  BY DEF SameName
<1>2. d.id \in Nat /\ e.id \in Nat /\ d.id # e.id  BY Zenon DEF IsProject
<1>3. CASE d.scope = e.scope
  <2>1. e.id < d.id \/ d.id < e.id  BY <1>2
  <2>2. IsDuplicate(p, d) \/ IsDuplicate(p, e)  BY <1>1, <1>3, <2>1, Zenon DEF IsDuplicate
  <2> QED  BY <2>2, Zenon DEF ConflictingDefinitions
<1>4. CASE d.scope # e.scope
  <2>1. CollidesWithImport(p, d)  BY <1>1, <1>4, Zenon DEF CollidesWithImport
  <2> QED  BY <2>1, Zenon DEF ConflictingDefinitions
<1> QED  BY <1>3, <1>4

LEMMA CandidateFacts ==
  ASSUME NEW p, NEW scope, NEW kind, NEW name, NEW d
  PROVE  d \in Candidates(p, scope, kind, name) <=>
            d \in p.definitions /\ d.kind = kind /\ d.name = name /\ Sees(p.imports, scope, d.scope)
  BY Zenon DEF Candidates

LEMMA CandidatesAreFinite ==
  ASSUME NEW p, IsProject(p), NEW scope, NEW kind, NEW name
  PROVE  IsFiniteSet(Candidates(p, scope, kind, name))
<1>1. Candidates(p, scope, kind, name) \subseteq p.definitions  BY Zenon DEF Candidates
<1> QED  BY <1>1, FS_Subset, Zenon DEF IsProject

\* Of a finite set, more than one member is two.
LEMMA MoreThanOne ==
  ASSUME NEW S, IsFiniteSet(S)
  PROVE  /\ Cardinality(S) > 1 <=> \E a, b \in S: a # b
         /\ Cardinality(S) = 1 <=> \E a \in S: S = {a}
         /\ Cardinality(S) = 0 <=> S = {}
<1>1. Cardinality(S) \in Nat  BY FS_CardinalityType, Zenon
<1>2. Cardinality(S) = 0 <=> S = {}  BY FS_EmptySet, Zenon
<1>3. Cardinality(S) = 1 <=> \E a: S = {a}  BY FS_Singleton, Zenon
<1>4. Cardinality(S) > 1 <=> ~(Cardinality(S) = 0) /\ ~(Cardinality(S) = 1)  BY <1>1
<1> QED  BY <1>2, <1>3, <1>4

\* Two definitions of a name that some scope sees, not both fragments, conflict.
LEMMA SeenTogetherConflict ==
  ASSUME NEW p, IsProject(p), ConflictingDefinitions(p) = {}, NEW scope,
         scope \in DOMAIN p.imports \/ \E c \in p.definitions: c.scope = scope,
         NEW d \in p.definitions, NEW e \in p.definitions, d # e, d.kind = e.kind, d.name = e.name,
         Sees(p.imports, scope, d.scope), Sees(p.imports, scope, e.scope)
  PROVE  d.kind = "fragment"
<1> SUFFICES ASSUME d.kind # "fragment" PROVE FALSE
  OBVIOUS
<1>1. d.scope # e.scope
  <2> SUFFICES ASSUME d.scope = e.scope PROVE FALSE
    OBVIOUS
  <2>1. Sees(p.imports, d.scope, e.scope)  BY SeesItself, Zenon
  <2> QED  BY <2>1, NoNamesake, Zenon
<1>2. scope # d.scope /\ scope # e.scope
  <2>1. CASE scope = d.scope  BY <2>1, NoNamesake, Zenon
  <2>2. CASE scope = e.scope  BY <2>2, NoNamesake, Zenon
  <2> QED  BY <2>1, <2>2
<1>3. scope \in DOMAIN p.imports
  <2> SUFFICES ASSUME scope \notin DOMAIN p.imports PROVE FALSE
    OBVIOUS
  <2>1. ImportsFrom(p.imports, scope) = {}
    BY DEF ImportsFrom, ImportList, ToSet
  <2>2. ClosedUnderImports(p.imports, {scope})  BY <2>1 DEF ClosedUnderImports
  <2>3. scope \in {scope}  OBVIOUS
  <2>4. d.scope \in {scope}  BY <2>2, <2>3, SeenIsInClosedSets, Zenon
  <2> QED  BY <1>2, <2>4
<1> DEFINE imported == ImportsOf(p.imports, scope)
           peers == {c \in p.definitions: c.kind = d.kind /\ c.name = d.name /\ c.scope \in imported}
           ids == {c.id : c \in peers}
<1>4. d \in peers /\ e \in peers
  <2>1. d.scope \in imported /\ e.scope \in imported
    BY <1>2, SeenIsVisible, Zenon DEF ImportsOf
  <2> QED  BY <2>1
<1>5. ids \subseteq Nat /\ ids # {}
  BY <1>4, SMT DEF IsProject
<1>6. PICK first \in ids: \A k \in ids: first <= k  BY <1>5, LeastNumber
<1>7. PICK c \in peers: first = c.id  OBVIOUS
<1>8. \A b \in ImportedPeers(p, scope, c): b \in peers /\ b # c
  BY <1>7, Zenon DEF ImportedPeers, SameName
<1>9. \A b \in peers: b # c => b \in ImportedPeers(p, scope, c)
  BY <1>7, Zenon DEF ImportedPeers, SameName
<1>10. \A b \in ImportedPeers(p, scope, c): c.id < b.id
  <2> TAKE b \in ImportedPeers(p, scope, c)
  <2>1. b \in peers /\ b # c /\ c \in peers  BY <1>8
  <2>2. c.id <= b.id  BY <1>6, <1>7, <2>1
  <2>3. c.id # b.id /\ c.id \in Nat /\ b.id \in Nat  BY <2>1, Zenon DEF IsProject
  <2> QED  BY <2>2, <2>3
<1>11. \E b \in ImportedPeers(p, scope, c): b.scope # c.scope
  <2>1. CASE d.scope # c.scope  BY <1>4, <1>9, <2>1, Zenon
  <2>2. CASE d.scope = c.scope  BY <1>1, <1>4, <1>9, <2>2, Zenon
  <2> QED  BY <2>1, <2>2
<1>12. c.kind # "fragment" /\ c \in p.definitions  BY <1>7
<1>13. IsAmbiguousImport(p, c)
  BY <1>3, <1>10, <1>11, <1>12, Zenon DEF IsAmbiguousImport
<1> QED  BY <1>12, <1>13, Zenon DEF ConflictingDefinitions

\* A conflict is between two definitions that some scope sees.
LEMMA ConflictIsSeen ==
  ASSUME NEW p, NEW d \in ConflictingDefinitions(p)
  PROVE  \E scope, e: /\ scope \in DOMAIN p.imports \/ \E c \in p.definitions: c.scope = scope
                      /\ d \in p.definitions /\ e \in p.definitions /\ SameName(d, e)
                      /\ Sees(p.imports, scope, d.scope) /\ Sees(p.imports, scope, e.scope)
<1>1. d \in p.definitions  BY Zenon DEF ConflictingDefinitions
<1>2. Sees(p.imports, d.scope, d.scope)  BY SeesItself, Zenon
<1>3. CASE IsDuplicate(p, d)
  <2>1. PICK e \in p.definitions: SameName(d, e) /\ e.scope = d.scope
    BY <1>3, Zenon DEF IsDuplicate
  <2> QED  BY <1>1, <1>2, <2>1
<1>4. CASE CollidesWithImport(p, d)
  <2>1. PICK e \in p.definitions: SameName(d, e) /\ Sees(p.imports, d.scope, e.scope)
    BY <1>4, Zenon DEF CollidesWithImport
  <2> QED  BY <1>1, <1>2, <2>1
<1>5. CASE IsAmbiguousImport(p, d)
  <2>1. PICK consumer \in DOMAIN p.imports: \E e \in ImportedPeers(p, consumer, d): e.scope # d.scope
    BY <1>5, Zenon DEF IsAmbiguousImport
  <2>2. PICK e \in ImportedPeers(p, consumer, d): e.scope # d.scope
    BY <2>1
  <2>3. /\ d.scope \in ImportsOf(p.imports, consumer) /\ e.scope \in ImportsOf(p.imports, consumer)
        /\ e \in p.definitions /\ SameName(d, e)
    BY <2>2, Zenon DEF ImportedPeers
  <2>4. Sees(p.imports, consumer, d.scope) /\ Sees(p.imports, consumer, e.scope)
    BY <2>3, SeenIsVisible, Zenon DEF ImportsOf
  <2> QED  BY <1>1, <2>3, <2>4
<1> QED  BY <1>3, <1>4, <1>5, Zenon DEF ConflictingDefinitions

\* Candidates of two scopes: a spread that finds several finds them in several scopes.
LEMMA ProblemIsNoTarget ==
  ASSUME NEW p, IsProject(p), ConflictingDefinitions(p) = {}, NEW scope, NEW name
  PROVE  SpreadProblem(p, scope, name) <=> Resolve(p, scope, "fragment", name) = {}
<1> DEFINE found == Candidates(p, scope, "fragment", name)
           scopes == {d.scope : d \in found}
           scopeOf == [d \in found |-> d.scope]
<1>1. IsFiniteSet(found)  BY CandidatesAreFinite
<1>2. IsFiniteSet(scopes)
  <2>1. scopeOf \in Surjection(found, scopes)  BY SMT DEF Surjection
  <2> QED  BY <1>1, <2>1, FS_Surjection
<1>3. ASSUME NEW d \in found, NEW e \in found, d # e PROVE d.scope # e.scope
  <2>1. /\ d \in p.definitions /\ e \in p.definitions
        /\ d.kind = e.kind /\ d.name = e.name
    BY CandidateFacts
  <2>2. Sees(p.imports, d.scope, d.scope)  BY SeesItself
  <2> QED  BY <1>3, <2>1, <2>2, NoNamesake, Zenon
<1> HIDE DEF found
<1>4. Cardinality(scopes) > 1 <=> \E a, b \in scopes: a # b  BY <1>2, MoreThanOne
<1>5. (\E a, b \in scopes: a # b) <=> \E d, e \in found: d # e  BY <1>3
<1>6. (\E d, e \in found: d # e) <=> ~(Cardinality(found) = 0) /\ ~(Cardinality(found) = 1)
  <2>1. Cardinality(found) \in Nat  BY <1>1, FS_CardinalityType
  <2>2. Cardinality(found) > 1 <=> \E d, e \in found: d # e  BY <1>1, MoreThanOne
  <2> QED  BY <2>1, <2>2
<1>7. Cardinality(found) = 0 <=> found = {}  BY <1>1, MoreThanOne
<1>8. SpreadProblem(p, scope, name) <=> found = {} \/ Cardinality(scopes) > 1
  BY DEF SpreadProblem, found
<1>9. Resolve(p, scope, "fragment", name) = IF Cardinality(found) = 1 THEN found ELSE {}
  BY DEF Resolve, found
<1>10. CASE Cardinality(found) = 1
  <2>1. found # {}  BY <1>7, <1>10
  <2> QED  BY <1>4, <1>5, <1>6, <1>8, <1>9, <1>10, <2>1
<1>11. CASE ~(Cardinality(found) = 1)
  <2>1. Resolve(p, scope, "fragment", name) = {}  BY <1>9, <1>11
  <2>2. SpreadProblem(p, scope, name)  BY <1>4, <1>5, <1>6, <1>7, <1>8, <1>11
  <2> QED  BY <2>1, <2>2
<1> QED  BY <1>10, <1>11

\* What two definitions of a name that a scope sees have to do with how many it sees.
LEMMA SeenApartIsTwo ==
  ASSUME IsProject(project), NEW d \in project.definitions
  PROVE  SeenApart(d) <=>
            \E scope \in ProjectScopes: \E e \in project.definitions:
                /\ d # e /\ d.kind = e.kind /\ d.name = e.name
                /\ Sees(project.imports, scope, d.scope) /\ Sees(project.imports, scope, e.scope)
<1>1. ASSUME NEW scope
      PROVE  d \in SeenWith(scope, d) /\ Cardinality(SeenWith(scope, d)) > 1 <=>
                \E e \in project.definitions:
                    /\ d # e /\ d.kind = e.kind /\ d.name = e.name
                    /\ Sees(project.imports, scope, d.scope) /\ Sees(project.imports, scope, e.scope)
  <2> DEFINE seen == SeenWith(scope, d)
  <2>1. \A e: e \in seen <=> /\ e \in project.definitions /\ e.kind = d.kind /\ e.name = d.name
                             /\ Sees(project.imports, scope, e.scope)
    BY CandidateFacts, Zenon DEF SeenWith
  <2>2. IsFiniteSet(seen)  BY CandidatesAreFinite, Zenon DEF SeenWith
  <2> HIDE DEF seen
  <2>3. Cardinality(seen) > 1 <=> \E a, b \in seen: a # b  BY <2>2, MoreThanOne, Zenon
  <2>4. d \in seen => ((\E a, b \in seen: a # b) <=> \E e \in seen: d # e)  OBVIOUS
  <2>5. d \in seen /\ Cardinality(seen) > 1 <=> d \in seen /\ \E e \in seen: d # e
    BY <2>3, <2>4, Zenon
  <2>6. (d \in seen /\ \E e \in seen: d # e) <=>
                \E e \in project.definitions:
                    /\ d # e /\ d.kind = e.kind /\ d.name = e.name
                    /\ Sees(project.imports, scope, d.scope) /\ Sees(project.imports, scope, e.scope)
    BY <2>1, Zenon
  <2> QED  BY <2>5, <2>6, Zenon DEF seen
<1> QED  BY <1>1, Zenon DEF SeenApart

LEMMA NamesAreUnique == IsProject(project) => NamesMeanOneThing
<1> SUFFICES ASSUME IsProject(project) PROVE NamesMeanOneThing
  OBVIOUS
<1>s. \A scope: scope \in ProjectScopes <=>
        scope \in DOMAIN project.imports \/ \E c \in project.definitions: c.scope = scope
  BY DEF ProjectScopes
<1>1. ASSUME Conflicts = {}, NEW d \in project.definitions, SeenApart(d) PROVE d.kind = "fragment"
  <2>1. PICK scope \in ProjectScopes: \E e \in project.definitions:
                /\ d # e /\ d.kind = e.kind /\ d.name = e.name
                /\ Sees(project.imports, scope, d.scope) /\ Sees(project.imports, scope, e.scope)
    BY <1>1, SeenApartIsTwo, Zenon
  <2>2. ConflictingDefinitions(project) = {}  BY <1>1, Zenon DEF Conflicts
  <2> QED  BY <1>s, <2>1, <2>2, SeenTogetherConflict, Zenon
<1>2. ASSUME Conflicts # {} PROVE \E d \in project.definitions: SeenApart(d)
  <2>1. PICK d \in ConflictingDefinitions(project): TRUE  BY <1>2 DEF Conflicts
  <2>2. PICK scope, e: /\ scope \in DOMAIN project.imports \/ \E c \in project.definitions: c.scope = scope
                       /\ d \in project.definitions /\ e \in project.definitions /\ SameName(d, e)
                       /\ Sees(project.imports, scope, d.scope) /\ Sees(project.imports, scope, e.scope)
    BY ConflictIsSeen, Zenon
  <2>3. SeenApart(d)  BY <1>s, <2>2, SeenApartIsTwo, Zenon DEF SameName
  <2> QED  BY <2>2, <2>3
<1>3. ASSUME Conflicts = {}, NEW d, NEW name
      PROVE  SpreadProblem(project, d.scope, name) <=> Resolve(project, d.scope, "fragment", name) = {}
  BY <1>3, ProblemIsNoTarget, Zenon DEF Conflicts
<1> QED  BY <1>1, <1>2, <1>3, Zenon DEF NamesMeanOneThing

-----------------------------------------------------------------------------
(* The inductive invariant *)

\* The definitions on the way to an occurrence, its root and its own included.
Met(o) == {o.root} \cup {o.path[i].to : i \in DOMAIN o.path}

\* An occurrence is a way that meets no name of a fragment twice; whatever it has met sees
\* what it is of and leads there.
IsOccurrence(o) ==
    /\ o = Occurrence(o.root, o.path, o.visited)
    /\ o.root \in project.definitions
    /\ o.path \in Seq(AllSpreads)
    /\ IsWalk(o.root, o.path)
    /\ o.visited = {d.name : d \in {e \in Met(o): e.kind = "fragment"}}
    /\ \A i, j \in DOMAIN o.path: o.path[i].to.name = o.path[j].to.name => i = j
    /\ \A d \in Met(o): Sees(project.imports, d.scope, Target(o).scope) /\ LeadsTo(d, Target(o))

\* What an occurrence has met, its root has an occurrence of; and one that was extended has
\* its extensions and its cuts, and nothing else was cut.
ExpansionInv ==
    /\ project \in ProjectSet
    /\ Roots \subseteq occurrences /\ waiting \subseteq occurrences
    /\ \A o \in occurrences: IsOccurrence(o)
    /\ \A o \in occurrences: \A d \in Met(o): \E k \in occurrences: k.root = o.root /\ Target(k) = d
    /\ \A o \in occurrences \ waiting: Extensions(project, o) \subseteq occurrences /\ Cuts(project, o) \subseteq cycles
    /\ \A c \in cycles: \E o \in occurrences: c \in Cuts(project, o)

LEMMA SpreadFacts ==
  ASSUME NEW p, NEW d, NEW s \in Spreads(p, d)
  PROVE  /\ s.from = d /\ s.to \in p.definitions /\ s.to.kind = "fragment"
         /\ Sees(p.imports, d.scope, s.to.scope)
<1> DEFINE found(i) == Resolve(p, d.scope, "fragment", d.spreads[i])
<1>1. PICK i \in DOMAIN d.spreads:
        found(i) # {} /\ s = [from |-> d, at |-> i, to |-> CHOOSE e \in found(i): TRUE]
  BY DEF Spreads
<1>2. s.from = d /\ s.to = CHOOSE e \in found(i): TRUE  BY <1>1
<1> HIDE DEF found
<1>3. s.to \in found(i)  BY <1>1, <1>2, Zenon
<1>4. s.to \in Candidates(p, d.scope, "fragment", d.spreads[i])
  BY <1>3, Zenon DEF found, Resolve
<1>5. s.to \in p.definitions /\ s.to.kind = "fragment" /\ Sees(p.imports, d.scope, s.to.scope)
  BY <1>4, CandidateFacts
<1>6. s.from = d  BY <1>2
<1> QED  BY <1>5, <1>6

LEMMA AllSpreadsFacts ==
  ASSUME NEW s
  PROVE  s \in AllSpreads <=> s.from \in project.definitions /\ s \in Spreads(project, s.from)
<1>1. ASSUME s \in AllSpreads PROVE s.from \in project.definitions /\ s \in Spreads(project, s.from)
  <2>1. PICK d \in project.definitions: s \in Spreads(project, d)  BY <1>1 DEF AllSpreads
  <2> QED  BY <2>1, SpreadFacts, Zenon
<1> QED  BY <1>1, Zenon DEF AllSpreads

LEMMA LeadsToItself == \A d: LeadsTo(d, d)
  BY Zenon DEF LeadsTo

LEMMA LeadsFurther ==
  ASSUME NEW d, NEW s \in AllSpreads, LeadsTo(d, s.from)
  PROVE  LeadsTo(d, s.to)
<1> SUFFICES ASSUME NEW D \in SUBSET project.definitions, d \in D, ClosedUnderSpreads(D)
             PROVE  s.to \in D
  BY Zenon DEF LeadsTo
<1>1. s.from \in D  BY Zenon DEF LeadsTo
<1> QED  BY <1>1, Zenon DEF ClosedUnderSpreads

\* What a definition leads to is in every set that has it and is closed under spreads.
LEMMA LedIntoClosedSets ==
  ASSUME NEW d, NEW e, LeadsTo(d, e), NEW D \in SUBSET project.definitions, d \in D, ClosedUnderSpreads(D)
  PROVE  e \in D
  BY Zenon DEF LeadsTo

LEMMA RootIsOccurrence ==
  ASSUME NEW d \in project.definitions
  PROVE  /\ IsOccurrence(RootOccurrence(d)) /\ Met(RootOccurrence(d)) = {d}
         /\ Target(RootOccurrence(d)) = d /\ RootOccurrence(d).root = d /\ RootOccurrence(d).path = <<>>
<1> DEFINE o == RootOccurrence(d)
<1>1. /\ o.root = d /\ o.path = <<>> /\ o.visited = IF d.kind = "fragment" THEN {d.name} ELSE {}
      /\ o = Occurrence(o.root, o.path, o.visited)
  BY DEF RootOccurrence, Occurrence
<1>2. DOMAIN <<>> = {} /\ <<>> \in Seq(AllSpreads)  OBVIOUS
<1> HIDE DEF o
<1>3. Met(o) = {d}  BY <1>1, <1>2, Zenon DEF Met
<1>4. Target(o) = d  BY <1>1, Zenon DEF Target
<1>5. IsWalk(o.root, o.path)  BY <1>1, <1>2, Zenon DEF IsWalk
<1>6. o.visited = {e.name : e \in {x \in Met(o): x.kind = "fragment"}}
  BY <1>1, <1>3
<1>7. \A x \in Met(o): Sees(project.imports, x.scope, Target(o).scope) /\ LeadsTo(x, Target(o))
  BY <1>3, <1>4, SeesItself, LeadsToItself, Zenon
<1>8. \A i, j \in DOMAIN o.path: o.path[i].to.name = o.path[j].to.name => i = j
  BY <1>1, <1>2, Zenon
<1>9. IsOccurrence(o)
  BY <1>1, <1>2, <1>5, <1>6, <1>7, <1>8, Zenon DEF IsOccurrence
<1> QED  BY <1>1, <1>3, <1>4, <1>9 DEF o

\* The definition an occurrence is of is one of those it met, a fragment if a spread leads to it.
LEMMA TargetIsMet ==
  ASSUME NEW o, IsOccurrence(o)
  PROVE  /\ Target(o) \in Met(o) /\ Met(o) \subseteq project.definitions
         /\ \A d \in Met(o): d = o.root \/ d.kind = "fragment"
         /\ o.path = <<>> => Target(o) = o.root /\ Met(o) = {o.root}
         /\ o.path # <<>> => Target(o) = o.path[Len(o.path)].to /\ Target(o).kind = "fragment"
<1>1. o.path \in Seq(AllSpreads) /\ o.root \in project.definitions  BY Zenon DEF IsOccurrence
<1>2. \A i \in DOMAIN o.path: o.path[i] \in AllSpreads  BY <1>1
<1>3. \A i \in DOMAIN o.path: o.path[i].to \in project.definitions /\ o.path[i].to.kind = "fragment"
  <2> TAKE i \in DOMAIN o.path
  <2>1. o.path[i] \in Spreads(project, o.path[i].from)  BY <1>2, AllSpreadsFacts, Zenon
  <2> QED  BY <2>1, SpreadFacts
<1>4. Met(o) \subseteq project.definitions /\ \A d \in Met(o): d = o.root \/ d.kind = "fragment"
  BY <1>1, <1>3 DEF Met
<1>5. o.path = <<>> => Target(o) = o.root /\ Met(o) = {o.root}
  BY DEF Target, Met
<1>6. o.path # <<>> => Len(o.path) \in DOMAIN o.path  BY <1>1
<1>7. o.path # <<>> => Target(o) = o.path[Len(o.path)].to  BY DEF Target, Last
<1>8. Target(o) \in Met(o)  BY <1>5, <1>6, <1>7, Zenon DEF Met
<1> QED  BY <1>3, <1>4, <1>5, <1>6, <1>7, <1>8, Zenon

LEMMA SpreadOfOccurrence ==
  ASSUME NEW o, IsOccurrence(o), NEW s \in Spreads(project, Target(o))
  PROVE  s \in AllSpreads /\ s.from = Target(o) /\ s.to \in project.definitions /\ s.to.kind = "fragment"
<1>1. Target(o) \in project.definitions  BY TargetIsMet, Zenon
<1>2. s.from = Target(o) /\ s.to \in project.definitions /\ s.to.kind = "fragment"
  BY SpreadFacts
<1>3. s \in AllSpreads  BY <1>1, <1>2, AllSpreadsFacts
<1> QED  BY <1>2, <1>3

\* What an occurrence met sees the targets of its spreads.
LEMMA MetSeesSpread ==
  ASSUME NEW o, IsOccurrence(o), NEW s \in Spreads(project, Target(o)), NEW d \in Met(o)
  PROVE  Sees(project.imports, d.scope, s.to.scope) /\ LeadsTo(d, s.to)
<1>1. Sees(project.imports, d.scope, Target(o).scope) /\ LeadsTo(d, Target(o))
  BY Zenon DEF IsOccurrence
<1>2. Sees(project.imports, Target(o).scope, s.to.scope)  BY SpreadFacts, Zenon
<1>3. s \in AllSpreads /\ s.from = Target(o)  BY SpreadOfOccurrence, Zenon
<1> QED  BY <1>1, <1>2, <1>3, SeesTransitively, LeadsFurther, Zenon

LEMMA AfterFacts ==
  ASSUME NEW o, IsOccurrence(o), NEW s
  PROVE  /\ After(o, s).root = o.root /\ After(o, s).path = Append(o.path, s)
         /\ After(o, s).visited = o.visited \cup {s.to.name}
         /\ After(o, s) = Occurrence(After(o, s).root, After(o, s).path, After(o, s).visited)
         /\ Target(After(o, s)) = s.to /\ Met(After(o, s)) = Met(o) \cup {s.to}
<1> DEFINE k == After(o, s)
<1>1. /\ k.root = o.root /\ k.path = Append(o.path, s) /\ k.visited = o.visited \cup {s.to.name}
      /\ k = Occurrence(k.root, k.path, k.visited)
  BY DEF After, Occurrence
<1>2. o.path \in Seq(AllSpreads)  BY Zenon DEF IsOccurrence
<1>3. /\ Append(o.path, s) # <<>> /\ DOMAIN Append(o.path, s) = 1..(Len(o.path) + 1)
      /\ DOMAIN o.path = 1..Len(o.path) /\ Len(o.path) \in Nat
      /\ Len(Append(o.path, s)) = Len(o.path) + 1 /\ Append(o.path, s)[Len(o.path) + 1] = s
      /\ \A i \in 1..Len(o.path): Append(o.path, s)[i] = o.path[i]
  BY <1>2
<1> HIDE DEF k
<1>4. Target(k) = s.to  BY <1>1, <1>3 DEF Target, Last
<1>5. {k.path[i].to : i \in DOMAIN k.path} = {o.path[i].to : i \in DOMAIN o.path} \cup {s.to}
  BY <1>1, <1>3
<1>6. Met(k) = Met(o) \cup {s.to}  BY <1>1, <1>5 DEF Met
<1> QED  BY <1>1, <1>4, <1>6 DEF k

\* The names of the fragments on the way are the visited ones.
LEMMA MetIsVisited ==
  ASSUME NEW o, IsOccurrence(o)
  PROVE  \A name: name \in o.visited <=> \E d \in Met(o): d.kind = "fragment" /\ d.name = name
<1>1. o.visited = {d.name : d \in {e \in Met(o): e.kind = "fragment"}}  BY Zenon DEF IsOccurrence
<1> QED  BY <1>1

LEMMA AfterIsOccurrence ==
  ASSUME NEW o, IsOccurrence(o), NEW s \in Spreads(project, Target(o)), Opened(o, s)
  PROVE  IsOccurrence(After(o, s))
<1> DEFINE k == After(o, s)
           n == Len(o.path)
<1>1. /\ k.root = o.root /\ k.path = Append(o.path, s) /\ k.visited = o.visited \cup {s.to.name}
      /\ k = Occurrence(k.root, k.path, k.visited) /\ Target(k) = s.to /\ Met(k) = Met(o) \cup {s.to}
  BY AfterFacts, Zenon
<1> HIDE DEF k
<1>2. s \in AllSpreads /\ s.from = Target(o) /\ s.to \in project.definitions /\ s.to.kind = "fragment"
  BY SpreadOfOccurrence, Zenon
<1>3. /\ o.root \in project.definitions /\ o.path \in Seq(AllSpreads) /\ IsWalk(o.root, o.path)
      /\ \A i, j \in DOMAIN o.path: o.path[i].to.name = o.path[j].to.name => i = j
  BY Zenon DEF IsOccurrence
<1>4. /\ DOMAIN k.path = 1..(n + 1) /\ DOMAIN o.path = 1..n /\ n \in Nat
      /\ k.path[n + 1] = s /\ \A i \in 1..n: k.path[i] = o.path[i]
      /\ k.path \in Seq(AllSpreads)
  BY <1>1, <1>2, <1>3
<1>5. \A i \in 1..(n + 1): i \in 1..n \/ i = n + 1  BY <1>4
<1>6. IsWalk(k.root, k.path)
  <2> SUFFICES ASSUME NEW i \in 1..(n + 1)
               PROVE  k.path[i] \in Spreads(project, IF i = 1 THEN k.root ELSE k.path[i - 1].to)
    BY <1>4, Zenon DEF IsWalk
  <2>1. CASE i \in 1..n
    <3>1. o.path[i] \in Spreads(project, IF i = 1 THEN o.root ELSE o.path[i - 1].to)
      BY <1>3, <1>4, <2>1, Zenon DEF IsWalk
    <3>2. i # 1 => i - 1 \in 1..n  BY <1>4, <2>1
    <3>3. i # 1 => k.path[i - 1] = o.path[i - 1]  BY <1>4, <3>2, Zenon
    <3>4. k.path[i] = o.path[i]  BY <1>4, <2>1
    <3> QED  BY <1>1, <3>1, <3>3, <3>4
  <2>2. CASE i = n + 1
    <3>1. k.path[i] = s  BY <1>4, <2>2
    <3>2. CASE n = 0
      <4>1. o.path = <<>>  BY <1>3, <3>2
      <4>2. Target(o) = o.root  BY <4>1, TargetIsMet
      <4>3. i = 1  BY <2>2, <3>2
      <4> QED  BY <1>1, <3>1, <4>2, <4>3
    <3>3. CASE n # 0
      <4>1. o.path # <<>> /\ n \in 1..n /\ i - 1 = n /\ i # 1  BY <1>3, <1>4, <2>2, <3>3
      <4>2. Target(o) = o.path[n].to  BY <4>1, TargetIsMet
      <4>3. k.path[n] = o.path[n]  BY <1>4, <4>1
      <4> QED  BY <3>1, <4>1, <4>2, <4>3
    <3> QED  BY <3>2, <3>3
  <2> QED  BY <1>5, <2>1, <2>2
<1>7. k.visited = {d.name : d \in {e \in Met(k): e.kind = "fragment"}}
  <2>1. o.visited = {d.name : d \in {e \in Met(o): e.kind = "fragment"}}  BY Zenon DEF IsOccurrence
  <2> QED  BY <1>1, <1>2, <2>1
<1>8. \A i, j \in DOMAIN k.path: k.path[i].to.name = k.path[j].to.name => i = j
  <2>1. ASSUME NEW i \in 1..n PROVE k.path[i].to.name # s.to.name
    <3>1. o.path[i].to \in Met(o)  BY <1>4, <2>1 DEF Met
    <3>2. o.path[i].to.kind = "fragment"
      <4>1. o.path[i] \in AllSpreads  BY <1>3, <1>4, <2>1
      <4>2. o.path[i] \in Spreads(project, o.path[i].from)  BY <4>1, AllSpreadsFacts, Zenon
      <4> QED  BY <4>2, SpreadFacts
    <3>3. o.path[i].to.name \in o.visited  BY <3>1, <3>2, MetIsVisited, Zenon
    <3>4. k.path[i] = o.path[i]  BY <1>4, <2>1
    <3> QED  BY <3>3, <3>4, Zenon DEF Opened
  <2> SUFFICES ASSUME NEW i \in 1..(n + 1), NEW j \in 1..(n + 1), k.path[i].to.name = k.path[j].to.name
               PROVE  i = j
    BY <1>4, Zenon
  <2>2. CASE i \in 1..n /\ j \in 1..n
    <3>1. k.path[i] = o.path[i] /\ k.path[j] = o.path[j]  BY <1>4, <2>2, Zenon
    <3> QED  BY <1>3, <1>4, <2>2, <3>1, Zenon
  <2>3. CASE i \in 1..n /\ j = n + 1  BY <1>4, <2>1, <2>3
  <2>4. CASE i = n + 1 /\ j \in 1..n  BY <1>4, <2>1, <2>4
  <2> QED  BY <1>5, <2>2, <2>3, <2>4
<1>9. \A d \in Met(k): Sees(project.imports, d.scope, Target(k).scope) /\ LeadsTo(d, Target(k))
  <2> TAKE d \in Met(k)
  <2>1. CASE d \in Met(o)  BY <1>1, <2>1, MetSeesSpread
  <2>2. CASE d = s.to  BY <1>1, <2>2, SeesItself, LeadsToItself
  <2> QED  BY <1>1, <2>1, <2>2
<1>10. IsOccurrence(k)
  BY <1>1, <1>3, <1>4, <1>6, <1>7, <1>8, <1>9, Zenon DEF IsOccurrence
<1> QED  BY <1>10 DEF k

-----------------------------------------------------------------------------

LEMMA ExpansionInvInit == ExpansionInit => ExpansionInv
<1> SUFFICES ASSUME ExpansionInit PROVE ExpansionInv
  OBVIOUS
<1>1. project \in ProjectSet /\ occurrences = Roots /\ waiting = Roots /\ cycles = {}
  BY Zenon DEF ExpansionInit
<1>2. ASSUME NEW o \in Roots
      PROVE  IsOccurrence(o) /\ \A d \in Met(o): \E k \in Roots: k.root = o.root /\ Target(k) = d
  <2>1. PICK r \in project.definitions: o = RootOccurrence(r)  BY DEF Roots
  <2> QED  BY <2>1, RootIsOccurrence
<1> QED  BY <1>1, <1>2 DEF ExpansionInv

LEMMA ExtensionsAreOccurrences ==
  ASSUME NEW o, IsOccurrence(o), NEW k \in Extensions(project, o)
  PROVE  /\ IsOccurrence(k) /\ k.root = o.root
         /\ \A d \in Met(k): d \in Met(o) \/ d = Target(k)
<1>1. PICK s \in Spreads(project, Target(o)): Opened(o, s) /\ k = After(o, s)
  BY DEF Extensions
<1>2. After(o, s).root = o.root /\ Target(After(o, s)) = s.to /\ Met(After(o, s)) = Met(o) \cup {s.to}
  BY AfterFacts
<1>3. IsOccurrence(After(o, s))  BY <1>1, AfterIsOccurrence
<1> QED  BY <1>1, <1>2, <1>3

LEMMA ExpansionInvStep == ExpansionInv /\ [ExtendOccurrences]_expansionVars => ExpansionInv'
<1>1. ASSUME ExpansionInv, UNCHANGED expansionVars PROVE ExpansionInv'
  <2>1. UNCHANGED <<project, occurrences, waiting, cycles>>  BY <1>1, Zenon DEF expansionVars
  <2>2. Roots' = Roots /\ \A o: IsOccurrence(o)' <=> IsOccurrence(o)
    BY <2>1 DEF Roots, IsOccurrence, AllSpreads, LeadsTo, ClosedUnderSpreads, IsWalk
  <2> QED  BY <1>1, <2>1, <2>2 DEF ExpansionInv
<1>2. ASSUME ExpansionInv, ExtendOccurrences PROVE ExpansionInv'
  <2>1. /\ waiting' = UNION {Extensions(project, o) : o \in waiting}
        /\ occurrences' = occurrences \cup waiting'
        /\ cycles' = cycles \cup UNION {Cuts(project, o) : o \in waiting}
        /\ project' = project
    BY <1>2, Zenon DEF ExtendOccurrences
  <2>2. /\ project \in ProjectSet /\ Roots \subseteq occurrences /\ waiting \subseteq occurrences
        /\ \A o \in occurrences: IsOccurrence(o)
        /\ \A o \in occurrences: \A d \in Met(o): \E k \in occurrences: k.root = o.root /\ Target(k) = d
        /\ \A o \in occurrences \ waiting: Extensions(project, o) \subseteq occurrences /\ Cuts(project, o) \subseteq cycles
        /\ \A c \in cycles: \E o \in occurrences: c \in Cuts(project, o)
    BY <1>2, Zenon DEF ExpansionInv
  <2>3. Roots' = Roots /\ \A o: IsOccurrence(o)' <=> IsOccurrence(o)
    BY <2>1 DEF Roots, IsOccurrence, AllSpreads, LeadsTo, ClosedUnderSpreads, IsWalk
  <2>4. ASSUME NEW k \in waiting'
        PROVE  /\ IsOccurrence(k)
               /\ \A d \in Met(k): \E m \in occurrences': m.root = k.root /\ Target(m) = d
    <3>1. PICK o \in waiting: k \in Extensions(project, o)  BY <2>1, <2>4
    <3>2. o \in occurrences /\ IsOccurrence(o)  BY <2>2, <3>1
    <3>3. /\ IsOccurrence(k) /\ k.root = o.root
          /\ \A d \in Met(k): d \in Met(o) \/ d = Target(k)
      BY <3>1, <3>2, ExtensionsAreOccurrences, Zenon
    <3>4. k \in occurrences'  BY <2>1
    <3>5. ASSUME NEW d \in Met(k) PROVE \E m \in occurrences': m.root = k.root /\ Target(m) = d
      <4>1. CASE d \in Met(o)
        <5>1. PICK m \in occurrences: m.root = o.root /\ Target(m) = d  BY <2>2, <3>2, <4>1, Zenon
        <5> QED  BY <2>1, <3>3, <5>1
      <4>2. CASE d = Target(k)  BY <3>4, <4>2
      <4> QED  BY <3>3, <4>1, <4>2, Zenon
    <3> QED  BY <3>3, <3>5
  <2>5. \A o \in occurrences': IsOccurrence(o)  BY <2>1, <2>2, <2>4
  <2>6. \A o \in occurrences': \A d \in Met(o): \E k \in occurrences': k.root = o.root /\ Target(k) = d
    <3> SUFFICES ASSUME NEW o \in occurrences', NEW d \in Met(o)
                 PROVE  \E k \in occurrences': k.root = o.root /\ Target(k) = d
      OBVIOUS
    <3>1. CASE o \in occurrences
      <4>1. PICK k \in occurrences: k.root = o.root /\ Target(k) = d  BY <2>2, <3>1, Zenon
      <4> QED  BY <2>1, <4>1
    <3>2. CASE o \in waiting'  BY <2>4, <3>2, Zenon
    <3> QED  BY <2>1, <3>1, <3>2
  <2>7. ASSUME NEW o \in occurrences' \ waiting'
        PROVE  Extensions(project, o) \subseteq occurrences' /\ Cuts(project, o) \subseteq cycles'
    <3>1. o \in occurrences  BY <2>1
    <3>2. CASE o \in waiting  BY <2>1, <3>2
    <3>3. CASE o \notin waiting  BY <2>1, <2>2, <3>1, <3>3
    <3> QED  BY <3>2, <3>3
  <2>8. ASSUME NEW c \in cycles' PROVE \E o \in occurrences': c \in Cuts(project, o)
    <3>1. CASE c \in cycles
      <4>1. PICK o \in occurrences: c \in Cuts(project, o)  BY <2>2, <3>1
      <4> QED  BY <2>1, <4>1
    <3>2. CASE c \notin cycles
      <4>1. PICK o \in waiting: c \in Cuts(project, o)  BY <2>1, <3>2
      <4> QED  BY <2>1, <2>2, <4>1
    <3> QED  BY <3>1, <3>2
  <2>9. project' \in ProjectSet /\ Roots' \subseteq occurrences' /\ waiting' \subseteq occurrences'
    BY <2>1, <2>2, <2>3
  <2>10. \A o: Met(o)' = Met(o) /\ Target(o)' = Target(o)  OBVIOUS
  <2> QED
    BY <2>1, <2>3, <2>5, <2>6, <2>7, <2>8, <2>9, Zenon DEF ExpansionInv
<1> QED  BY <1>1, <1>2

-----------------------------------------------------------------------------
(* What follows *)

\* An occurrence has at most as many spreads as there are definitions to come to.
LEMMA PathsAreShort ==
  ASSUME IsProject(project), NEW o, IsOccurrence(o)
  PROVE  Len(o.path) <= Cardinality(project.definitions)
<1> DEFINE n == Len(o.path)
           met == [i \in 1..n |-> o.path[i].to]
<1>1. /\ o.path \in Seq(AllSpreads)
      /\ \A i, j \in DOMAIN o.path: o.path[i].to.name = o.path[j].to.name => i = j
  BY Zenon DEF IsOccurrence
<1>2. n \in Nat /\ DOMAIN o.path = 1..n /\ \A i \in 1..n: o.path[i] \in AllSpreads
  BY <1>1
<1>3. \A i \in 1..n: o.path[i].to \in project.definitions
  <2> TAKE i \in 1..n
  <2>1. o.path[i] \in Spreads(project, o.path[i].from)  BY <1>2, AllSpreadsFacts
  <2> QED  BY <2>1, SpreadFacts
<1>4. met \in Injection(1..n, project.definitions)
  BY <1>1, <1>2, <1>3 DEF Injection, IsInjective
<1>5. Cardinality(1..n) <= Cardinality(project.definitions)
  BY <1>4, FS_Injection, Zenon DEF IsProject
<1>6. Cardinality(1..n) = n
  <2> HIDE DEF n
  <2>0. 1 \in Int /\ n \in Int  BY <1>2
  <2>1. Cardinality(1..n) = IF 1 > n THEN 0 ELSE n - 1 + 1  BY <2>0, FS_Interval, Zenon
  <2> QED  BY <1>2, <2>1
<1> QED  BY <1>5, <1>6

\* Without conflicts, what is cut leads back to a definition on the way, not just to a name.
LEMMA CutIsMet ==
  ASSUME IsProject(project), Conflicts = {}, NEW o, IsOccurrence(o),
         NEW s \in Spreads(project, Target(o)), ~Opened(o, s)
  PROVE  s.to \in Met(o) /\ s.from.kind = "fragment" /\ OnSpreadCycle(s)
<1>1. PICK d \in Met(o): d.kind = "fragment" /\ d.name = s.to.name
  BY MetIsVisited, Zenon DEF Opened
<1>2. /\ d \in project.definitions /\ s.to \in project.definitions /\ s.to.kind = "fragment"
      /\ s.from = Target(o)
  BY TargetIsMet, SpreadOfOccurrence
<1>3. Sees(project.imports, d.scope, s.to.scope)  BY MetSeesSpread
<1>4. ConflictingDefinitions(project) = {}  BY Zenon DEF Conflicts
<1>5. d = s.to  BY <1>1, <1>2, <1>3, <1>4, NoNamesake, Zenon
<1>6. LeadsTo(d, Target(o))  BY Zenon DEF IsOccurrence
<1>7. s.from.kind = "fragment"
  <2>1. CASE o.path = <<>>
    <3>1. Target(o) = o.root /\ Met(o) = {o.root}  BY <2>1, TargetIsMet
    <3> QED  BY <1>1, <1>2, <3>1
  <2>2. CASE o.path # <<>>  BY <1>2, <2>2, TargetIsMet
  <2> QED  BY <2>1, <2>2
<1> QED  BY <1>2, <1>5, <1>6, <1>7, Zenon DEF OnSpreadCycle

\* What is reported is on a cycle.
LEMMA ReportedIsCircular ==
  ASSUME IsProject(project), ExpansionInv, Conflicts = {}, NEW s \in CircularSpreads
  PROVE  s \in AllSpreads /\ s.from.kind = "fragment" /\ OnSpreadCycle(s)
<1>1. PICK c \in cycles: s = Last(c.path)  BY DEF CircularSpreads
<1>2. PICK o \in occurrences: c \in Cuts(project, o)  BY Zenon DEF ExpansionInv
<1>3. IsOccurrence(o)  BY Zenon DEF ExpansionInv
<1>4. PICK t \in Spreads(project, Target(o)): ~Opened(o, t) /\ c = Cut(o, t)
  BY <1>2 DEF Cuts
<1>5. t = s
  <2>1. c.path = Append(o.path, t)  BY <1>4 DEF Cut
  <2>2. o.path \in Seq(AllSpreads) /\ t \in AllSpreads  BY <1>3, SpreadOfOccurrence DEF IsOccurrence
  <2>3. Len(c.path) = Len(o.path) + 1 /\ c.path[Len(o.path) + 1] = t  BY <2>1, <2>2
  <2> QED  BY <1>1, <2>3 DEF Last
<1> QED  BY <1>3, <1>4, <1>5, CutIsMet, SpreadOfOccurrence, Zenon

\* The definitions that a root has occurrences of are closed under spreads when nothing waits.
LEMMA ExpandedIsClosed ==
  ASSUME IsProject(project), ExpansionInv, Conflicts = {}, Expanded, NEW r \in project.definitions
  PROVE  LET D == {Target(k) : k \in {o \in occurrences: o.root = r}}
         IN  r \in D /\ D \in SUBSET project.definitions /\ ClosedUnderSpreads(D)
<1> DEFINE D == {Target(k) : k \in {o \in occurrences: o.root = r}}
<1>1. /\ Roots \subseteq occurrences /\ \A o \in occurrences: IsOccurrence(o)
      /\ \A o \in occurrences: \A d \in Met(o): \E k \in occurrences: k.root = o.root /\ Target(k) = d
      /\ \A o \in occurrences: Extensions(project, o) \subseteq occurrences /\ Cuts(project, o) \subseteq cycles
  BY SMT DEF ExpansionInv, Expanded
<1>2. r \in D
  <2>1. RootOccurrence(r) \in occurrences  BY <1>1 DEF Roots
  <2>2. Target(RootOccurrence(r)) = r /\ RootOccurrence(r).root = r  BY RootIsOccurrence
  <2> QED  BY <2>1, <2>2
<1>3. D \in SUBSET project.definitions
  <2>1. \A k \in occurrences: Target(k) \in project.definitions  BY <1>1, TargetIsMet
  <2> QED  BY <2>1
<1>4. ASSUME NEW s \in AllSpreads, s.from \in D PROVE s.to \in D
  <2>1. PICK o \in occurrences: o.root = r /\ s.from = Target(o)  BY <1>4
  <2>2. IsOccurrence(o) /\ s \in Spreads(project, Target(o))
    BY <1>1, <2>1, AllSpreadsFacts
  <2>3. CASE Opened(o, s)
    <3>1. After(o, s) \in occurrences  BY <1>1, <2>2, <2>3 DEF Extensions
    <3>2. After(o, s).root = r /\ Target(After(o, s)) = s.to  BY <2>1, <2>2, AfterFacts
    <3> QED  BY <3>1, <3>2
  <2>4. CASE ~Opened(o, s)
    <3>1. s.to \in Met(o)  BY <2>2, <2>4, CutIsMet
    <3>2. PICK k \in occurrences: k.root = o.root /\ Target(k) = s.to  BY <1>1, <3>1
    <3> QED  BY <2>1, <3>2
  <2> QED  BY <2>3, <2>4
<1>5. ClosedUnderSpreads(D)  BY <1>4, Zenon DEF ClosedUnderSpreads
<1> QED  BY <1>2, <1>3, <1>5

\* A spread on a cycle is cut, and so reported, when the fragment it leads to is expanded.
LEMMA CircularIsReported ==
  ASSUME IsProject(project), ExpansionInv, Conflicts = {}, Expanded,
         NEW s \in AllSpreads, s.from.kind = "fragment", OnSpreadCycle(s)
  PROVE  s \in CircularSpreads
<1> DEFINE r == s.to
           D == {Target(k) : k \in {o \in occurrences: o.root = r}}
<1>1. r \in project.definitions /\ r.kind = "fragment"  BY AllSpreadsFacts, SpreadFacts
<1>2. r \in D /\ D \in SUBSET project.definitions /\ ClosedUnderSpreads(D)
  BY <1>1, ExpandedIsClosed
<1>3. s.from \in D  BY <1>2, LedIntoClosedSets, Zenon DEF OnSpreadCycle
<1>4. PICK o \in occurrences: o.root = r /\ Target(o) = s.from  BY <1>3
<1>5. IsOccurrence(o) /\ Cuts(project, o) \subseteq cycles  BY SMT DEF ExpansionInv, Expanded
<1>6. s \in Spreads(project, Target(o))  BY <1>4, AllSpreadsFacts
<1>7. ~Opened(o, s)
  <2>1. r \in Met(o)  BY <1>4 DEF Met
  <2>2. r.name \in o.visited  BY <1>1, <1>5, <2>1, MetIsVisited
  <2> QED  BY <2>2 DEF Opened
<1>8. Cut(o, s) \in cycles  BY <1>5, <1>6, <1>7 DEF Cuts
<1>9. Cut(o, s).root = r /\ Cut(o, s).path = Append(o.path, s)  BY <1>4 DEF Cut
<1>10. Last(Cut(o, s).path) = s
  <2>1. o.path \in Seq(AllSpreads)  BY <1>5 DEF IsOccurrence
  <2> QED  BY <1>9, <2>1 DEF Last
<1> QED  BY <1>1, <1>8, <1>9, <1>10 DEF CircularSpreads

\* Without reports nothing is cut.
LEMMA NothingIsCut ==
  ASSUME IsProject(project), ExpansionInv, Conflicts = {}, Expanded, CircularSpreads = {},
         NEW o \in occurrences, NEW s \in Spreads(project, Target(o))
  PROVE  Opened(o, s)
<1> SUFFICES ASSUME ~Opened(o, s) PROVE FALSE
  OBVIOUS
<1>1. IsOccurrence(o)  BY Zenon DEF ExpansionInv
<1>2. s \in AllSpreads /\ s.from.kind = "fragment" /\ OnSpreadCycle(s)
  BY <1>1, CutIsMet, SpreadOfOccurrence, Zenon
<1> QED  BY <1>2, CircularIsReported, Zenon

PathsFrom(d) == {o.path : o \in {k \in occurrences: k.root = d}}

LEMMA OccurrencesAreWalks ==
  ASSUME IsProject(project), ExpansionInv, NEW d \in project.definitions
  PROVE  PathsFrom(d) \subseteq Walks(d)
<1> SUFFICES ASSUME NEW o \in occurrences, o.root = d PROVE o.path \in Walks(d)
  BY DEF PathsFrom
<1>1. IsOccurrence(o)  BY Zenon DEF ExpansionInv
<1>2. o.path \in Seq(AllSpreads) /\ IsWalk(d, o.path)  BY <1>1 DEF IsOccurrence
<1>3. Len(o.path) <= Cardinality(project.definitions)  BY <1>1, PathsAreShort
<1>4. Cardinality(project.definitions) \in Nat  BY FS_CardinalityType DEF IsProject
<1>5. o.path \in [1..Len(o.path) -> AllSpreads] /\ Len(o.path) \in Nat  BY <1>2
<1>6. Len(o.path) \in 0..Cardinality(project.definitions)  BY <1>3, <1>4, <1>5
<1> QED  BY <1>2, <1>5, <1>6, Zenon DEF Walks

\* A way that is no occurrence would have one step more than one that is.
LEMMA WalksAreOccurrences ==
  ASSUME IsProject(project), ExpansionInv, Conflicts = {}, Expanded, CircularSpreads = {},
         NEW d \in project.definitions
  PROVE  Walks(d) \subseteq PathsFrom(d)
<1> DEFINE N == Cardinality(project.definitions)
           Missed == {n \in 0..N: \E way \in [1..n -> AllSpreads]: IsWalk(d, way) /\ way \notin PathsFrom(d)}
<1>1. N \in Nat  BY FS_CardinalityType DEF IsProject
<1>2. Missed \subseteq Nat  BY <1>1
<1>3. ASSUME Missed # {} PROVE FALSE
  <2>1. PICK n \in Missed: \A k \in Missed: n <= k  BY <1>2, <1>3, LeastNumber
  <2>2. PICK way \in [1..n -> AllSpreads]: IsWalk(d, way) /\ way \notin PathsFrom(d)
    BY <2>1
  <2>3. n \in Nat /\ n <= N  BY <1>1, <2>1
  <2>4. n # 0
    <3> SUFFICES ASSUME n = 0 PROVE FALSE
      OBVIOUS
    <3>1. way = <<>>  BY <2>2
    <3>2. RootOccurrence(d) \in occurrences  BY DEF ExpansionInv, Roots
    <3>3. RootOccurrence(d).path = <<>> /\ RootOccurrence(d).root = d  BY RootIsOccurrence
    <3> QED  BY <2>2, <3>1, <3>2, <3>3 DEF PathsFrom
  <2> DEFINE front == [i \in 1..(n - 1) |-> way[i]]
             s == way[n]
  <2>5. n - 1 \in 0..N /\ n - 1 < n /\ n \in 1..n  BY <1>1, <2>3, <2>4
  <2>6. front \in [1..(n - 1) -> AllSpreads] /\ \A i \in 1..(n - 1): front[i] = way[i] /\ i \in 1..n
    BY <2>2, <2>3
  <2>7. IsWalk(d, front)
    <3> SUFFICES ASSUME NEW i \in 1..(n - 1)
                 PROVE  front[i] \in Spreads(project, IF i = 1 THEN d ELSE front[i - 1].to)
      BY <2>6, Zenon DEF IsWalk
    <3>1. way[i] \in Spreads(project, IF i = 1 THEN d ELSE way[i - 1].to)
      BY <2>2, <2>6, Zenon DEF IsWalk
    <3>2. i # 1 => i - 1 \in 1..(n - 1)  BY <2>3
    <3>3. i # 1 => front[i - 1] = way[i - 1]  BY <2>6, <3>2, Zenon
    <3> QED  BY <2>6, <3>1, <3>3
  <2>8. front \in PathsFrom(d)
    <3> SUFFICES ASSUME front \notin PathsFrom(d) PROVE FALSE
      OBVIOUS
    <3>1. n - 1 \in Missed  BY <2>5, <2>6, <2>7
    <3>2. n <= n - 1  BY <2>1, <3>1
    <3> QED  BY <2>3, <3>2
  <2>9. PICK o \in occurrences: o.root = d /\ o.path = front  BY <2>8 DEF PathsFrom
  <2>10. IsOccurrence(o)  BY Zenon DEF ExpansionInv
  <2>11. Len(front) = n - 1 /\ DOMAIN front = 1..(n - 1)
    <3>1. front \in Seq(AllSpreads)  BY <2>9, <2>10 DEF IsOccurrence
    <3> QED  BY <2>3, <2>4, <3>1
  <2>12. s \in Spreads(project, Target(o))
    <3>1. s \in Spreads(project, IF n = 1 THEN d ELSE way[n - 1].to)
      BY <2>2, <2>5, Zenon DEF IsWalk
    <3>2. CASE n = 1
      <4>1. o.path = <<>>  BY <2>9, <3>2
      <4> QED  BY <2>9, <3>1, <3>2, <4>1 DEF Target
    <3>3. CASE n # 1
      <4>1. n - 1 \in 1..(n - 1)  BY <2>3, <2>4, <3>3
      <4>2. o.path # <<>>  BY <2>9, <2>11, <4>1
      <4>3. Target(o) = front[n - 1].to  BY <2>9, <2>10, <2>11, <4>2, TargetIsMet
      <4>4. front[n - 1] = way[n - 1]  BY <2>6, <4>1, Zenon
      <4> QED  BY <3>1, <3>3, <4>3, <4>4
    <3> QED  BY <3>2, <3>3
  <2>13. After(o, s) \in occurrences
    <3>1. Opened(o, s)  BY <2>12, NothingIsCut
    <3>2. Extensions(project, o) \subseteq occurrences  BY DEF ExpansionInv, Expanded
    <3> QED  BY <2>12, <3>1, <3>2 DEF Extensions
  <2>14. After(o, s).root = d /\ After(o, s).path = Append(front, s)
    <3> HIDE DEF s, front
    <3>1. After(o, s).root = o.root /\ After(o, s).path = Append(o.path, s)  BY <2>10, AfterFacts
    <3> QED  BY <2>9, <3>1
  <2>15. Append(front, s) = way
    <3>1. s \in AllSpreads /\ front \in Seq(AllSpreads)
      BY <2>2, <2>5, <2>9, <2>10 DEF IsOccurrence
    <3>2. \A i \in 1..n: i = n \/ i \in 1..(n - 1)  BY <2>3
    <3> HIDE DEF front
    <3>3. /\ Append(front, s) \in Seq(AllSpreads) /\ Len(Append(front, s)) = n
          /\ Append(front, s)[n] = s /\ \A i \in 1..(n - 1): Append(front, s)[i] = front[i]
      BY <2>3, <2>11, <3>1
    <3>4. Append(front, s) \in [1..n -> AllSpreads]
      <4>1. \A walked \in Seq(AllSpreads): walked \in [1..Len(walked) -> AllSpreads]  OBVIOUS
      <4> QED  BY <3>3, <4>1, Zenon
    <3>5. \A i \in 1..n: Append(front, s)[i] = way[i]  BY <2>6, <3>2, <3>3
    <3> QED  BY <2>2, <3>4, <3>5
  <2>16. way \in PathsFrom(d)  BY <2>13, <2>14, <2>15 DEF PathsFrom
  <2> QED  BY <2>2, <2>16
<1> SUFFICES ASSUME NEW way \in Walks(d) PROVE way \in PathsFrom(d)
  OBVIOUS
<1>4. PICK n \in 0..N: way \in [1..n -> AllSpreads] /\ IsWalk(d, way)  BY DEF Walks
<1> QED  BY <1>3, <1>4

LEMMA ExpansionIsFull ==
  ASSUME IsProject(project), ExpansionInv, Conflicts = {}, Expanded
  PROVE  SpreadsExpandFully
<1>1. CircularSpreads = {s \in AllSpreads: s.from.kind = "fragment" /\ OnSpreadCycle(s)}
  BY ReportedIsCircular, CircularIsReported
<1>2. ASSUME CircularSpreads = {}, NEW d \in project.definitions
      PROVE  {o.path : o \in {k \in occurrences: k.root = d}} = Walks(d)
  <2>1. PathsFrom(d) \subseteq Walks(d)  BY OccurrencesAreWalks
  <2>2. Walks(d) \subseteq PathsFrom(d)  BY <1>2, WalksAreOccurrences
  <2> QED  BY <2>1, <2>2 DEF PathsFrom
<1> QED  BY <1>1, <1>2, Zenon DEF SpreadsExpandFully

\* An occurrence is a way along spreads that meets no fragment's name twice, and its root
\* has an occurrence of everything it met (extend_expansion_occurrences).
THEOREM ExpansionInvariant == ExpansionSpec => []ExpansionInv
  BY ExpansionInvInit, ExpansionInvStep, PTL DEF ExpansionSpec

\* For every project: without conflicts a name means one definition wherever it is seen, and
\* a conflict is of two that some scope sees; expansion ends, its paths no longer than there
\* are definitions; it reports the spreads on cycles of fragments, by name as it does, and
\* when there are none it finds every way (check_definition_conflicts,
\* extend_expansion_occurrences, check_expansion_cycles).
THEOREM NamesReach == ExpansionSpec => []NamesReachDefinitions
<1>1. ExpansionInv => IsProject(project)
  BY ProjectsAssumption, Zenon DEF ExpansionInv, IsProject
<1>2. ExpansionInv => NamesReachDefinitions
  <2> SUFFICES ASSUME ExpansionInv PROVE NamesReachDefinitions
    OBVIOUS
  <2>1. NamesMeanOneThing  BY <1>1, NamesAreUnique
  <2>2. \A o \in occurrences: Len(o.path) <= Cardinality(project.definitions)
    BY <1>1, PathsAreShort DEF ExpansionInv
  <2>3. Expanded /\ Conflicts = {} => SpreadsExpandFully  BY <1>1, ExpansionIsFull
  <2> QED  BY <2>1, <2>2, <2>3, Zenon DEF NamesReachDefinitions
<1> QED  BY <1>2, ExpansionInvariant, PTL
=============================================================================
