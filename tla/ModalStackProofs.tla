-------------------------- MODULE ModalStackProofs --------------------------
(***************************************************************************)
(* What the modal stack guarantees for every set of actors, every way of   *)
(* nesting them and every order of pushes, pops, failures and destructions.*)
(***************************************************************************)
EXTENDS ModalStack, TLAPS

\* The inductive invariant: the checked properties support one another. The
\* count tells a last pop from another, the grab follows the count, and the
\* modes saved in the records follow the order of the actors.
IInv == /\ TypeOK
        /\ Len(owed) = Len(stack)
        /\ CountMatches
        /\ GrabNeverLeaks
        /\ CarefulModalHasGrab
        /\ KeybindingsFollowTopIfShallow

\* _findModal() finds a record of the actor if there is one.
LEMMA FindModalFinds ==
  ASSUME TypeOK, CountMatches, NEW a, InStack(a)
  PROVE  FindModal(a) \in 1..Len(stack) /\ stack[FindModal(a)].actor = a
<1>1. PICK i \in 1..Len(stack) : stack[i].actor = a
  BY DEF InStack, Depth
<1>2. \A j \in 1..(i - 1) : stack[j].actor # a
  <2>1. SUFFICES ASSUME NEW j \in 1..(i - 1), stack[j].actor = a PROVE FALSE
    OBVIOUS
  <2>2. Len(stack) \in Nat /\ j \in 1..Len(stack) /\ j # i
    BY DEF TypeOK
  <2> QED
    BY <1>1, <2>1, <2>2 DEF CountMatches, Depth
<1> QED
  BY <1>1, <1>2 DEF FindModal, Depth

\* A function over 1..n with values in S is a sequence of length n.
LEMMA SeqByIndex ==
  ASSUME NEW n \in Nat, NEW S, NEW f, f = [j \in 1..n |-> f[j]],
         \A j \in 1..n : f[j] \in S
  PROVE  f \in Seq(S) /\ Len(f) = n /\ (f = <<>> <=> n = 0)
OBVIOUS
\* Removing a record leaves a stack of records one shorter, with the same actors
\* in the same order but for the removed one.
LEMMA SplicedStack ==
  ASSUME TypeOK, NEW i \in 1..Len(stack)
  PROVE  /\ Spliced(i) \in Seq(Record)
         /\ Len(Spliced(i)) = Len(stack) - 1
         /\ Spliced(i) = <<>> <=> Len(stack) = 1
         /\ \A j \in 1..(Len(stack) - 1) :
              /\ Spliced(i)[j].actor = IF j < i THEN stack[j].actor ELSE stack[j + 1].actor
              /\ Spliced(i)[j].actionMode = stack[j].actionMode
<1>1. Len(stack) - 1 \in Nat /\ Len(stack) \in Nat
  BY DEF TypeOK
<1>2. \A j \in 1..(Len(stack) - 1) : /\ stack[j] \in Record /\ stack[j + 1] \in Record
                                    /\ Spliced(i)[j] \in Record
  <2>1. TAKE j \in 1..(Len(stack) - 1)
  <2>2. /\ stack[j] \in Record /\ stack[j + 1] \in Record
    BY <1>1 DEF TypeOK
  <2>3. Spliced(i)[j] \in {stack[j], [stack[j] EXCEPT !.actor = stack[j + 1].actor]}
    BY DEF Spliced, Depth
  <2>4. stack[j + 1].actor \in Modals
    BY <2>2 DEF Record
  <2> QED
    BY <2>2, <2>3, <2>4 DEF Record
<1>3. Spliced(i) = [j \in 1..(Len(stack) - 1) |-> Spliced(i)[j]]
  BY DEF Spliced, Depth
<1>4. /\ Spliced(i) \in Seq(Record) /\ Len(Spliced(i)) = Len(stack) - 1
      /\ Spliced(i) = <<>> <=> Len(stack) - 1 = 0
  BY <1>1, <1>2, <1>3, SeqByIndex
<1>5. \A j \in 1..(Len(stack) - 1) :
         /\ Spliced(i)[j].actor = IF j < i THEN stack[j].actor ELSE stack[j + 1].actor
         /\ Spliced(i)[j].actionMode = stack[j].actionMode
  <2>1. TAKE j \in 1..(Len(stack) - 1)
  <2>2. stack[j] \in Record
    BY <1>2
  <2>3. CASE j < i
    BY <2>3 DEF Spliced, Depth
  <2>4. CASE ~(j < i)
    BY <2>2, <2>4 DEF Spliced, Depth, Record
  <2> QED
    BY <2>3, <2>4
<1> QED
  BY <1>1, <1>4, <1>5

\* The prevFocus handlers change neither the actors nor the modes of a stack.
LEMMA ForgettingKeeps ==
  ASSUME NEW s \in Seq(Record), NEW F
  PROVE  /\ Forgetting(s, F) \in Seq(Record)
         /\ Len(Forgetting(s, F)) = Len(s)
         /\ Forgetting(s, F) = <<>> <=> s = <<>>
         /\ \A j \in 1..Len(s) : /\ Forgetting(s, F)[j].actor = s[j].actor
                                /\ Forgetting(s, F)[j].actionMode = s[j].actionMode
<1>1. Len(s) \in Nat /\ DOMAIN s = 1..Len(s) /\ (s = <<>> <=> Len(s) = 0)
  OBVIOUS
<1>2. \A j \in 1..Len(s) : /\ Forgetting(s, F)[j] \in Record
                          /\ Forgetting(s, F)[j].actor = s[j].actor
                          /\ Forgetting(s, F)[j].actionMode = s[j].actionMode
  <2>1. TAKE j \in 1..Len(s)
  <2>2. s[j] \in Record
    OBVIOUS
  <2>3. Forgetting(s, F)[j] \in {s[j], [s[j] EXCEPT !.prevFocus = NoActor]}
    BY <1>1 DEF Forgetting
  <2> QED
    BY <2>2, <2>3 DEF Record
<1>3. Forgetting(s, F) = [j \in 1..Len(s) |-> Forgetting(s, F)[j]]
  BY <1>1 DEF Forgetting
<1> QED
  BY <1>1, <1>2, <1>3, SeqByIndex

\* What popModal() does to the rest of the state keeps the types.
LEMMA PopTypes ==
  ASSUME TypeOK, CountMatches, Len(owed) = Len(stack), NEW i \in 1..Len(stack),
         NEW living \in SUBSET Actors, PopAt(i, living)
  PROVE  /\ modalCount' = Len(stack) - 1 /\ modalCount' \in Nat
         /\ actionMode' \in ActionModes
         /\ keyFocus' \in Actors \cup {NoActor}
         /\ hasModal' \in BOOLEAN
         /\ unredirect' = IF Len(stack) = 1 THEN 0 ELSE 1
         /\ hasModal' => Len(stack) # 1 /\ hasModal
         /\ hasModal /\ Len(stack) # 1 => hasModal'
         /\ owed' \in Seq(Actors \cup {NoActor}) /\ Len(owed') = Len(stack) - 1
         /\ deepShift' \in BOOLEAN
<1>1. /\ Len(stack) \in Nat /\ Len(stack) - 1 \in Nat /\ modalCount = Len(stack)
      /\ unredirect = 1 /\ Len(stack) # 0
  BY DEF CountMatches, TypeOK
<1>2. stack[i] \in Record
  BY DEF TypeOK
<1>3. owed' \in Seq(Actors \cup {NoActor}) /\ Len(owed') = Len(stack) - 1
  <2>1. owed' = [j \in 1..(Len(stack) - 1) |-> owed'[j]]
    BY DEF PopAt, OwedAfter, Depth
  <2>2. \A j \in 1..(Len(stack) - 1) : owed'[j] \in Actors \cup {NoActor}
    BY DEF PopAt, OwedAfter, Living, Depth
  <2> QED
    BY <1>1, <2>1, <2>2, SeqByIndex
<1>4. Living(stack[i].prevFocus, living) \in Actors \cup {NoActor}
      /\ Living(keyFocus, living) \in Actors \cup {NoActor}
  BY DEF Living
<1>5. /\ actionMode' \in ActionModes
      /\ keyFocus' \in Actors \cup {NoActor}
  BY <1>1, <1>2, <1>4 DEF PopAt, TypeOK, ActionModes, Record
<1>6. /\ modalCount' = Len(stack) - 1 /\ modalCount' \in Nat
      /\ unredirect' = IF Len(stack) = 1 THEN 0 ELSE 1
  BY <1>1 DEF PopAt
<1>7. /\ hasModal' => Len(stack) # 1 /\ hasModal
      /\ hasModal /\ Len(stack) # 1 => hasModal'
  BY <1>1 DEF PopAt, TypeOK
<1>8. hasModal' \in BOOLEAN
  BY Zenon DEF PopAt, TypeOK
<1>9. deepShift' \in BOOLEAN
  BY DEF PopAt
<1> QED
  BY <1>1, <1>3, <1>5, <1>6, <1>7, <1>8, <1>9

\* Removing a record keeps the invariant, whatever was removed and however.
LEMMA PopKeeps ==
  ASSUME IInv, NEW i \in 1..Len(stack), NEW living \in SUBSET Actors, PopAt(i, living),
         stack' \in Seq(Record), Len(stack') = Len(stack) - 1,
         stack' = <<>> <=> Len(stack) = 1, strayPop' = strayPop,
         \A j \in 1..(Len(stack) - 1) :
           /\ stack'[j].actor = IF j < i THEN stack[j].actor ELSE stack[j + 1].actor
           /\ stack'[j].actionMode = stack[j].actionMode
  PROVE  /\ Len(owed') = Len(stack')
         /\ CountMatches' /\ GrabNeverLeaks' /\ CarefulModalHasGrab'
         /\ KeybindingsFollowTopIfShallow'
<1> USE DEF Depth
<1>1. /\ TypeOK /\ CountMatches /\ Len(owed) = Len(stack)
      /\ Len(stack) \in Nat /\ Len(stack) # 0 /\ stack # <<>> /\ modalCount = Len(stack)
  BY DEF IInv, TypeOK, CountMatches
<1>2. /\ modalCount' = Len(stack) - 1
      /\ unredirect' = IF Len(stack) = 1 THEN 0 ELSE 1
      /\ hasModal' => Len(stack) # 1 /\ hasModal
      /\ hasModal /\ Len(stack) # 1 => hasModal'
      /\ Len(owed') = Len(stack) - 1
  BY <1>1, PopTypes
<1>3. CountMatches'
  BY <1>1, <1>2 DEF CountMatches
<1>4. GrabNeverLeaks' /\ CarefulModalHasGrab'
  BY <1>1, <1>2 DEF IInv, GrabNeverLeaks, CarefulModalHasGrab, ModalHasGrab
<1>5. ASSUME ~strayPop', ~deepShift' PROVE KeybindingsFollowTop'
  <2>1. ~deepShift /\ i \in {Len(stack) - 1, Len(stack)}
    <3>1. ~(deepShift \/ Len(stack) - i >= 2)
      BY <1>5, Zenon DEF PopAt
    <3> QED
      BY <1>1, <3>1
  <2>2. KeybindingsFollowTop
    BY <1>5, <2>1 DEF IInv, KeybindingsFollowTopIfShallow
  <2>3. \A j \in 1..(Len(stack) - 1) : stack'[j].actionMode = ModeBelow(stack', j)
    <3>1. TAKE j \in 1..(Len(stack) - 1)
    <3>2. stack'[j].actionMode = ModeBelow(stack, j)
      BY <2>2 DEF KeybindingsFollowTop
    <3>3. CASE j = 1
      BY <3>2, <3>3 DEF ModeBelow
    <3>4. CASE j # 1
      <4>1. j - 1 \in 1..(Len(stack) - 1) /\ j - 1 < i
        BY <1>1, <2>1, <3>4
      <4>2. stack'[j - 1].actor = stack[j - 1].actor
        BY <4>1
      <4> QED
        BY <3>2, <3>4, <4>2 DEF ModeBelow
    <3> QED
      BY <3>3, <3>4
  <2>4. actionMode' = IF stack' = <<>> THEN Normal ELSE ModeOf[stack'[Len(stack')].actor]
    <3>1. CASE Len(stack) = 1
      BY <1>1, <3>1 DEF PopAt
    <3>2. CASE Len(stack) # 1 /\ i = Len(stack)
      <4>1. actionMode' = ModeBelow(stack, i) /\ i - 1 \in 1..(Len(stack) - 1)
        BY <1>1, <2>2, <3>2 DEF PopAt, KeybindingsFollowTop
      <4>2. stack'[i - 1].actor = stack[i - 1].actor
        BY <4>1
      <4> QED
        BY <3>2, <4>1, <4>2 DEF ModeBelow
    <3>3. CASE i = Len(stack) - 1
      <4>1. stack'[i].actor = stack[Len(stack)].actor
        BY <1>1, <3>3
      <4>2. actionMode' = actionMode /\ stack' # <<>>
        BY <1>1, <3>3 DEF PopAt
      <4> QED
        BY <1>1, <2>2, <3>3, <4>1, <4>2 DEF KeybindingsFollowTop
    <3> QED
      BY <2>1, <3>1, <3>2, <3>3
  <2> QED
    BY <2>3, <2>4 DEF KeybindingsFollowTop
<1> QED
  BY <1>2, <1>3, <1>4, <1>5 DEF KeybindingsFollowTopIfShallow

\* Nothing but the stack, the focus and the handlers changes: the rest follows.
LEMMA SameOrderKeeps ==
  ASSUME IInv, stack' \in Seq(Record), Len(stack') = Len(stack),
         stack' = <<>> <=> stack = <<>>,
         \A j \in 1..Len(stack) : /\ stack'[j].actor = stack[j].actor
                                /\ stack'[j].actionMode = stack[j].actionMode,
         modalCount' = modalCount, unredirect' = unredirect, hasModal' = hasModal,
         actionMode' = actionMode, deepShift' = deepShift, strayPop' = strayPop
  PROVE  /\ CountMatches' /\ GrabNeverLeaks' /\ CarefulModalHasGrab'
         /\ KeybindingsFollowTopIfShallow'
<1> USE DEF Depth
<1>1. Len(stack) \in Nat /\ (stack = <<>> <=> Len(stack) = 0)
  BY DEF IInv, TypeOK
<1>2. CountMatches'
  BY <1>1 DEF IInv, CountMatches
<1>3. GrabNeverLeaks' /\ CarefulModalHasGrab'
  BY DEF IInv, GrabNeverLeaks, CarefulModalHasGrab, ModalHasGrab
<1>4. ASSUME KeybindingsFollowTop PROVE KeybindingsFollowTop'
  <2>1. \A j \in 1..Len(stack) : ModeBelow(stack', j) = ModeBelow(stack, j)
    BY <1>1 DEF ModeBelow
  <2>2. stack # <<>> => stack'[Len(stack)].actor = stack[Len(stack)].actor
    BY <1>1
  <2> QED
    BY <1>1, <1>4, <2>1, <2>2 DEF KeybindingsFollowTop
<1> QED
  BY <1>2, <1>3, <1>4 DEF IInv, KeybindingsFollowTopIfShallow

\* The initial state satisfies the invariant.
LEMMA InitIInv == ASSUME Init PROVE IInv
<1>1. Normal \in ActionModes
  BY DEF ActionModes
<1>2. <<>> \in Seq(Record) /\ <<>> \in Seq(Actors \cup {NoActor})
  OBVIOUS
<1>3. alive \subseteq Actors /\ handlers \subseteq Handler /\ orphans \subseteq Careless
  BY DEF Init
<1>4. TypeOK
  BY <1>1, <1>2, <1>3 DEF Init, TypeOK
<1> QED
  BY <1>4 DEF Init, IInv, CountMatches, GrabNeverLeaks, CarefulModalHasGrab, ModalHasGrab,
              KeybindingsFollowTopIfShallow, KeybindingsFollowTop, Depth

\* A push adds one record, and the grab with the first one.
LEMMA PushKeeps ==
  ASSUME IInv, NEW a \in Modals, NEW id \in HandlerIds, ~InStack(a), PushSucceeds(a, id)
  PROVE  IInv'
<1> USE DEF Depth
<1>1. /\ TypeOK /\ CountMatches /\ Len(owed) = Len(stack)
      /\ Len(stack) \in Nat /\ modalCount = Len(stack) /\ (stack = <<>> <=> Len(stack) = 0)
  BY DEF IInv, TypeOK, CountMatches
<1> DEFINE r == [actor |-> a, prevFocus |-> keyFocus, handlerId |-> id,
                 actionMode |-> actionMode]
<1>2. r \in Record
  BY <1>1 DEF TypeOK, Record
<1>3. /\ stack' = Append(stack, r) /\ stack' \in Seq(Record)
      /\ Len(stack') = Len(stack) + 1 /\ stack' # <<>>
      /\ stack'[Len(stack) + 1] = r
      /\ \A j \in 1..Len(stack) : stack'[j] = stack[j]
  BY <1>1, <1>2 DEF PushSucceeds, TypeOK
<1>4. owed' \in Seq(Actors \cup {NoActor}) /\ Len(owed') = Len(stack')
  BY <1>1, <1>3 DEF PushSucceeds, TypeOK
<1>5. handlers' \subseteq Handler
  BY <1>1 DEF PushSucceeds, TypeOK, Handler
<1>6. modalCount' = Len(stack) + 1 /\ unredirect' = 1
  BY <1>1 DEF PushSucceeds, CountMatches
<1>7. /\ hasModal' \in BOOLEAN /\ strayPop' = strayPop
      /\ Len(stack) = 0 \/ ModalHasGrab => hasModal'
  BY <1>1 DEF PushSucceeds, TypeOK, ModalHasGrab
<1>8. actionMode' = ModeOf[a] /\ actionMode' \in ActionModes /\ keyFocus' \in Actors
  BY DEF PushSucceeds, ActionModes, Actors
<1>9. TypeOK'
  <2>1. modalCount' \in Nat /\ unredirect' \in Nat
    BY <1>1, <1>6
  <2> QED
    BY <1>1, <1>3, <1>4, <1>5, <1>7, <1>8, <2>1 DEF PushSucceeds, TypeOK
<1>10. CountMatches'
  <2>1. \A j \in 1..Len(stack) : stack[j].actor # a
    BY DEF InStack
  <2>2. stack'[Len(stack) + 1].actor = a
    BY <1>3
  <2> QED
    BY <1>1, <1>3, <1>6, <2>1, <2>2 DEF CountMatches
<1>11. GrabNeverLeaks' /\ CarefulModalHasGrab'
  BY <1>1, <1>3, <1>7 DEF IInv, GrabNeverLeaks, CarefulModalHasGrab, ModalHasGrab
<1>12. ASSUME KeybindingsFollowTop PROVE KeybindingsFollowTop'
  <2>1. \A j \in 1..Len(stack) : stack'[j].actionMode = ModeBelow(stack', j)
    BY <1>1, <1>3, <1>12 DEF KeybindingsFollowTop, ModeBelow
  <2>2. stack'[Len(stack) + 1].actionMode = ModeBelow(stack', Len(stack) + 1)
    <3>1. stack'[Len(stack) + 1].actionMode = actionMode
      BY <1>3
    <3>2. CASE Len(stack) = 0
      BY <1>1, <1>12, <3>1, <3>2 DEF KeybindingsFollowTop, ModeBelow
    <3>3. CASE Len(stack) # 0
      <4>1. actionMode = ModeOf[stack[Len(stack)].actor]
        BY <1>1, <1>12, <3>3 DEF KeybindingsFollowTop
      <4>2. Len(stack) \in 1..Len(stack) /\ Len(stack) + 1 - 1 = Len(stack)
        BY <1>1, <3>3
      <4>3. ModeBelow(stack', Len(stack) + 1) = ModeOf[stack'[Len(stack)].actor]
        BY <1>1, <3>3, <4>2 DEF ModeBelow
      <4> QED
        BY <1>3, <3>1, <4>1, <4>2, <4>3
    <3> QED
      BY <3>2, <3>3
  <2>3. stack'[Len(stack')].actor = a
    BY <1>1, <1>3
  <2>4. \A j \in 1..Len(stack') : stack'[j].actionMode = ModeBelow(stack', j)
    <3>1. \A j \in 1..Len(stack') : j \in 1..Len(stack) \/ j = Len(stack) + 1
      BY <1>1, <1>3
    <3> QED
      BY <2>1, <2>2, <3>1
  <2> QED
    BY <1>3, <1>8, <2>3, <2>4 DEF KeybindingsFollowTop
<1>13. KeybindingsFollowTopIfShallow'
  BY <1>12 DEF IInv, KeybindingsFollowTopIfShallow, PushSucceeds
<1> QED
  BY <1>4, <1>9, <1>10, <1>11, <1>13 DEF IInv

\* Every step keeps the invariant.
LEMMA NextIInv == ASSUME IInv, [Next]_vars PROVE IInv'
<1> USE DEF Depth
<1>1. /\ TypeOK /\ CountMatches /\ Len(owed) = Len(stack) /\ Len(stack) \in Nat
  BY DEF IInv, TypeOK
<1>2. ASSUME NEW a \in Modals, Push(a) PROVE IInv'
  <2>1. CASE PushFails(a)
    <3>1. TypeOK'
      BY <1>1, <2>1 DEF PushFails, TypeOK
    <3>2. /\ CountMatches' /\ GrabNeverLeaks' /\ CarefulModalHasGrab'
          /\ KeybindingsFollowTopIfShallow'
      BY <1>1, <2>1, SameOrderKeeps DEF PushFails, TypeOK
    <3> QED
      BY <1>1, <2>1, <3>1, <3>2 DEF IInv, PushFails
  <2>2. CASE PushSucceeds(a, CHOOSE id \in FreeIds : TRUE)
    <3>1. (CHOOSE id \in FreeIds : TRUE) \in HandlerIds /\ ~InStack(a)
      BY <1>2 DEF Push, FreeIds
    <3> QED
      BY <2>2, <3>1, PushKeeps
  <2> QED
    BY <1>2, <2>1, <2>2 DEF Push
<1>3. ASSUME NEW a \in Modals, Pop(a) PROVE IInv'
  <2> DEFINE i == FindModal(a)
  <2>1. /\ i \in 1..Len(stack) /\ PopAt(i, alive) /\ stack' = Spliced(i)
        /\ alive \subseteq Actors /\ strayPop' = strayPop
    BY <1>1, <1>3, FindModalFinds DEF Pop, TypeOK
  <2> HIDE DEF i
  <2>2. /\ stack' \in Seq(Record) /\ Len(stack') = Len(stack) - 1
        /\ stack' = <<>> <=> Len(stack) = 1
        /\ \A j \in 1..(Len(stack) - 1) :
             /\ stack'[j].actor = IF j < i THEN stack[j].actor ELSE stack[j + 1].actor
             /\ stack'[j].actionMode = stack[j].actionMode
    BY <1>1, <2>1, SplicedStack
  <2>3. /\ Len(owed') = Len(stack') /\ CountMatches' /\ GrabNeverLeaks'
        /\ CarefulModalHasGrab' /\ KeybindingsFollowTopIfShallow'
    BY <2>1, <2>2, PopKeeps
  <2>4. handlers' \subseteq Handler
    BY <1>1, <1>3 DEF Pop, HandlersAfterPop, TypeOK
  <2>5. /\ modalCount' \in Nat /\ actionMode' \in ActionModes
        /\ keyFocus' \in Actors \cup {NoActor} /\ hasModal' \in BOOLEAN
        /\ unredirect' \in Nat /\ owed' \in Seq(Actors \cup {NoActor})
        /\ deepShift' \in BOOLEAN
    BY <1>1, <2>1, PopTypes
  <2>6. TypeOK'
    BY <1>1, <1>3, <2>2, <2>4, <2>5 DEF TypeOK, Pop
  <2> QED
    BY <2>3, <2>6 DEF IInv
<1>4. ASSUME NEW a \in Modals, IncorrectPop(a) PROVE IInv'
  <2>1. strayPop'
    BY <1>4 DEF IncorrectPop
  <2>2. TypeOK'
    BY <1>1, <1>4 DEF IncorrectPop, TypeOK, ActionModes
  <2>3. CountMatches' /\ Len(owed') = Len(stack')
    BY <1>1, <1>4 DEF IncorrectPop, CountMatches
  <2>4. GrabNeverLeaks' /\ CarefulModalHasGrab' /\ KeybindingsFollowTopIfShallow'
    BY <1>4, <2>1 DEF IncorrectPop, GrabNeverLeaks, CarefulModalHasGrab,
                      KeybindingsFollowTopIfShallow
  <2> QED
    BY <2>2, <2>3, <2>4 DEF IInv
<1>5. ASSUME NEW a \in Modals, DestroyModal(a) PROVE IInv'
  <2> DEFINE i == FindModal(a)
             living == alive \ {a}
             fired == {h \in HandlersAfterPop : h.on = a}
  <2>1. /\ i \in 1..Len(stack) /\ PopAt(i, living) /\ living \in SUBSET Actors
        /\ stack' = Forgetting(Spliced(i), fired) /\ strayPop' = strayPop
    BY <1>1, <1>5, FindModalFinds DEF DestroyModal, TypeOK
  <2>2. handlers' \subseteq Handler /\ alive' \subseteq Actors
    BY <1>1, <1>5 DEF DestroyModal, HandlersAfterPop, TypeOK
  <2> HIDE DEF i, living, fired
  <2>3. /\ Spliced(i) \in Seq(Record) /\ Len(Spliced(i)) = Len(stack) - 1
        /\ Spliced(i) = <<>> <=> Len(stack) = 1
        /\ \A j \in 1..(Len(stack) - 1) :
             /\ Spliced(i)[j].actor = IF j < i THEN stack[j].actor ELSE stack[j + 1].actor
             /\ Spliced(i)[j].actionMode = stack[j].actionMode
    BY <1>1, <2>1, SplicedStack
  <2>4. /\ stack' \in Seq(Record) /\ Len(stack') = Len(Spliced(i))
        /\ stack' = <<>> <=> Spliced(i) = <<>>
        /\ \A j \in 1..Len(Spliced(i)) : /\ stack'[j].actor = Spliced(i)[j].actor
                                        /\ stack'[j].actionMode = Spliced(i)[j].actionMode
    BY <2>1, <2>3, ForgettingKeeps
  <2>5. /\ Len(owed') = Len(stack') /\ CountMatches' /\ GrabNeverLeaks'
        /\ CarefulModalHasGrab' /\ KeybindingsFollowTopIfShallow'
    <3>1. Len(stack') = Len(stack) - 1 /\ (stack' = <<>> <=> Len(stack) = 1)
      BY <2>3, <2>4
    <3>2. \A j \in 1..(Len(stack) - 1) :
             /\ stack'[j].actor = IF j < i THEN stack[j].actor ELSE stack[j + 1].actor
             /\ stack'[j].actionMode = stack[j].actionMode
      BY <2>3, <2>4
    <3> QED
      BY <2>1, <2>4, <3>1, <3>2, PopKeeps
  <2>6. /\ modalCount' \in Nat /\ actionMode' \in ActionModes
        /\ keyFocus' \in Actors \cup {NoActor} /\ hasModal' \in BOOLEAN
        /\ unredirect' \in Nat /\ owed' \in Seq(Actors \cup {NoActor})
        /\ deepShift' \in BOOLEAN
    BY <1>1, <2>1, PopTypes
  <2>7. strayForget' \in BOOLEAN /\ strayPop' \in BOOLEAN /\ orphans' \subseteq Careless
    BY <1>1, <1>5 DEF DestroyModal, TypeOK
  <2>8. TypeOK'
    BY <2>2, <2>4, <2>6, <2>7 DEF TypeOK
  <2> QED
    BY <2>5, <2>8 DEF IInv
<1>6. ASSUME NEW a \in Actors, DestroyWidget(a) PROVE IInv'
  <2> DEFINE fired == {h \in handlers : h.on = a}
  <2>1. /\ stack' = Forgetting(stack, fired) /\ stack \in Seq(Record)
        /\ handlers' \subseteq Handler /\ alive' \subseteq Actors
        /\ strayForget' \in BOOLEAN /\ strayPop' \in BOOLEAN /\ orphans' \subseteq Careless
    BY <1>1, <1>6 DEF DestroyWidget, TypeOK
  <2>2. keyFocus' \in Actors \cup {NoActor}
    BY <1>1, <1>6 DEF DestroyWidget, TypeOK, Living
  <2>3. owed' \in Seq(Actors \cup {NoActor}) /\ Len(owed') = Len(stack)
    <3>1. DOMAIN owed = 1..Len(stack)
      BY <1>1 DEF TypeOK
    <3>2. owed' = [j \in 1..Len(stack) |-> owed'[j]]
      BY <1>6, <3>1 DEF DestroyWidget
    <3>3. \A j \in 1..Len(stack) : owed'[j] \in Actors \cup {NoActor}
      BY <1>1, <1>6, <3>1 DEF DestroyWidget, Living, TypeOK
    <3> QED
      BY <1>1, <3>2, <3>3, SeqByIndex
  <2> HIDE DEF fired
  <2>4. /\ stack' \in Seq(Record) /\ Len(stack') = Len(stack)
        /\ stack' = <<>> <=> stack = <<>>
        /\ \A j \in 1..Len(stack) : /\ stack'[j].actor = stack[j].actor
                                   /\ stack'[j].actionMode = stack[j].actionMode
    BY <2>1, ForgettingKeeps
  <2>5. /\ modalCount' = modalCount /\ unredirect' = unredirect /\ hasModal' = hasModal
        /\ actionMode' = actionMode /\ deepShift' = deepShift /\ strayPop' = strayPop
    BY <1>6 DEF DestroyWidget
  <2>6. /\ CountMatches' /\ GrabNeverLeaks' /\ CarefulModalHasGrab'
        /\ KeybindingsFollowTopIfShallow'
    BY <2>4, <2>5, SameOrderKeeps
  <2>7. TypeOK'
    BY <1>1, <2>1, <2>2, <2>3, <2>4, <2>5 DEF TypeOK
  <2> QED
    BY <2>3, <2>4, <2>6, <2>7 DEF IInv
<1>7. ASSUME UNCHANGED <<modalCount, stack, handlers, actionMode, hasModal, unredirect,
                         orphans, owed, deepShift, strayForget, strayPop>>,
             alive' \subseteq Actors, keyFocus' \in Actors \cup {NoActor}
      PROVE  IInv'
  <2>1. TypeOK'
    BY <1>1, <1>7 DEF TypeOK
  <2>2. /\ CountMatches' /\ GrabNeverLeaks' /\ CarefulModalHasGrab'
        /\ KeybindingsFollowTopIfShallow'
    BY <1>1, <1>7, SameOrderKeeps DEF TypeOK
  <2> QED
    BY <1>1, <1>7, <2>1, <2>2 DEF IInv
<1>8. ASSUME NEW a \in Actors, Create(a) PROVE IInv'
  <2>1. alive' \subseteq Actors /\ keyFocus' \in Actors \cup {NoActor}
    BY <1>1, <1>8 DEF Create, TypeOK
  <2> QED
    BY <1>7, <1>8, <2>1 DEF Create
<1>9. ASSUME NEW x \in Actors \cup {NoActor}, SetFocus(x) PROVE IInv'
  <2>1. alive' \subseteq Actors /\ keyFocus' \in Actors \cup {NoActor}
    BY <1>1, <1>9 DEF SetFocus, TypeOK
  <2> QED
    BY <1>7, <1>9, <2>1 DEF SetFocus
<1>10. CASE UNCHANGED vars
  <2>1. alive' \subseteq Actors /\ keyFocus' \in Actors \cup {NoActor}
    BY <1>1, <1>10 DEF vars, TypeOK
  <2> QED
    BY <1>7, <1>10, <2>1 DEF vars
<1> QED
  BY <1>2, <1>3, <1>4, <1>5, <1>6, <1>8, <1>9, <1>10 DEF Next

\* The invariant holds in every reachable state.
THEOREM Invariance == Spec => []IInv
BY InitIInv, NextIInv, PTL DEF Spec

\* Type correctness of the stack, the handlers and the grab.
THEOREM TypeCorrect == Spec => []TypeOK
<1>1. IInv => TypeOK
  BY DEF IInv
<1> QED
  BY <1>1, Invariance, PTL

\* Every pop undoes one push: the count, the records and the unredirection agree,
\* and an actor is in the stack at most once.
THEOREM CountAlwaysMatches == Spec => []CountMatches
<1>1. IInv => CountMatches
  BY DEF IInv
<1> QED
  BY <1>1, Invariance, PTL

\* The stage grab never outlives the last modal actor, whatever the clients do.
THEOREM NoGrabLeak == Spec => []GrabNeverLeaks
<1>1. IInv => GrabNeverLeaks
  BY DEF IInv
<1> QED
  BY <1>1, Invariance, PTL

\* As long as no client popped what it had not pushed, whoever is modal has the
\* grab: pushModal() keeps what its result says.
THEOREM ModalGrab == Spec => []CarefulModalHasGrab
<1>1. IInv => CarefulModalHasGrab
  BY DEF IInv
<1> QED
  BY <1>1, Invariance, PTL

\* The key bindings follow the topmost modal actor as long as no record was
\* removed from below two others.
THEOREM ModesFollowStack == Spec => []KeybindingsFollowTopIfShallow
<1>1. IInv => KeybindingsFollowTopIfShallow
  BY DEF IInv
<1> QED
  BY <1>1, Invariance, PTL

-----------------------------------------------------------------------------
\* The focus. A handler that is connected was created with the record that has its
\* id, so that it sits on the focus which that record gives back, as long as no
\* handler ran for another record; and nobody gives the focus to an actor that is gone.
HandlersFit(H, s) ==
  /\ \A g, h \in H : g.id = h.id => g = h
  /\ \A h \in H, j \in 1..Len(s) : h.id = s[j].handlerId => h.on = s[j].prevFocus

FocusLives == keyFocus \in alive \cup {NoActor}

Foci == /\ FocusLives
        /\ ~strayForget => HandlersFit(handlers, stack)
        /\ FocusGivenBackIfShallow

\* Who lives after a destruction lived before it.
LEMMA LivingOn ==
  ASSUME NEW x, NEW A, NEW B \in SUBSET A
  PROVE  Living(Living(x, A), B) = Living(x, B)
BY DEF Living

\* A removed record leaves the focus and the handler of those below it where they are,
\* and the records above it, shifted down, take over the focus of the record below each.
LEMMA SplicedFoci ==
  ASSUME TypeOK, NEW i \in 1..Len(stack), NEW j \in 1..(Len(stack) - 1)
  PROVE  /\ Spliced(i)[j].prevFocus = stack[j].prevFocus
         /\ Spliced(i)[j].handlerId = stack[j].handlerId
<1>1. stack[j] \in Record
  BY DEF TypeOK
<1>2. CASE j < i
  BY <1>2 DEF Spliced, Depth
<1>3. CASE ~(j < i)
  BY <1>1, <1>3 DEF Spliced, Depth, Record
<1> QED
  BY <1>2, <1>3

\* A pop of one of the two topmost records leaves every record the focus it owes, but
\* for the actors that are gone.
LEMMA PopOwed ==
  ASSUME IInv, NEW i \in 1..Len(stack), NEW living \in SUBSET alive, PopAt(i, living),
         FocusGivenBackIfShallow, ~deepShift', ~strayForget,
         NEW j \in 1..(Len(stack) - 1)
  PROVE  owed'[j] = Living(Spliced(i)[j].prevFocus, living)
<1>1. TypeOK /\ Len(stack) \in Nat
  BY DEF IInv, TypeOK
<1>2. ~deepShift /\ ~(Len(stack) - i >= 2)
  <2>1. deepShift' = (deepShift \/ Len(stack) - i >= 2)
    BY DEF PopAt, Depth
  <2> QED
    BY <2>1
<1>3. j <= i
  BY <1>1, <1>2
<1>4. owed'[j] = Living(owed[j], living)
  BY <1>3 DEF PopAt, OwedAfter, Depth
<1>5. owed[j] = Living(stack[j].prevFocus, alive)
  BY <1>1, <1>2 DEF FocusGivenBackIfShallow, FocusGivenBack, Depth
<1>6. Spliced(i)[j].prevFocus = stack[j].prevFocus
  BY <1>1, SplicedFoci
<1> QED
  BY <1>4, <1>5, <1>6, LivingOn

\* popModal() gives the focus to an actor that exists.
LEMMA PopFocuses ==
  ASSUME NEW i, NEW living, PopAt(i, living)
  PROVE  keyFocus' \in living \cup {NoActor}
BY DEF PopAt, Living

\* The handlers that a pop leaves connected fit the records that it leaves.
LEMMA PopFits ==
  ASSUME TypeOK, NEW i \in 1..Len(stack), HandlersFit(handlers, stack)
  PROVE  HandlersFit(HandlersAfterPop, Spliced(i))
<1>1. HandlersAfterPop \subseteq handlers
  BY DEF HandlersAfterPop
<1>2. Len(stack) \in Nat /\ Len(Spliced(i)) = Len(stack) - 1
  BY SplicedStack DEF TypeOK
<1>3. \A j \in 1..Len(Spliced(i)) :
        /\ j \in 1..Len(stack)
        /\ Spliced(i)[j].prevFocus = stack[j].prevFocus
        /\ Spliced(i)[j].handlerId = stack[j].handlerId
  BY <1>2, SplicedFoci
<1> QED
  BY <1>1, <1>3 DEF HandlersFit

\* The handlers on a destroyed actor make their own records forget it and no other.
LEMMA ForgettingOwn ==
  ASSUME NEW s \in Seq(Record), NEW H, NEW F \in SUBSET H,
         HandlersFit(H, s), ~Stray(s, F), NEW j \in 1..Len(s),
         NEW h \in F, h.pusher = s[j].actor
  PROVE  /\ Forgetting(s, F)[j].prevFocus = NoActor
         /\ Forgetting(s, F)[j].handlerId = s[j].handlerId
         /\ h.id = s[j].handlerId
         /\ s[j].prevFocus = h.on
<1>1. DOMAIN s = 1..Len(s)
  OBVIOUS
<1>2. Forgetting(s, F)[j] = [s[j] EXCEPT !.prevFocus = NoActor] /\ s[j] \in Record
  BY <1>1 DEF Forgetting
<1>3. h.id = s[j].handlerId
  BY <1>1 DEF Stray
<1>4. h.on = s[j].prevFocus
  BY <1>3 DEF HandlersFit
<1> QED
  BY <1>2, <1>3, <1>4 DEF Record

\* The records without such a handler stay as they are.
LEMMA ForgettingOthers ==
  ASSUME NEW s \in Seq(Record), NEW F, NEW j \in 1..Len(s),
         \A h \in F : h.pusher # s[j].actor
  PROVE  Forgetting(s, F)[j] = s[j]
BY DEF Forgetting

\* What is left of the handlers fits what is left of the records.
LEMMA ForgettingFits ==
  ASSUME NEW s \in Seq(Record), NEW H, NEW F \in SUBSET H,
         HandlersFit(H, s), ~Stray(s, F)
  PROVE  HandlersFit(H \ F, Forgetting(s, F))
<1>1. Len(Forgetting(s, F)) = Len(s)
  BY ForgettingKeeps
<1>2. \A g, h \in H \ F : g.id = h.id => g = h
  BY DEF HandlersFit
<1>3. ASSUME NEW g \in H \ F, NEW j \in 1..Len(s), g.id = Forgetting(s, F)[j].handlerId
      PROVE  g.on = Forgetting(s, F)[j].prevFocus
  <2>1. CASE \E h \in F : h.pusher = s[j].actor
    <3>1. PICK h \in F : h.pusher = s[j].actor
      BY <2>1
    <3>2. g.id = h.id /\ h \in H
      BY <1>3, <3>1, ForgettingOwn
    <3>3. g = h
      BY <3>2 DEF HandlersFit
    <3> QED
      BY <3>3
  <2>2. CASE ~ \E h \in F : h.pusher = s[j].actor
    <3>1. Forgetting(s, F)[j] = s[j]
      BY <2>2, ForgettingOthers
    <3> QED
      BY <1>3, <3>1 DEF HandlersFit
  <2> QED
    BY <2>1, <2>2
<1> QED
  BY <1>1, <1>2, <1>3 DEF HandlersFit

\* And no record gives back another focus than before.
LEMMA ForgettingGives ==
  ASSUME NEW s \in Seq(Record), NEW H, NEW F \in SUBSET H,
         HandlersFit(H, s), ~Stray(s, F), NEW living, \A h \in F : h.on \notin living, NEW j \in 1..Len(s)
  PROVE  Living(Forgetting(s, F)[j].prevFocus, living) = Living(s[j].prevFocus, living)
<1>1. CASE \E h \in F : h.pusher = s[j].actor
  <2>1. PICK h \in F : h.pusher = s[j].actor
    BY <1>1
  <2>2. Forgetting(s, F)[j].prevFocus = NoActor /\ s[j].prevFocus = h.on
    BY <2>1, ForgettingOwn
  <2> QED
    BY <2>2 DEF Living
<1>2. CASE ~ \E h \in F : h.pusher = s[j].actor
  BY <1>2, ForgettingOthers
<1> QED
  BY <1>1, <1>2

\* A push remembers the focus with a handler of its own id.
LEMMA PushFoci ==
  ASSUME IInv, Foci, NEW a \in alive, NEW id \in FreeIds, PushSucceeds(a, id)
  PROVE  Foci'
<1>1. /\ TypeOK /\ Len(stack) \in Nat /\ Len(owed) = Len(stack)
      /\ stack \in Seq(Record) /\ owed \in Seq(Actors \cup {NoActor})
  BY DEF IInv, TypeOK
<1> DEFINE r == [actor |-> a, prevFocus |-> keyFocus, handlerId |-> id,
                 actionMode |-> actionMode]
           new == {[on |-> x, pusher |-> a, id |-> id] : x \in {keyFocus} \ {NoActor}}
<1>2. /\ stack' = Append(stack, r) /\ owed' = Append(owed, keyFocus)
      /\ handlers' = handlers \cup new
      /\ keyFocus' = a /\ alive' = alive /\ deepShift' = deepShift
      /\ strayForget' = strayForget
  BY DEF PushSucceeds
<1>3. r.prevFocus = keyFocus /\ r.handlerId = id
  OBVIOUS
<1>4. \A h \in new : h.id = id /\ h.on = keyFocus
  OBVIOUS
<1>5. \A g, h \in new : g = h
  OBVIOUS
<1>6. /\ \A h \in handlers : h.id # id
      /\ \A j \in 1..Len(stack) : stack[j].handlerId # id
  BY DEF FreeIds, Depth
<1> HIDE DEF r, new
<1>7. /\ Len(stack') = Len(stack) + 1 /\ stack'[Len(stack) + 1] = r
      /\ owed'[Len(stack) + 1] = keyFocus
      /\ \A j \in 1..Len(stack) : stack'[j] = stack[j] /\ owed'[j] = owed[j]
  BY <1>1, <1>2
<1>8. \A j \in 1..Len(stack') : j \in 1..Len(stack) \/ j = Len(stack) + 1
  BY <1>1, <1>7
<1>9. FocusLives'
  BY <1>2 DEF FocusLives
<1>10. ASSUME ~strayForget' PROVE HandlersFit(handlers', stack')
  <2>1. HandlersFit(handlers, stack)
    BY <1>2, <1>10 DEF Foci
  <2>2. \A g, h \in handlers' : g.id = h.id => g = h
    BY <1>2, <1>4, <1>5, <1>6, <2>1 DEF HandlersFit
  <2>3. ASSUME NEW h \in handlers', NEW j \in 1..Len(stack'), h.id = stack'[j].handlerId
        PROVE  h.on = stack'[j].prevFocus
    <3>1. CASE j \in 1..Len(stack)
      BY <1>2, <1>4, <1>6, <1>7, <2>1, <2>3, <3>1 DEF HandlersFit
    <3>2. CASE j = Len(stack) + 1
      BY <1>2, <1>3, <1>4, <1>6, <1>7, <2>3, <3>2
    <3> QED
      BY <1>8, <3>1, <3>2
  <2> QED
    BY <2>2, <2>3 DEF HandlersFit
<1>11. ASSUME ~deepShift', ~strayForget' PROVE FocusGivenBack'
  <2>1. FocusGivenBack
    BY <1>2, <1>11 DEF Foci, FocusGivenBackIfShallow
  <2>2. \A j \in 1..Len(stack) : Living(stack'[j].prevFocus, alive) = owed'[j]
    BY <1>7, <2>1 DEF FocusGivenBack, Depth
  <2>3. Living(r.prevFocus, alive) = keyFocus
    BY <1>3 DEF Foci, FocusLives, Living
  <2> QED
    BY <1>2, <1>7, <1>8, <2>2, <2>3 DEF FocusGivenBack, Depth
<1> QED
  BY <1>9, <1>10, <1>11 DEF Foci, FocusGivenBackIfShallow

\* Every step keeps what is known of the focus.
LEMMA NextFoci == ASSUME IInv, Foci, [Next]_vars PROVE Foci'
<1>1. /\ TypeOK /\ Len(stack) \in Nat /\ Len(owed) = Len(stack) /\ stack \in Seq(Record)
      /\ alive \subseteq Actors /\ CountMatches
  BY DEF IInv, TypeOK
<1>2. ASSUME UNCHANGED <<stack, handlers, owed, deepShift, strayForget>>, FocusLives',
             \A j \in 1..Len(stack) : Living(stack[j].prevFocus, alive')
                                        = Living(stack[j].prevFocus, alive)
      PROVE  Foci'
  BY <1>2 DEF Foci, FocusGivenBackIfShallow, FocusGivenBack, Depth
<1>3. ASSUME NEW a \in Modals, Push(a) PROVE Foci'
  <2>1. CASE PushFails(a)
    BY <1>2, <2>1 DEF PushFails, Foci, FocusLives
  <2>2. CASE PushSucceeds(a, CHOOSE id \in FreeIds : TRUE)
    <3>1. (CHOOSE id \in FreeIds : TRUE) \in FreeIds /\ a \in alive
      BY <1>3 DEF Push
    <3> QED
      BY <2>2, <3>1, PushFoci
  <2> QED
    BY <1>3, <2>1, <2>2 DEF Push
<1>4. ASSUME NEW a \in Modals, Pop(a) PROVE Foci'
  <2> DEFINE i == FindModal(a)
  <2>1. /\ i \in 1..Len(stack) /\ PopAt(i, alive) /\ stack' = Spliced(i)
        /\ handlers' = HandlersAfterPop /\ alive' = alive /\ strayForget' = strayForget
    BY <1>1, <1>4, FindModalFinds DEF Pop
  <2> HIDE DEF i
  <2>2. Len(stack') = Len(stack) - 1
    BY <1>1, <2>1, SplicedStack
  <2>3. FocusLives'
    BY <2>1, PopFocuses DEF FocusLives
  <2>4. ~strayForget' => HandlersFit(handlers', stack')
    BY <1>1, <2>1, PopFits DEF Foci
  <2>5. ASSUME ~deepShift', ~strayForget' PROVE FocusGivenBack'
    <3>1. \A j \in 1..(Len(stack) - 1) : owed'[j] = Living(stack'[j].prevFocus, alive)
      BY <2>1, <2>5, PopOwed DEF Foci
    <3> QED
      BY <2>1, <2>2, <3>1 DEF FocusGivenBack, Depth
  <2> QED
    BY <2>3, <2>4, <2>5 DEF Foci, FocusGivenBackIfShallow
<1>5. ASSUME NEW a \in Modals, IncorrectPop(a) PROVE Foci'
  BY <1>2, <1>5 DEF IncorrectPop, FocusLives
<1>6. ASSUME NEW a \in Modals, DestroyModal(a) PROVE Foci'
  <2> DEFINE i == FindModal(a)
             living == alive \ {a}
             fired == {h \in HandlersAfterPop : h.on = a}
  <2>1. /\ i \in 1..Len(stack) /\ PopAt(i, living) /\ alive' = living
        /\ stack' = Forgetting(Spliced(i), fired)
        /\ handlers' = HandlersAfterPop \ fired
        /\ strayForget' = (strayForget \/ Stray(Spliced(i), fired))
    BY <1>1, <1>6, FindModalFinds DEF DestroyModal
  <2>2. living \in SUBSET alive
    OBVIOUS
  <2>3. fired \in SUBSET HandlersAfterPop /\ \A h \in fired : h.on \notin living
    OBVIOUS
  <2> HIDE DEF i, living, fired
  <2>4. Spliced(i) \in Seq(Record) /\ Len(Spliced(i)) = Len(stack) - 1
    BY <1>1, <2>1, SplicedStack
  <2>5. Len(stack') = Len(stack) - 1
    BY <2>1, <2>4, ForgettingKeeps
  <2>6. FocusLives'
    BY <2>1, PopFocuses DEF FocusLives
  <2>7. ASSUME ~strayForget'
        PROVE  /\ HandlersFit(handlers', stack')
               /\ \A j \in 1..(Len(stack) - 1) :
                    Living(stack'[j].prevFocus, living) = Living(Spliced(i)[j].prevFocus, living)
    <3>1. ~strayForget /\ ~Stray(Spliced(i), fired)
      BY <2>1, <2>7
    <3>2. HandlersFit(HandlersAfterPop, Spliced(i))
      BY <1>1, <2>1, <3>1, PopFits DEF Foci
    <3>3. HandlersFit(HandlersAfterPop \ fired, Forgetting(Spliced(i), fired))
      BY <2>3, <2>4, <3>1, <3>2, ForgettingFits
    <3>4. \A j \in 1..Len(Spliced(i)) :
            Living(Forgetting(Spliced(i), fired)[j].prevFocus, living)
              = Living(Spliced(i)[j].prevFocus, living)
      BY <2>2, <2>3, <2>4, <3>1, <3>2, ForgettingGives
    <3> QED
      BY <2>1, <2>4, <3>3, <3>4
  <2>8. ASSUME ~deepShift', ~strayForget' PROVE FocusGivenBack'
    <3>1. ~strayForget
      BY <2>1, <2>8
    <3>2. \A j \in 1..(Len(stack) - 1) : owed'[j] = Living(Spliced(i)[j].prevFocus, living)
      BY <2>1, <2>2, <2>8, <3>1, PopOwed DEF Foci
    <3> QED
      BY <2>1, <2>5, <2>7, <2>8, <3>2 DEF FocusGivenBack, Depth
  <2> QED
    BY <2>6, <2>7, <2>8 DEF Foci, FocusGivenBackIfShallow
<1>7. ASSUME NEW a \in Actors, DestroyWidget(a) PROVE Foci'
  <2> DEFINE living == alive \ {a}
             fired == {h \in handlers : h.on = a}
  <2>1. /\ stack' = Forgetting(stack, fired) /\ handlers' = handlers \ fired
        /\ strayForget' = (strayForget \/ Stray(stack, fired))
        /\ deepShift' = deepShift /\ alive' = living
        /\ keyFocus' = Living(keyFocus, living)
        /\ owed' = [j \in DOMAIN owed |-> Living(owed[j], living)]
    BY <1>7 DEF DestroyWidget
  <2>2. living \in SUBSET alive
    OBVIOUS
  <2>3. fired \in SUBSET handlers /\ \A h \in fired : h.on \notin living
    OBVIOUS
  <2> HIDE DEF living, fired
  <2>4. Len(stack') = Len(stack)
    BY <1>1, <2>1, ForgettingKeeps
  <2>5. FocusLives'
    BY <2>1 DEF FocusLives, Living
  <2>6. ASSUME ~strayForget'
        PROVE  /\ HandlersFit(handlers', stack')
               /\ \A j \in 1..Len(stack) :
                    Living(stack'[j].prevFocus, living) = Living(stack[j].prevFocus, living)
    <3>1. ~strayForget /\ ~Stray(stack, fired)
      BY <2>1, <2>6
    <3>2. HandlersFit(handlers, stack)
      BY <3>1 DEF Foci
    <3>3. HandlersFit(handlers \ fired, Forgetting(stack, fired))
      BY <1>1, <2>3, <3>1, <3>2, ForgettingFits
    <3>4. \A j \in 1..Len(stack) :
            Living(Forgetting(stack, fired)[j].prevFocus, living)
              = Living(stack[j].prevFocus, living)
      BY <1>1, <2>2, <2>3, <3>1, <3>2, ForgettingGives
    <3> QED
      BY <2>1, <3>3, <3>4
  <2>7. ASSUME ~deepShift', ~strayForget' PROVE FocusGivenBack'
    <3>1. FocusGivenBack
      BY <2>1, <2>7 DEF Foci, FocusGivenBackIfShallow
    <3>2. DOMAIN owed = 1..Len(stack)
      BY <1>1 DEF TypeOK
    <3>3. \A j \in 1..Len(stack) :
            owed'[j] = Living(Living(stack[j].prevFocus, alive), living)
      BY <2>1, <3>1, <3>2 DEF FocusGivenBack, Depth
    <3>4. \A j \in 1..Len(stack) : owed'[j] = Living(stack[j].prevFocus, living)
      BY <2>2, <3>3, LivingOn
    <3> QED
      BY <2>1, <2>4, <2>6, <2>7, <3>4 DEF FocusGivenBack, Depth
  <2> QED
    BY <2>5, <2>6, <2>7 DEF Foci, FocusGivenBackIfShallow
<1>8. ASSUME NEW a \in Actors, Create(a) PROVE Foci'
  <2>1. FocusLives'
    BY <1>8 DEF Create, Foci, FocusLives
  <2>2. \A j \in 1..Len(stack) : Living(stack[j].prevFocus, alive')
                                   = Living(stack[j].prevFocus, alive)
    BY <1>8 DEF Create, Living, Depth
  <2> QED
    BY <1>2, <1>8, <2>1, <2>2 DEF Create
<1>9. ASSUME NEW x \in Actors \cup {NoActor}, SetFocus(x) PROVE Foci'
  BY <1>2, <1>9 DEF SetFocus, FocusLives
<1>10. CASE UNCHANGED vars
  BY <1>2, <1>10 DEF vars, Foci, FocusLives
<1> QED
  BY <1>3, <1>4, <1>5, <1>6, <1>7, <1>8, <1>9, <1>10 DEF Next

\* Every record gives back the focus that it was pushed over, or the one of a record
\* removed below it, and no actor that is gone, as long as no record was removed from
\* below two others and no handler ran for another record (popModal() in main.js).
THEOREM FocusComesBack == Spec => []FocusGivenBackIfShallow
<1>1. Init => Foci
  BY DEF Init, Foci, FocusLives, HandlersFit, FocusGivenBackIfShallow, FocusGivenBack, Depth
<1>2. IInv /\ Foci /\ [Next]_vars => Foci'
  BY NextFoci
<1>3. Foci => FocusGivenBackIfShallow
  BY DEF Foci
<1> QED
  BY <1>1, <1>2, <1>3, Invariance, PTL DEF Spec

=============================================================================
