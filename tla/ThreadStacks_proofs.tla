------------------------ MODULE ThreadStacks_proofs ------------------------
(***************************************************************************)
(* For every number and size of stacks and every width of a word, whatever *)
(* the threads do: a stack that is whole is a chain of elements its thread *)
(* or its mother pushed, and pops are private to it; what is written goes  *)
(* to the stack of who writes, or at most three bytes below it.  stpushb   *)
(* makes that happen, and the stacks it reaches are broken from then on;   *)
(* so are those of children copied from a mother who does not wait.  Of a  *)
(* broken stack it is proved that its stack pointer stays where the stack  *)
(* is, one byte above and three below included.                            *)
(***************************************************************************)
EXTENDS ThreadStacks, WellFoundedInduction, SequenceTheorems, TLAPS

\* A stack lies inside the stacks that the data block has room for.
LEMMA StackInMemory ==
    ASSUME NEW c \in Cores
    PROVE  /\ Bottom(c) \in Int
           /\ Top(c) \in Int
           /\ 0 <= Bottom(c)
           /\ Top(c) = Bottom(c) + StackSize - 1
           /\ Top(c) <= MaxCpu * StackSize - 1
           /\ Bottom(c) .. Top(c) \subseteq Addresses
<1>1. c \in Nat /\ c + 1 <= MaxCpu /\ MaxCpu \in Nat /\ StackSize \in Nat
  BY StacksAssumption DEF Cores
<1>2. c * StackSize \in Nat /\ MaxCpu * StackSize \in Nat
  BY <1>1
<1>3. (c + 1) * StackSize = c * StackSize + StackSize
  BY <1>1
<1>4. (c + 1) * StackSize <= MaxCpu * StackSize
  BY <1>1
<1>5. c * StackSize + StackSize - 1 <= MaxCpu * StackSize - 1
  BY <1>1, <1>2, <1>3, <1>4
<1> QED
  BY <1>1, <1>2, <1>5 DEF Bottom, Top, Addresses, DataTail

LEMMA FirstStack == 0 \in Cores /\ Top(0) = StackSize - 1 /\ Bottom(0) = 0
BY StacksAssumption DEF Cores, Top, Bottom

\* How far below its stack a thread can write.
Lowest(c) == Bottom(c) - DataTail

LEMMA LowestIs ==
    ASSUME NEW c \in Cores
    PROVE  /\ Lowest(c) \in Int /\ Top(c) \in Int /\ Bottom(c) \in Int
           /\ Lowest(c) = Bottom(c) - 3 /\ Bottom(c) + 2 <= Top(c)
           /\ Lowest(c) .. Top(c) \subseteq Addresses
           /\ Lowest(c) .. Top(c) + 1 \subseteq Pointers
<1>1. /\ Bottom(c) \in Int /\ Top(c) \in Int /\ 0 <= Bottom(c)
      /\ Top(c) = Bottom(c) + StackSize - 1
      /\ Top(c) <= MaxCpu * StackSize - 1
      /\ StackSize \in Nat /\ StackSize > 2 /\ MaxCpu * StackSize \in Int
  BY StackInMemory, StacksAssumption
<1> QED
  BY <1>1 DEF Lowest, DataTail, Addresses, Pointers

\* Two stacks have no byte in common, and from below its stack a thread
\* reaches but the next one.
LEMMA StacksApart ==
    ASSUME NEW c \in Cores, NEW d \in Cores, c # d,
           NEW a \in Lowest(c) .. Top(c),
           a \in Bottom(c) .. Top(c) \/ d # c - 1
    PROVE  a \notin Bottom(d) .. Top(d)
<1>1. c \in Nat /\ d \in Nat /\ StackSize \in Nat /\ StackSize > 2
  BY StacksAssumption DEF Cores
<1>2. /\ c * StackSize \in Nat /\ d * StackSize \in Nat
      /\ (c + 1) * StackSize = c * StackSize + StackSize
      /\ (d + 1) * StackSize = d * StackSize + StackSize
      /\ (d + 2) * StackSize = d * StackSize + StackSize + StackSize
      /\ a \in Int
  BY <1>1, LowestIs
<1>3. CASE c + 1 <= d
  <2>1. (c + 1) * StackSize <= d * StackSize
    BY <1>1, <1>3
  <2> QED
    BY <1>1, <1>2, <2>1 DEF Bottom, Top
<1>4. CASE d + 1 = c
  <2>1. c * StackSize = d * StackSize + StackSize
    BY <1>2, <1>4
  <2>2. a \in Bottom(c) .. Top(c)
    BY <1>1, <1>4
  <2> QED
    BY <1>1, <1>2, <2>1, <2>2 DEF Bottom, Top
<1>5. CASE d + 2 <= c
  <2>1. (d + 2) * StackSize <= c * StackSize
    BY <1>1, <1>5
  <2> QED
    BY <1>1, <1>2, <2>1 DEF Bottom, Top, Lowest, DataTail
<1> QED
  BY <1>1, <1>3, <1>4, <1>5

LEMMA WidthNat == \A k \in Kinds : Width(k) \in 1 .. Word
BY StacksAssumption DEF Width

\* A type is told by its tag.
LEMMA TagTells ==
    \A k, l \in Kinds : Tag[k] \in Byte /\ (Tag[k] = Tag[l] => k = l)
BY StacksAssumption DEF Tag, Byte

LEMMA SpRange ==
    ASSUME StackInv, NEW c \in Cores
    PROVE  /\ sp[c] \in Lowest(c) .. Top(c) + 1 /\ sp[c] \in Int
           /\ c \notin broken => sp[c] \in Bottom(c) .. Top(c)
BY LowestIs DEF StackInv, SpInStack, Lowest

\* What pushed nothing and wrote nothing above the pointer keeps the chain.
LEMMA KeepChain ==
    ASSUME NEW c \in Cores, Chained(c),
           sp'[c] = sp[c],
           \A a \in sp[c] .. Top(c) : mem'[a] = mem[a]
    PROVE  Chained(c)'
<1>1. PICK B \in SUBSET (sp[c] .. Top(c)) : Chain(c, B)
  BY DEF Chained
<1>2. \A b \in B : mem'[b] = mem[b]
  BY <1>1
<1>3. Chain(c, B)'
  BY <1>1, <1>2 DEF Chain, Top
<1> QED
  BY <1>1, <1>3 DEF Chained, Top

\* An element that is there and has the right tag ends inside the stack, and
\* the chain goes on behind it.
LEMMA NextElement ==
    ASSUME StackInv, NEW c \in Cores, NEW k \in Kinds, Chained(c),
           c \notin broken,
           Holds(c, k), TagMatches(c, k)
    PROVE  /\ sp[c] + Width(k) + 1 \in Bottom(c) .. Top(c)
           /\ \A s : s = sp[c] + Width(k) + 1 =>
                 \E B \in SUBSET (s .. Top(c)) :
                    /\ s \in B /\ Top(c) \in B
                    /\ \A b \in B : b # Top(c) =>
                          \E l \in Kinds :
                             mem[b] = Tag[l] /\ b + Width(l) + 1 \in B
<1>1. PICK B \in SUBSET (sp[c] .. Top(c)) : Chain(c, B)
  BY DEF Chained
<1>2. sp[c] \in Bottom(c) .. Top(c) /\ Bottom(c) \in Int /\ Top(c) \in Int
  BY SpRange, StackInMemory
<1>3. Width(k) \in 1 .. Word /\ Word \in Nat
  BY WidthNat, StacksAssumption
<1>4. sp[c] # Top(c)
  BY <1>2, <1>3 DEF Holds
<1>5. sp[c] + Width(k) + 1 \in B
  <2>1. PICK l \in Kinds : mem[sp[c]] = Tag[l] /\ sp[c] + Width(l) + 1 \in B
    BY <1>1, <1>4 DEF Chain
  <2>2. l = k
    BY <2>1, TagTells DEF TagMatches
  <2> QED
    BY <2>1, <2>2
<1>6. sp[c] + Width(k) + 1 \in Bottom(c) .. Top(c)
  BY <1>1, <1>2, <1>3, <1>5
<1>7. ASSUME NEW s, s = sp[c] + Width(k) + 1
      PROVE  \E D \in SUBSET (s .. Top(c)) :
                    /\ s \in D /\ Top(c) \in D
                    /\ \A b \in D : b # Top(c) =>
                          \E l \in Kinds :
                             mem[b] = Tag[l] /\ b + Width(l) + 1 \in D
  <2> DEFINE D == {b \in B : s <= b}
  <2> s \in Int
    BY <1>2, <1>3, <1>7
  <2>0. \A b \in B : b \in Int /\ b <= Top(c)
    BY <1>1, <1>2
  <2>1. D \subseteq s .. Top(c)
    <3> SUFFICES ASSUME NEW b \in D PROVE b \in s .. Top(c)
      OBVIOUS
    <3>1. b \in B /\ s <= b
      OBVIOUS
    <3> QED
      BY <1>2, <2>0, <3>1
  <2>2. s \in D /\ Top(c) \in D
    BY <1>1, <1>2, <1>5, <1>6, <1>7, <2>1 DEF Chain
  <2>3. ASSUME NEW b \in D, b # Top(c)
        PROVE  \E l \in Kinds : mem[b] = Tag[l] /\ b + Width(l) + 1 \in D
    <3>1. PICK l \in Kinds : mem[b] = Tag[l] /\ b + Width(l) + 1 \in B
      BY <1>1, <2>3 DEF Chain
    <3>2. b \in B /\ b \in Int /\ s <= b /\ Width(l) \in 1 .. Word
      BY <2>0, <2>3, WidthNat
    <3>3. b + Width(l) + 1 \in D
      BY <1>3, <2>1, <3>1, <3>2
    <3> QED
      BY <3>1, <3>3
  <2> HIDE DEF D
  <2> QED
    BY <2>1, <2>2, <2>3
<1> QED
  BY <1>6, <1>7

\* A push puts one element in front of the chain, and a byte without room for
\* its tag goes below the stack.
LEMMA PushStays ==
    ASSUME StackInv, NEW c \in Cores, NEW k \in Kinds, PushFits(c, k)
    PROVE  /\ sp[c] - Width(k) - 1 \in Lowest(c) .. Top(c)
           /\ k = "byte" /\ HasRoom(c) => sp[c] - Width(k) - 1 \in Bottom(c) .. Top(c)
           /\ k # "byte" => sp[c] - Width(k) - 1 \in Bottom(c) .. Top(c)
<1>1. /\ sp[c] \in Lowest(c) .. Top(c) + 1 /\ sp[c] \in Int
      /\ Lowest(c) \in Int /\ Top(c) \in Int /\ Bottom(c) \in Int
      /\ Lowest(c) = Bottom(c) - 3 /\ Word \in Nat \ {0}
  BY SpRange, LowestIs, StacksAssumption
<1>2. CASE k = "byte"
  BY <1>1, <1>2 DEF PushFits, HasRoom, Width
<1>3. CASE k # "byte"
  BY <1>1, <1>3 DEF PushFits, Width
<1> QED
  BY <1>2, <1>3

LEMMA PushTypes ==
    ASSUME StackInv, NEW c \in Cores, NEW k \in Kinds
    PROVE  /\ Pushed(c, k) \in [Addresses -> Byte]
           /\ \A a \in Addresses :
                 Pushed(c, k)[a] # mem[a] =>
                    a \in sp[c] - Width(k) - 1 .. sp[c] - 1
<1>1. Tag[k] \in Byte /\ Width(k) \in 1 .. Word /\ Word \in Nat
  BY TagTells, WidthNat, StacksAssumption
<1>2. sp[c] \in Int
  BY SpRange
<1>3. reg[c] \in [1 .. Word -> Byte] /\ mem \in [Addresses -> Byte]
  BY DEF StackInv, TypeOK, Words
<1>4. ASSUME NEW a \in Addresses
      PROVE  /\ Pushed(c, k)[a] \in Byte
             /\ Pushed(c, k)[a] # mem[a] =>
                    a \in sp[c] - Width(k) - 1 .. sp[c] - 1
  <2>1. a \in Int
    BY StacksAssumption DEF Addresses, DataTail
  <2>2. CASE a = sp[c] - Width(k) - 1
    BY <1>1, <1>2, <2>1, <2>2 DEF Pushed
  <2>3. CASE a # sp[c] - Width(k) - 1 /\ a \in sp[c] - Width(k) .. sp[c] - 1
    <3>1. sp[c] - a \in 1 .. Word
      BY <1>1, <1>2, <2>1, <2>3
    <3>2. Pushed(c, k)[a] = reg[c][sp[c] - a]
      BY <2>3 DEF Pushed
    <3> QED
      BY <1>1, <1>2, <1>3, <2>1, <2>3, <3>1, <3>2
  <2>4. CASE a # sp[c] - Width(k) - 1 /\ a \notin sp[c] - Width(k) .. sp[c] - 1
    BY <1>3, <2>4 DEF Pushed
  <2> QED
    BY <2>2, <2>3, <2>4
<1> QED
  BY <1>4 DEF Pushed

\* What is popped was inside the stack, and the pointer behind it is at most
\* one byte above.
LEMMA PopTypes ==
    ASSUME StackInv, NEW c \in Cores, NEW k \in Kinds, Holds(c, k)
    PROVE  /\ Popped(c, k) \in Words
           /\ sp[c] + Width(k) + 1 \in Lowest(c) .. Top(c) + 1
<1>1. /\ sp[c] \in Lowest(c) .. Top(c) + 1 /\ sp[c] \in Int
      /\ Lowest(c) \in Int /\ Top(c) \in Int
  BY SpRange, LowestIs
<1>2. Width(k) \in 1 .. Word /\ Word \in Nat
  BY WidthNat, StacksAssumption
<1>3. reg[c] \in [1 .. Word -> Byte] /\ mem \in [Addresses -> Byte]
  BY DEF StackInv, TypeOK, Words
<1>4. sp[c] + Width(k) <= Top(c)
  BY <1>1, <1>2 DEF Holds, Width
<1>5. ASSUME NEW i \in 1 .. Word
      PROVE  (IF i <= Width(k) THEN mem[sp[c] + Width(k) + 1 - i]
                               ELSE reg[c][i]) \in Byte
  <2>1. CASE i <= Width(k)
    <3>1. sp[c] + Width(k) + 1 - i \in Lowest(c) .. Top(c)
      BY <1>1, <1>2, <1>4, <2>1
    <3>2. sp[c] + Width(k) + 1 - i \in Addresses
      BY <3>1, LowestIs
    <3> QED
      BY <1>3, <2>1, <3>2
  <2>2. CASE ~(i <= Width(k))
    BY <1>3, <2>2
  <2> QED
    BY <2>1, <2>2
<1>6. sp[c] + Width(k) + 1 \in Lowest(c) .. Top(c) + 1
  BY <1>1, <1>2, <1>4
<1> QED
  BY <1>5, <1>6 DEF Popped, Words

-----------------------------------------------------------------------------
\* The state of one core that StackInv speaks of.
CoreInv(c) ==
    /\ pc[c] = "copy" => MotherKnown(c)
    /\ c \notin broken =>
          IF pc[c] = "copy" THEN SameAsMothers(c) /\ 0 \notin broken
                            ELSE Chained(c)

\* What a step of a thread leaves as it was, of the others and of what was
\* harmed before, and where it writes.  What it does to the mother's stack
\* harms the copies that are being made.
StepOf(c) ==
    /\ \A d \in Cores \ {c} :
          /\ sp'[d] = sp[d] /\ pc'[d] = pc[d]
          /\ motherSp'[d] = motherSp[d] /\ copied'[d] = copied[d]
    /\ \A d \in broken \ {c} : d \in broken'
    /\ \A a \in Addresses : mem'[a] # mem[a] =>
          \/ a \in Bottom(c) .. Top(c)
          \/ a \in Lowest(c) .. Bottom(c) - 1 /\ Under(c) \subseteq broken'
    /\ \/ Copying \subseteq broken'
       \/ /\ 0 \in broken' => 0 \in broken
          /\ c = 0 => sp'[0] = sp[0] /\ mem' = mem

\* The bytes of another stack that is whole afterwards were not touched.
LEMMA WholeKept ==
    ASSUME NEW c \in Cores, StepOf(c), NEW d \in Cores, d # c, d \notin broken'
    PROVE  \A a \in Bottom(d) .. Top(d) : mem'[a] = mem[a]
<1> SUFFICES ASSUME NEW a \in Bottom(d) .. Top(d), mem'[a] # mem[a]
             PROVE  FALSE
  OBVIOUS
<1>1. a \in Addresses
  BY StackInMemory
<1>2. /\ Lowest(c) \in Int /\ Bottom(c) \in Int /\ Top(c) \in Int
      /\ Lowest(c) <= Bottom(c) /\ Bottom(c) <= Top(c)
  BY LowestIs
<1>3. CASE a \in Bottom(c) .. Top(c)
  <2>1. a \in Lowest(c) .. Top(c)
    BY <1>2, <1>3
  <2> QED
    BY <1>3, <2>1, StacksApart
<1>4. CASE a \in Lowest(c) .. Bottom(c) - 1 /\ Under(c) \subseteq broken'
  <2>1. a \in Lowest(c) .. Top(c)
    BY <1>2, <1>4
  <2>2. d # c - 1
    BY <1>4 DEF Under
  <2> QED
    BY <2>1, <2>2, StacksApart
<1> QED
  BY <1>1, <1>3, <1>4 DEF StepOf

\* While a child copies, and neither it nor its mother is harmed, the mother
\* leaves her stack alone.
LEMMA MotherWaits ==
    ASSUME StackInv, NEW c \in Cores, StepOf(c), NEW d \in Cores,
           d # c, pc[d] = "copy", d \notin broken'
    PROVE  /\ d # 0 /\ d \notin broken /\ 0 \in Cores
           /\ 0 \notin broken /\ 0 \notin broken'
           /\ sp'[0] = sp[0]
           /\ \A a \in Bottom(0) .. Top(0) : mem'[a] = mem[a]
<1>1. d # 0 /\ d \in Copying /\ 0 \in Cores
  BY FirstStack DEF StackInv, Children, Copying
<1>2. d \notin broken
  BY DEF StepOf
<1>3. 0 \notin broken
  BY <1>2 DEF StackInv
<1>4. /\ 0 \notin broken'
      /\ c = 0 => sp'[0] = sp[0] /\ mem' = mem
  BY <1>1, <1>3 DEF StepOf
<1>5. CASE c = 0
  BY <1>1, <1>2, <1>3, <1>4, <1>5
<1>6. CASE c # 0
  <2>1. sp'[0] = sp[0]
    BY <1>1, <1>6 DEF StepOf
  <2> QED
    BY <1>1, <1>2, <1>3, <1>4, <1>6, <2>1, WholeKept
<1> QED
  BY <1>5, <1>6

\* What a thread does inside its own stack leaves the others as they were.
LEMMA OthersKeep ==
    ASSUME StackInv, NEW c \in Cores, StepOf(c), NEW d \in Cores, d # c
    PROVE  CoreInv(d)'
<1>1. /\ sp'[d] = sp[d] /\ pc'[d] = pc[d]
      /\ motherSp'[d] = motherSp[d] /\ copied'[d] = copied[d]
      /\ d \in broken => d \in broken'
  BY DEF StepOf
<1>2. ASSUME pc'[d] = "copy" PROVE MotherKnown(d)'
  <2>1. d \in Copying
    BY <1>1, <1>2 DEF StackInv, Children, Copying
  <2>2. MotherKnown(d)
    BY <2>1 DEF StackInv
  <2> QED
    BY <1>1, <2>2 DEF MotherKnown, ToCopy, Top, Bottom
<1>3. ASSUME d \notin broken', pc[d] = "copy"
      PROVE  SameAsMothers(d)' /\ 0 \notin broken'
  <2>1. /\ d # 0 /\ d \notin broken /\ 0 \in Cores
        /\ 0 \notin broken' /\ sp'[0] = sp[0]
        /\ \A a \in Bottom(0) .. Top(0) : mem'[a] = mem[a]
    BY <1>3, MotherWaits
  <2>2. SameAsMothers(d)
    BY <1>3, <2>1 DEF StackInv
  <2>3. \A a \in Bottom(d) .. Top(d) : mem'[a] = mem[a]
    BY <1>3, WholeKept
  <2>4. \A i \in 0 .. StackSize - 1 :
           /\ Top(d) - i \in Bottom(d) .. Top(d)
           /\ Top(0) - i \in Bottom(0) .. Top(0)
    BY StackInMemory, FirstStack, StacksAssumption
  <2>5. ASSUME NEW i \in 0 .. StackSize - 1, i < copied[d]
        PROVE  mem'[Top(d) - i] = mem'[Top(0) - i]
    BY <2>1, <2>2, <2>3, <2>4, <2>5 DEF SameAsMothers
  <2>6. SameAsMothers(d)'
    BY <1>1, <2>1, <2>2, <2>5 DEF SameAsMothers, Top
  <2> QED
    BY <2>1, <2>6
<1>4. ASSUME d \notin broken', pc[d] # "copy"
      PROVE  Chained(d)'
  <2>1. Chained(d) /\ sp[d] \in Bottom(d) .. Top(d)
    BY <1>1, <1>4, SpRange DEF StackInv
  <2>2. \A a \in sp[d] .. Top(d) : a \in Bottom(d) .. Top(d)
    BY <2>1, StackInMemory
  <2>3. \A a \in sp[d] .. Top(d) : mem'[a] = mem[a]
    BY <1>4, <2>2, WholeKept
  <2> QED
    BY <1>1, <2>1, <2>3, KeepChain
<1> QED
  BY <1>1, <1>2, <1>3, <1>4 DEF CoreInv

\* One step of the invariant needs its pieces for the new state, those of the
\* core that acted among them.
LEMMA ActorAndOthers ==
    ASSUME StackInv, TypeOK', NEW c \in Cores, StepOf(c),
           sp'[c] \in Lowest(c) .. Top(c) + 1,
           c \notin broken' => sp'[c] \in Bottom(c) .. Top(c),
           c = 0 => pc'[0] \in {"run", "dead"},
           CoreInv(c)'
    PROVE  StackInv'
<1>1. \A d \in Cores : CoreInv(d)'
  BY OthersKeep
<1>2. pc'[0] \in {"run", "dead"}
  BY FirstStack DEF StackInv, StepOf
<1>3. SpInStack'
  <2> SUFFICES ASSUME NEW d \in Cores
               PROVE  /\ sp'[d] \in Lowest(d) .. Top(d) + 1
                      /\ d \notin broken' => sp'[d] \in Bottom(d) .. Top(d)
    BY DEF SpInStack, Lowest, Bottom, Top
  <2>1. CASE d = c
    BY <2>1
  <2>2. CASE d # c
    <3>1. sp'[d] = sp[d] /\ (d \notin broken' => d \notin broken)
      BY <2>2 DEF StepOf
    <3> QED
      BY <3>1, SpRange
  <2> QED
    BY <2>1, <2>2
<1> QED
  BY <1>1, <1>2, <1>3 DEF StackInv, CoreInv, Copying, Children

LEMMA RunningIsChained ==
    ASSUME StackInv, NEW c \in Cores, pc[c] = "run", c \notin broken
    PROVE  Chained(c)
BY DEF StackInv

\* The top alone is a chain.
LEMMA EmptyChained ==
    ASSUME NEW c \in Cores, sp[c] = Top(c)
    PROVE  Chained(c)
<1> Top(c) \in Int
  BY StackInMemory
<1>1. {Top(c)} \in SUBSET (sp[c] .. Top(c))
  OBVIOUS
<1>2. Chain(c, {Top(c)})
  BY DEF Chain
<1> QED
  BY <1>1, <1>2 DEF Chained

LEMMA InitInv == Init => StackInv
<1> SUFFICES ASSUME Init PROVE StackInv
  OBVIOUS
<1>1. \A c \in Cores : /\ Top(c) \in Bottom(c) .. Top(c) /\ Top(c) \in Pointers
                       /\ Top(c) \in Bottom(c) - DataTail .. Top(c) + 1
  BY LowestIs DEF Lowest
<1>2. TypeOK
  BY <1>1, FirstStack, StacksAssumption
     DEF Init, TypeOK, PC, Byte, Words, DataTail
<1>3. SpInStack
  BY <1>1 DEF Init, SpInStack
<1>4. \A c \in Cores : Chained(c) /\ pc[c] # "copy"
  BY EmptyChained DEF Init
<1> QED
  BY <1>2, <1>3, <1>4, FirstStack DEF Init, StackInv, Copying, Children

\* What a push leaves: one more element in front of the chain.
LEMMA PushChained ==
    ASSUME StackInv, NEW c \in Cores, NEW k \in Kinds, Push(c, k),
           c \notin broken, sp[c] - Width(k) - 1 \in Bottom(c) .. Top(c)
    PROVE  Chained(c)'
<1>0. PICK s : s = sp[c] - Width(k) - 1
  OBVIOUS
<1>1. /\ sp'[c] = s /\ mem' = Pushed(c, k) /\ pc[c] = "run"
      /\ s \in Int /\ sp[c] \in Int /\ Top(c) \in Int
      /\ s < sp[c] /\ sp[c] <= Top(c)
      /\ s \in Addresses
      /\ s + Width(k) + 1 = sp[c]
  BY <1>0, SpRange, StackInMemory, WidthNat DEF Push, StackInv, TypeOK
<1>2. PICK B \in SUBSET (sp[c] .. Top(c)) : Chain(c, B)
  BY <1>1 DEF StackInv, Chained
<1>3. \A b \in B : b \in Int /\ sp[c] <= b /\ b <= Top(c) /\ b \in Addresses
  BY <1>1, <1>2, SpRange, StackInMemory
<1>4. mem'[s] = Tag[k]
  BY <1>0, <1>1 DEF Pushed
<1>5. \A b \in B : mem'[b] = mem[b]
  BY <1>0, <1>1, <1>3, PushTypes
<1>6. B \cup {s} \in SUBSET (sp'[c] .. Top(c))
  <2> SUFFICES ASSUME NEW b \in B \cup {s}
               PROVE  b \in s .. Top(c)
    BY <1>1
  <2>1. CASE b \in B
    BY <1>1, <1>3, <2>1
  <2>2. CASE b = s
    BY <1>1, <2>2
  <2> QED
    BY <2>1, <2>2
<1>7. Chain(c, B \cup {s})'
  <2>1. sp'[c] \in B \cup {s} /\ Top(c) \in B \cup {s}
    BY <1>1, <1>2 DEF Chain
  <2>2. ASSUME NEW b \in B \cup {s}, b # Top(c)
        PROVE  \E l \in Kinds : mem'[b] = Tag[l] /\ b + Width(l) + 1 \in B \cup {s}
    <3>1. CASE b \in B
      BY <1>2, <1>5, <2>2, <3>1 DEF Chain
    <3>2. CASE b = s
      BY <1>1, <1>2, <1>4, <3>2 DEF Chain
    <3> QED
      BY <3>1, <3>2
  <2> QED
    BY <2>1, <2>2 DEF Chain, Top
<1> QED
  BY <1>6, <1>7 DEF Chained, Top

\* What the finished copy leaves: the mother's chain, moved to the child.
LEMMA CopyChained ==
    ASSUME StackInv, NEW c \in Cores, pc[c] = "copy", copied[c] = ToCopy(c),
           c \notin broken
    PROVE  Chained(c)
<1>0. 0 \in Cores /\ 0 \notin broken /\ pc[0] # "copy"
  BY FirstStack DEF StackInv
<1>1. /\ 0 \in Cores /\ Chained(0) /\ SameAsMothers(c)
      /\ motherSp[c] = sp[0]
  BY <1>0 DEF StackInv, SameAsMothers
<1>2. CASE sp[0] = Top(0)
  <2>1. sp[c] = Top(c)
    BY <1>1, <1>2, StackInMemory DEF SameAsMothers
  <2> QED
    BY <2>1, EmptyChained
<1>3. CASE sp[0] # Top(0)
  <2>1. PICK A \in SUBSET (sp[0] .. Top(0)) : Chain(0, A)
    BY <1>1 DEF Chained
  <2> DEFINE shift == Top(c) - Top(0)
             B == {b \in sp[c] .. Top(c) : b - shift \in A}
  <2>2. /\ sp[0] \in Bottom(0) .. Top(0) /\ Bottom(0) = 0
        /\ Top(0) = StackSize - 1 /\ StackSize \in Nat
        /\ Top(c) \in Int /\ Top(0) \in Int /\ sp[0] \in Int
        /\ sp[c] = sp[0] + shift
        /\ copied[c] = Top(0) - sp[0] + 1
        /\ shift \in Int
    BY <1>1, <1>3, <1>0, SpRange, StackInMemory, FirstStack, StacksAssumption
       DEF SameAsMothers, ToCopy
  <2>3. \A b \in sp[0] .. Top(0) : mem[b + shift] = mem[b]
    <3> SUFFICES ASSUME NEW b \in sp[0] .. Top(0)
                 PROVE  mem[b + shift] = mem[b]
      OBVIOUS
    <3>1. /\ Top(0) - b \in 0 .. StackSize - 1
          /\ Top(0) - b < copied[c]
          /\ Top(c) - (Top(0) - b) = b + shift
          /\ Top(0) - (Top(0) - b) = b
      BY <2>2
    <3>2. mem[Top(c) - (Top(0) - b)] = mem[Top(0) - (Top(0) - b)]
      BY <1>1, <3>1 DEF SameAsMothers
    <3> QED
      BY <3>1, <3>2
  <2> HIDE DEF shift
  <2>4. B \in SUBSET (sp[c] .. Top(c))
    OBVIOUS
  <2>5. sp[c] \in B /\ Top(c) \in B
    <3>1. sp[c] - shift = sp[0] /\ Top(c) - shift = Top(0)
      BY <2>2 DEF shift
    <3>2. sp[c] <= Top(c)
      BY <2>2 DEF shift
    <3>3. sp[0] \in A /\ Top(0) \in A
      BY <2>1 DEF Chain
    <3> QED
      BY <2>2, <3>1, <3>2, <3>3
  <2>6. ASSUME NEW b \in B, b # Top(c)
        PROVE  \E k \in Kinds : mem[b] = Tag[k] /\ b + Width(k) + 1 \in B
    <3>1. b \in sp[c] .. Top(c) /\ b - shift \in A
      BY <2>6
    <3>2. b - shift # Top(0)
      BY <2>2, <2>6, <3>1 DEF shift
    <3>3. PICK k \in Kinds :
              mem[b - shift] = Tag[k] /\ b - shift + Width(k) + 1 \in A
      BY <2>1, <3>1, <3>2 DEF Chain
    <3>4. Width(k) \in Nat /\ b \in Int
      BY <3>1, WidthNat, StacksAssumption
    <3>5. mem[b] = Tag[k]
      <4>1. b - shift \in sp[0] .. Top(0) /\ b - shift + shift = b
        BY <2>1, <2>2, <3>1, <3>4
      <4> QED
        BY <2>3, <3>3, <4>1
    <3>6. b + Width(k) + 1 \in B
      <4>0. PICK n : n = b + Width(k) + 1
        OBVIOUS
      <4>1. b + Width(k) + 1 - shift = b - shift + Width(k) + 1
        BY <2>2, <3>4
      <4>2. b - shift + Width(k) + 1 \in sp[0] .. Top(0)
        BY <2>1, <3>3
      <4>3. b + Width(k) + 1 \in sp[c] .. Top(c)
        BY <2>2, <3>4, <4>1, <4>2 DEF shift
      <4>4. n \in sp[c] .. Top(c) /\ n - shift \in A
        <5>1. n \in sp[c] .. Top(c)
          BY <4>0, <4>3
        <5>2. n - shift = b - shift + Width(k) + 1
          BY <2>2, <3>4, <4>0
        <5>3. n - shift \in A
          BY <3>3, <5>2
        <5> QED
          BY <5>1, <5>3
      <4>5. n \in B
        BY <4>4
      <4> QED
        BY <4>0, <4>5
    <3> QED
      BY <3>5, <3>6
  <2> HIDE DEF B
  <2>7. Chain(c, B)
    BY <2>5, <2>6 DEF Chain
  <2> QED
    BY <2>4, <2>7 DEF Chained
<1> QED
  BY <1>2, <1>3

-----------------------------------------------------------------------------
\* What c harms, it harms whoever else copies its stack just now.
LEMMA HarmsIs ==
    ASSUME StackInv, NEW c \in Cores, NEW S \in SUBSET Cores, Harms(c, S)
    PROVE  /\ broken' \subseteq Cores
           /\ broken \subseteq broken' /\ S \subseteq broken'
           /\ \/ Copying \subseteq broken'
              \/ c # 0 /\ (0 \in broken' => 0 \in broken)
           /\ c # 0 /\ S = {} => broken' = broken
<1>1. broken \subseteq Cores /\ Copying \subseteq Cores
  BY DEF StackInv, TypeOK, Copying, Children
<1> QED
  BY <1>1 DEF Harms

LEMMA UnderIs == \A c \in Cores : Under(c) \in SUBSET Cores /\ c \in Under(c)
BY DEF Under

\* The steps that harm, as steps of their core.
LEMMA PushIs ==
    ASSUME StackInv, NEW c \in Cores, NEW k \in Kinds, Push(c, k)
    PROVE  /\ StepOf(c)
           /\ mem' \in [Addresses -> Byte]
           /\ broken' \subseteq Cores
           /\ sp' = [sp EXCEPT ![c] = sp[c] - Width(k) - 1]
           /\ sp'[c] = sp[c] - Width(k) - 1
           /\ sp'[c] \in Lowest(c) .. Top(c)
           /\ c \notin broken' =>
                 c \notin broken /\ sp'[c] \in Bottom(c) .. Top(c)
           /\ UNCHANGED <<reg, pc, motherSp, copied, error>>
           /\ pc[c] = "run"
<1> DEFINE S == IF k = "byte" /\ ~HasRoom(c) THEN Under(c) ELSE {}
           n == sp[c] - Width(k) - 1
<1>1. /\ pc[c] = "run" /\ PushFits(c, k) /\ mem' = Pushed(c, k)
      /\ sp' = [sp EXCEPT ![c] = n] /\ Harms(c, S)
      /\ UNCHANGED <<reg, pc, motherSp, copied, error>>
      /\ sp'[c] = n /\ \A d \in Cores \ {c} : sp'[d] = sp[d]
  BY DEF Push, StackInv, TypeOK
<1>2. /\ n \in Lowest(c) .. Top(c)
      /\ S = {} => n \in Bottom(c) .. Top(c)
  <2>1. S = {} => ~(k = "byte" /\ ~HasRoom(c))
    BY UnderIs
  <2> HIDE DEF S, n
  <2> QED
    BY <1>1, <2>1, PushStays DEF n
<1>3. S \in SUBSET Cores /\ (S # {} => S = Under(c))
  BY UnderIs
<1> HIDE DEF S
<1>4. /\ broken' \subseteq Cores /\ broken \subseteq broken' /\ S \subseteq broken'
      /\ Copying \subseteq broken' \/ (c # 0 /\ (0 \in broken' => 0 \in broken))
  BY <1>1, <1>3, HarmsIs
<1>5. mem' \in [Addresses -> Byte]
  BY <1>1, PushTypes
<1>6. ASSUME NEW a \in Addresses, mem'[a] # mem[a]
      PROVE  \/ a \in Bottom(c) .. Top(c)
             \/ a \in Lowest(c) .. Bottom(c) - 1 /\ Under(c) \subseteq broken'
  <2>1. a \in n .. sp[c] - 1
    BY <1>1, <1>6, PushTypes
  <2>2. /\ n \in Int /\ sp[c] \in Int /\ Top(c) \in Int /\ Bottom(c) \in Int
        /\ sp[c] <= Top(c) + 1 /\ Lowest(c) \in Int
    BY <1>2, SpRange, LowestIs
  <2> HIDE DEF n
  <2>3. CASE S = {}
    BY <1>2, <2>1, <2>2, <2>3
  <2>4. CASE S # {}
    <3>1. Under(c) \subseteq broken'
      BY <1>3, <1>4, <2>4
    <3>2. a \in Lowest(c) .. Top(c)
      BY <1>2, <2>1, <2>2
    <3>3. a \in Bottom(c) .. Top(c) \/ a \in Lowest(c) .. Bottom(c) - 1
      BY <2>2, <3>2
    <3> QED
      BY <3>1, <3>3
  <2> QED
    BY <2>3, <2>4
<1>7. c \notin broken' => c \notin broken /\ n \in Bottom(c) .. Top(c)
  BY <1>2, <1>3, <1>4, UnderIs
<1>8. StepOf(c)
  <2> HIDE DEF n
  <2>1. Copying \subseteq broken' \/
          ((0 \in broken' => 0 \in broken) /\ (c = 0 => sp'[0] = sp[0] /\ mem' = mem))
    BY <1>4
  <2> QED
    BY <1>1, <1>4, <1>6, <2>1 DEF StepOf
<1> QED
  BY <1>1, <1>2, <1>4, <1>5, <1>7, <1>8

\* A step that writes nothing.
LEMMA QuietIs ==
    ASSUME StackInv, NEW c \in Cores, Harms(c, {}), mem' = mem,
           \A d \in Cores \ {c} : sp'[d] = sp[d],
           UNCHANGED <<pc, motherSp, copied>>
    PROVE  /\ StepOf(c) /\ broken' \subseteq Cores
           /\ c \notin broken' => c \notin broken
BY HarmsIs DEF StepOf

\* A byte is copied into the child's stack, and there is one left to copy.
LEMMA CopyIs ==
    ASSUME StackInv, NEW c \in Children, CopyByte(c)
    PROVE  /\ c \in Cores /\ c # 0 /\ 0 \in Cores /\ pc[c] = "copy"
           /\ copied[c] \in Nat /\ copied[c] < ToCopy(c)
           /\ ToCopy(c) \in 0 .. StackSize + 3
           /\ Top(c) - copied[c] \in Lowest(c) .. Top(c)
           /\ Top(0) - copied[c] \in Lowest(0) .. Top(0)
           /\ mem' = [mem EXCEPT ![Top(c) - copied[c]] = mem[Top(0) - copied[c]]]
           /\ copied' = [copied EXCEPT ![c] = copied[c] + 1]
           /\ copied'[c] = copied[c] + 1
           /\ UNCHANGED <<sp, reg, pc, motherSp, error>>
           /\ mem' \in [Addresses -> Byte]
           /\ broken' \subseteq Cores /\ broken \subseteq broken'
           /\ StepOf(c)
           /\ c \notin broken =>
                 /\ SameAsMothers(c) /\ 0 \notin broken /\ sp[0] \in Bottom(0) .. Top(0)
                 /\ copied[c] \in 0 .. StackSize - 1
                 /\ Top(c) - copied[c] \in Bottom(c) .. Top(c)
                 /\ Top(0) - copied[c] \in Bottom(0) .. Top(0)
                 /\ broken' = broken
<1> DEFINE S == IF Top(c) - copied[c] < Bottom(c) THEN Under(c) ELSE {}
<1>1. /\ c \in Cores /\ c # 0 /\ 0 \in Cores /\ pc[c] = "copy" /\ c \in Copying
      /\ copied[c] < ToCopy(c) /\ Harms(c, S)
      /\ mem' = [mem EXCEPT ![Top(c) - copied[c]] = mem[Top(0) - copied[c]]]
      /\ copied' = [copied EXCEPT ![c] = copied[c] + 1]
      /\ UNCHANGED <<sp, reg, pc, motherSp, error>>
      /\ mem \in [Addresses -> Byte]
      /\ copied \in [Cores -> 0 .. StackSize + DataTail]
  BY FirstStack DEF Children, Copying, CopyByte, StackInv, TypeOK
<1>2. /\ motherSp[c] \in Bottom(0) - DataTail .. Top(0) + 1
      /\ copied[c] <= ToCopy(c)
  BY <1>1 DEF StackInv, MotherKnown
<1>3. /\ StackSize \in Nat /\ StackSize > 2 /\ Top(0) = StackSize - 1
      /\ Bottom(0) = 0 /\ DataTail = 3
      /\ Top(c) \in Int /\ Bottom(c) \in Int /\ Top(c) = Bottom(c) + StackSize - 1
      /\ Lowest(c) = Bottom(c) - 3 /\ Lowest(0) = Bottom(0) - 3
  BY <1>1, StacksAssumption, FirstStack, StackInMemory DEF DataTail, Lowest
<1>4. copied[c] \in Nat /\ copied[c] \in 0 .. StackSize + 3
  BY <1>1, <1>3
<1>5. ToCopy(c) \in 0 .. StackSize + 3
  BY <1>2, <1>3 DEF ToCopy
<1>6. /\ Top(c) - copied[c] \in Lowest(c) .. Top(c)
      /\ Top(0) - copied[c] \in Lowest(0) .. Top(0)
  BY <1>1, <1>3, <1>4, <1>5
<1>7. Top(c) - copied[c] \in Addresses /\ Top(0) - copied[c] \in Addresses
  BY <1>1, <1>6, LowestIs
<1>8. mem' \in [Addresses -> Byte] /\ copied'[c] = copied[c] + 1
  BY <1>1, <1>7
<1>9. S \in SUBSET Cores
  BY <1>1, UnderIs
<1>10. /\ broken' \subseteq Cores /\ broken \subseteq broken' /\ S \subseteq broken'
       /\ Copying \subseteq broken' \/ (c # 0 /\ (0 \in broken' => 0 \in broken))
       /\ S = {} => broken' = broken
  <2> HIDE DEF S
  <2> QED
    BY <1>1, <1>9, HarmsIs
<1>11. ASSUME NEW a \in Addresses, mem'[a] # mem[a]
      PROVE  \/ a \in Bottom(c) .. Top(c)
             \/ a \in Lowest(c) .. Bottom(c) - 1 /\ Under(c) \subseteq broken'
  <2>1. a = Top(c) - copied[c]
    BY <1>1, <1>7, <1>11
  <2>2. CASE Top(c) - copied[c] < Bottom(c)
    BY <1>3, <1>6, <1>10, <2>1, <2>2
  <2>3. CASE ~(Top(c) - copied[c] < Bottom(c))
    BY <1>3, <1>4, <2>1, <2>3
  <2> QED
    BY <2>2, <2>3
<1>12. StepOf(c)
  <2> HIDE DEF S
  <2>1. Copying \subseteq broken' \/
          ((0 \in broken' => 0 \in broken) /\ (c = 0 => sp'[0] = sp[0] /\ mem' = mem))
    BY <1>1, <1>10
  <2>2. \A d \in Cores \ {c} :
          /\ sp'[d] = sp[d] /\ pc'[d] = pc[d]
          /\ motherSp'[d] = motherSp[d] /\ copied'[d] = copied[d]
    BY <1>1
  <2> QED
    BY <1>10, <1>11, <2>1, <2>2 DEF StepOf
<1>13. ASSUME c \notin broken
       PROVE  /\ SameAsMothers(c) /\ 0 \notin broken /\ sp[0] \in Bottom(0) .. Top(0)
              /\ copied[c] \in 0 .. StackSize - 1
              /\ Top(c) - copied[c] \in Bottom(c) .. Top(c)
              /\ Top(0) - copied[c] \in Bottom(0) .. Top(0)
              /\ broken' = broken
  <2>1. SameAsMothers(c) /\ 0 \notin broken
    BY <1>1, <1>13 DEF StackInv
  <2>2. motherSp[c] = sp[0] /\ sp[0] \in Bottom(0) .. Top(0)
    BY <1>1, <2>1, SpRange DEF SameAsMothers
  <2>3. copied[c] \in 0 .. StackSize - 1
    BY <1>1, <1>3, <1>4, <2>2 DEF ToCopy
  <2>4. /\ Top(c) - copied[c] \in Bottom(c) .. Top(c)
        /\ Top(0) - copied[c] \in Bottom(0) .. Top(0)
        /\ ~(Top(c) - copied[c] < Bottom(c))
    BY <1>3, <2>3
  <2> QED
    BY <1>10, <2>1, <2>2, <2>3, <2>4
<1> QED
  BY <1>1, <1>4, <1>5, <1>6, <1>8, <1>10, <1>12, <1>13

-----------------------------------------------------------------------------
\* Steps that change no stack pointer and no byte.
LEMMA QuietStep ==
    ASSUME StackInv, NEW c \in Cores, pc[c] = "run",
           UNCHANGED <<mem, sp, motherSp, copied, broken>>,
           pc' = [pc EXCEPT ![c] = pc'[c]], pc'[c] \in {"run", "dead"},
           reg' \in [Cores -> Words],
           error' \in [Cores -> Errors \cup {NoError}]
    PROVE  StackInv'
<1>1. TypeOK'
  BY DEF StackInv, TypeOK, PC
<1>2. \A d \in Cores : d # c => pc'[d] = pc[d]
  BY DEF StackInv, TypeOK
<1>3. pc'[0] \in {"run", "dead"}
  BY <1>2, FirstStack DEF StackInv
<1>4. SpInStack'
  BY DEF StackInv, SpInStack, Bottom, Top
<1>5. \A d \in Cores : pc[d] = "copy" <=> pc'[d] = "copy"
  BY <1>2
<1>6. \A d \in Copying' : MotherKnown(d)'
  <2> SUFFICES ASSUME NEW d \in Copying' PROVE MotherKnown(d)'
    OBVIOUS
  <2>1. MotherKnown(d)
    BY <1>5 DEF StackInv, Copying, Children
  <2> QED
    BY <2>1 DEF MotherKnown, ToCopy, Top, Bottom
<1>7. ASSUME NEW d \in Cores \ broken'
      PROVE  IF pc'[d] = "copy" THEN SameAsMothers(d)' /\ 0 \notin broken'
                                ELSE Chained(d)'
  <2>1. IF pc[d] = "copy" THEN SameAsMothers(d) /\ 0 \notin broken ELSE Chained(d)
    BY DEF StackInv
  <2>2. CASE pc[d] = "copy"
    BY <1>5, <2>1, <2>2 DEF SameAsMothers, Top
  <2>3. CASE pc[d] # "copy"
    BY <1>5, <2>1, <2>3, KeepChain
  <2> QED
    BY <2>2, <2>3
<1> QED
  BY <1>1, <1>3, <1>4, <1>6, <1>7 DEF StackInv

LEMMA DieStep ==
    ASSUME StackInv, NEW c \in Cores, pc[c] = "run", NEW why \in Errors,
           Die(c, why)
    PROVE  StackInv'
<1>1. pc'[c] = "dead" /\ reg' \in [Cores -> Words]
      /\ error' \in [Cores -> Errors \cup {NoError}]
      /\ pc' = [pc EXCEPT ![c] = pc'[c]]
  BY DEF Die, StackInv, TypeOK
<1> QED
  BY <1>1, QuietStep DEF Die

LEMMA PushStep ==
    ASSUME StackInv, NEW c \in Cores, NEW k \in Kinds, Push(c, k)
    PROVE  StackInv'
<1>1. /\ StepOf(c) /\ mem' \in [Addresses -> Byte] /\ broken' \subseteq Cores
      /\ sp' = [sp EXCEPT ![c] = sp[c] - Width(k) - 1]
      /\ sp'[c] = sp[c] - Width(k) - 1
      /\ sp'[c] \in Lowest(c) .. Top(c)
      /\ c \notin broken' => c \notin broken /\ sp'[c] \in Bottom(c) .. Top(c)
      /\ UNCHANGED <<reg, pc, motherSp, copied, error>> /\ pc[c] = "run"
  BY PushIs
<1>2. sp'[c] \in Lowest(c) .. Top(c) + 1 /\ sp'[c] \in Pointers
  <2>1. Lowest(c) \in Int /\ Top(c) \in Int
    BY LowestIs
  <2>2. sp'[c] \in Lowest(c) .. Top(c) + 1
    BY <1>1, <2>1
  <2> QED
    BY <2>2, LowestIs
<1>3. sp' \in [Cores -> Pointers]
  BY <1>1, <1>2 DEF StackInv, TypeOK
<1>4. TypeOK'
  BY <1>1, <1>3 DEF StackInv, TypeOK
<1>5. c \notin broken' => Chained(c)'
  BY <1>1, PushChained
<1>6. CoreInv(c)'
  BY <1>1, <1>5 DEF CoreInv
<1>7. c = 0 => pc'[0] \in {"run", "dead"}
  BY <1>1 DEF StackInv
<1> QED
  BY <1>1, <1>2, <1>4, <1>6, <1>7, ActorAndOthers

LEMMA PopStep ==
    ASSUME StackInv, NEW c \in Cores, NEW k \in Kinds, Pop(c, k)
    PROVE  StackInv'
<1>1. PICK s : s = sp[c] + Width(k) + 1
  OBVIOUS
<1>2. s \in Lowest(c) .. Top(c) + 1 /\ s \in Pointers /\ Popped(c, k) \in Words
  BY <1>1, PopTypes, LowestIs DEF Pop
<1>3. /\ sp' = [sp EXCEPT ![c] = s] /\ mem' = mem /\ pc[c] = "run"
      /\ sp'[c] = s /\ \A d \in Cores \ {c} : sp'[d] = sp[d]
      /\ UNCHANGED <<pc, motherSp, copied, error>> /\ Harms(c, {})
      /\ reg' = [reg EXCEPT ![c] = Popped(c, k)]
      /\ Holds(c, k) /\ TagMatches(c, k)
  BY <1>1 DEF Pop, StackInv, TypeOK
<1>4. /\ StepOf(c) /\ broken' \subseteq Cores
      /\ c \notin broken' => c \notin broken
  BY <1>3, QuietIs
<1>5. sp' \in [Cores -> Pointers] /\ reg' \in [Cores -> Words]
  BY <1>2, <1>3 DEF StackInv, TypeOK
<1>6. TypeOK'
  BY <1>3, <1>4, <1>5 DEF StackInv, TypeOK
<1>7. ASSUME c \notin broken'
      PROVE  Chained(c)' /\ sp'[c] \in Bottom(c) .. Top(c)
  <2>1. Chained(c) /\ c \notin broken
    BY <1>3, <1>4, <1>7, RunningIsChained
  <2>2. s \in Bottom(c) .. Top(c)
    BY <1>1, <1>3, <2>1, NextElement
  <2>3. PICK B \in SUBSET (s .. Top(c)) :
              /\ s \in B /\ Top(c) \in B
              /\ \A b \in B : b # Top(c) =>
                    \E l \in Kinds : mem[b] = Tag[l] /\ b + Width(l) + 1 \in B
    BY <1>1, <1>3, <2>1, NextElement
  <2>4. Chain(c, B)'
    BY <1>3, <2>3 DEF Chain, Top
  <2> QED
    BY <1>3, <2>2, <2>3, <2>4 DEF Chained, Top
<1>8. CoreInv(c)'
  BY <1>3, <1>7 DEF CoreInv
<1>9. c = 0 => pc'[0] \in {"run", "dead"}
  BY <1>3 DEF StackInv
<1> QED
  BY <1>2, <1>3, <1>4, <1>6, <1>7, <1>8, <1>9, ActorAndOthers

\* A stack pointer at the top, in any state: the chain is the top alone.
LEMMA EmptyChainedNext ==
    ASSUME NEW c \in Cores, sp'[c] = Top(c)
    PROVE  Chained(c)'
<1>1. {Top(c)} \in SUBSET (sp'[c] .. Top(c))
  BY StackInMemory
<1>2. Chain(c, {Top(c)})'
  BY DEF Chain, Top
<1> QED
  BY <1>1, <1>2 DEF Chained, Top

LEMMA ClearStep ==
    ASSUME StackInv, NEW c \in Cores, Clear(c)
    PROVE  StackInv'
<1>1. /\ Top(c) \in Lowest(c) .. Top(c) + 1 /\ Top(c) \in Pointers
      /\ Top(c) \in Bottom(c) .. Top(c)
  <2>1. /\ Lowest(c) \in Int /\ Top(c) \in Int /\ Bottom(c) \in Int
        /\ Lowest(c) = Bottom(c) - 3 /\ Bottom(c) + 2 <= Top(c)
    BY LowestIs
  <2>2. Top(c) \in Lowest(c) .. Top(c) + 1
    BY <2>1
  <2> QED
    BY <2>1, <2>2, LowestIs
<1>2. /\ sp' = [sp EXCEPT ![c] = Top(c)] /\ mem' = mem /\ pc[c] = "run"
      /\ sp'[c] = Top(c) /\ \A d \in Cores \ {c} : sp'[d] = sp[d]
      /\ UNCHANGED <<reg, pc, motherSp, copied, error>> /\ Harms(c, {})
  BY DEF Clear, StackInv, TypeOK
<1>3. StepOf(c) /\ broken' \subseteq Cores
  BY <1>2, QuietIs
<1>4. sp' \in [Cores -> Pointers]
  BY <1>1, <1>2 DEF StackInv, TypeOK
<1>5. TypeOK'
  BY <1>2, <1>3, <1>4 DEF StackInv, TypeOK
<1>6. CoreInv(c)'
  BY <1>2, EmptyChainedNext DEF CoreInv
<1>7. c = 0 => pc'[0] \in {"run", "dead"}
  BY <1>2 DEF StackInv
<1> QED
  BY <1>1, <1>2, <1>3, <1>5, <1>6, <1>7, ActorAndOthers

LEMMA ExecuteStep ==
    ASSUME StackInv, NEW c \in Cores, Execute(c)
    PROVE  StackInv'
<1> TypeOK
  BY DEF StackInv
<1>1. CASE Load(c)
  <2>1. reg' \in [Cores -> Words]
    BY <1>1, StacksAssumption DEF Load, TypeOK
  <2> QED
    BY <1>1, <2>1, QuietStep DEF Load, TypeOK
<1>2. ASSUME NEW k \in Kinds, PushFails(c, k)
      PROVE  StackInv'
  BY <1>2, DieStep DEF PushFails, Errors
<1>3. ASSUME NEW k \in Kinds, PopFails(c, k)
      PROVE  StackInv'
  BY <1>3, DieStep DEF PopFails, Errors
<1>4. CASE StackType(c)
  <2>1. sp[c] \in Lowest(c) .. Top(c)
    <3>1. sp[c] \in Lowest(c) .. Top(c) + 1 /\ Lowest(c) \in Int /\ Top(c) \in Int
      BY SpRange, LowestIs
    <3> QED
      BY <1>4, <3>1 DEF StackType
  <2>2. mem[sp[c]] \in Byte /\ reg[c] \in [1 .. Word -> Byte]
    BY <2>1, LowestIs DEF TypeOK, Words
  <2>3. reg' \in [Cores -> Words]
    BY <1>4, <2>2 DEF StackType, TypeOK, Words
  <2> QED
    BY <1>4, <2>3, QuietStep DEF StackType, TypeOK
<1>5. CASE StackTypeFails(c)
  BY <1>5, DieStep DEF StackTypeFails, Errors
<1>6. CASE CheckEmptyFails(c)
  BY <1>6, DieStep DEF CheckEmptyFails, Errors
<1> QED
  BY <1>1, <1>2, <1>3, <1>4, <1>5, <1>6, PushStep, PopStep, ClearStep DEF Execute

LEMMA StartStep ==
    ASSUME StackInv, NEW c \in Children, Start(c)
    PROVE  StackInv'
<1> c \in Cores /\ c # 0 /\ 0 \in Cores
  BY FirstStack DEF Children
<1>1. PICK s : s = Top(c) - (Top(0) - sp[0])
  OBVIOUS
<1>2. /\ s \in Lowest(c) .. Top(c) + 1 /\ s \in Pointers
      /\ sp[0] \in Pointers /\ sp[0] \in Bottom(0) - DataTail .. Top(0) + 1
      /\ sp[0] \in Bottom(0) .. Top(0) => s \in Bottom(c) .. Top(c)
      /\ sp[0] \in Int /\ StackSize \in Nat /\ StackSize > 2
  <2>1. /\ sp[0] \in Lowest(0) .. Top(0) + 1 /\ sp[0] \in Int
        /\ Top(0) = StackSize - 1 /\ Bottom(0) = 0 /\ Lowest(0) = Bottom(0) - 3
        /\ Top(c) \in Int /\ Bottom(c) \in Int /\ Top(c) = Bottom(c) + StackSize - 1
        /\ Lowest(c) = Bottom(c) - 3 /\ StackSize \in Nat /\ StackSize > 2
    BY SpRange, FirstStack, StackInMemory, LowestIs, StacksAssumption
  <2>2. s \in Lowest(c) .. Top(c) + 1
    BY <1>1, <2>1
  <2>3. sp[0] \in Bottom(0) .. Top(0) => s \in Bottom(c) .. Top(c)
    BY <1>1, <2>1
  <2> QED
    BY <2>1, <2>2, <2>3, LowestIs DEF Lowest
<1>3. /\ sp' = [sp EXCEPT ![c] = s] /\ mem' = mem
      /\ motherSp' = [motherSp EXCEPT ![c] = sp[0]]
      /\ copied' = [copied EXCEPT ![c] = 0]
      /\ pc' = [pc EXCEPT ![c] = "copy"]
      /\ error' = error
      /\ sp'[c] = s /\ motherSp'[c] = sp[0] /\ copied'[c] = 0 /\ pc'[c] = "copy"
      /\ sp'[0] = sp[0]
      /\ \A d \in Cores \ {c} :
            /\ sp'[d] = sp[d] /\ pc'[d] = pc[d]
            /\ motherSp'[d] = motherSp[d] /\ copied'[d] = copied[d]
  BY <1>1 DEF Start, StackInv, TypeOK
<1>4. /\ broken' \subseteq Cores
      /\ \A d \in Cores \ {c} : d \in broken <=> d \in broken'
      /\ c \notin broken' => 0 \notin broken /\ 0 \notin broken'
  BY DEF Start, StackInv, TypeOK
<1>5. reg' \in [Cores -> Words]
  BY StacksAssumption DEF Start, StackInv, TypeOK
<1>6. TypeOK'
  <2>1. sp' \in [Cores -> Pointers] /\ motherSp' \in [Cores -> Pointers]
    BY <1>2, <1>3 DEF StackInv, TypeOK
  <2>2. 0 \in 0 .. StackSize + DataTail
    BY <1>2 DEF DataTail
  <2>3. copied' \in [Cores -> 0 .. StackSize + DataTail]
    BY <1>3, <2>2 DEF StackInv, TypeOK
  <2>4. pc' \in [Cores -> PC]
    BY <1>3 DEF StackInv, TypeOK, PC
  <2> QED
    BY <1>3, <1>4, <1>5, <2>1, <2>3, <2>4 DEF StackInv, TypeOK
<1>7. StepOf(c)
  <2>1. \A d \in broken \ {c} : d \in broken'
    BY <1>4 DEF StackInv, TypeOK
  <2>2. /\ 0 \in broken' => 0 \in broken
        /\ c = 0 => sp'[0] = sp[0] /\ mem' = mem
    BY <1>4
  <2>3. \A a \in Addresses : mem'[a] = mem[a]
    BY <1>3
  <2> QED
    BY <1>3, <2>1, <2>2, <2>3 DEF StepOf
<1>8. c \notin broken' => sp'[c] \in Bottom(c) .. Top(c)
  BY <1>2, <1>3, <1>4, SpRange
<1>9. MotherKnown(c)'
  <2>1. 0 <= ToCopy(c)'
    BY <1>2, <1>3, FirstStack DEF ToCopy, Top
  <2> QED
    BY <1>2, <1>3, <2>1 DEF MotherKnown, Top, Bottom
<1>10. SameAsMothers(c)'
  BY <1>1, <1>3 DEF SameAsMothers, Top
<1>11. CoreInv(c)'
  BY <1>3, <1>4, <1>9, <1>10 DEF CoreInv
<1> QED
  BY <1>2, <1>3, <1>6, <1>7, <1>8, <1>11, ActorAndOthers

LEMMA CopyStep ==
    ASSUME StackInv, NEW c \in Children, CopyByte(c)
    PROVE  StackInv'
<1>1. /\ c \in Cores /\ c # 0 /\ 0 \in Cores /\ pc[c] = "copy"
      /\ copied[c] \in Nat /\ copied[c] < ToCopy(c)
      /\ ToCopy(c) \in 0 .. StackSize + 3
      /\ copied' = [copied EXCEPT ![c] = copied[c] + 1]
      /\ copied'[c] = copied[c] + 1
      /\ UNCHANGED <<sp, reg, pc, motherSp, error>>
      /\ mem' \in [Addresses -> Byte]
      /\ broken' \subseteq Cores /\ broken \subseteq broken'
      /\ StepOf(c)
  BY CopyIs
<1>2. copied'[c] \in 0 .. StackSize + DataTail /\ copied'[c] <= ToCopy(c)
  BY <1>1, StacksAssumption DEF DataTail
<1>3. TypeOK'
  <2>1. copied' \in [Cores -> 0 .. StackSize + DataTail]
    BY <1>1, <1>2 DEF StackInv, TypeOK
  <2> QED
    BY <1>1, <2>1 DEF StackInv, TypeOK
<1>4. /\ sp'[c] \in Lowest(c) .. Top(c) + 1
      /\ c \notin broken' => sp'[c] \in Bottom(c) .. Top(c)
  BY <1>1, SpRange
<1>5. MotherKnown(c)'
  <2>1. MotherKnown(c)
    BY <1>1 DEF StackInv, Copying, Children
  <2> QED
    BY <1>1, <1>2, <2>1 DEF MotherKnown, ToCopy, Top, Bottom
<1>6. ASSUME c \notin broken'
      PROVE  SameAsMothers(c)' /\ 0 \notin broken'
  <2>1. /\ c \notin broken /\ SameAsMothers(c) /\ 0 \notin broken /\ broken' = broken
        /\ copied[c] \in 0 .. StackSize - 1
        /\ Top(c) - copied[c] \in Bottom(c) .. Top(c)
        /\ Top(0) - copied[c] \in Bottom(0) .. Top(0)
        /\ mem' = [mem EXCEPT ![Top(c) - copied[c]] = mem[Top(0) - copied[c]]]
        /\ mem \in [Addresses -> Byte]
    BY <1>1, <1>6, CopyIs DEF StackInv, TypeOK
  <2>2. ASSUME NEW i \in 0 .. StackSize - 1, i < copied'[c]
        PROVE  mem'[Top(c) - i] = mem'[Top(0) - i]
    <3>1. /\ Top(c) - i \in Bottom(c) .. Top(c) /\ Top(c) - i \in Addresses
          /\ Top(0) - i \in Bottom(0) .. Top(0) /\ Top(0) - i \in Addresses
          /\ Top(c) - copied[c] \in Addresses
          /\ Top(c) - copied[c] \in Lowest(c) .. Top(c)
      <4>1. /\ Top(c) - i \in Bottom(c) .. Top(c)
            /\ Top(0) - i \in Bottom(0) .. Top(0)
        BY <1>1, StackInMemory, FirstStack, StacksAssumption
      <4> QED
        BY <1>1, <2>1, <4>1, StackInMemory, CopyIs
    <3>2. mem'[Top(0) - i] = mem[Top(0) - i]
      <4>1. Top(0) - i # Top(c) - copied[c]
        BY <1>1, <2>1, <3>1, StacksApart
      <4> QED
        BY <2>1, <3>1, <4>1
    <3>3. CASE i = copied[c]
      <4>1. mem'[Top(c) - i] = mem[Top(0) - i]
        BY <2>1, <3>1, <3>3
      <4> QED
        BY <3>2, <4>1
    <3>4. CASE i # copied[c]
      <4>1. i < copied[c] /\ Top(c) - i # Top(c) - copied[c]
        BY <1>1, <2>1, <2>2, <3>4, StackInMemory
      <4>2. mem'[Top(c) - i] = mem[Top(c) - i]
        BY <2>1, <3>1, <4>1
      <4>3. mem[Top(c) - i] = mem[Top(0) - i]
        BY <2>1, <4>1 DEF SameAsMothers
      <4> QED
        BY <3>2, <4>2, <4>3
    <3> QED
      BY <3>3, <3>4
  <2> QED
    BY <1>1, <2>1, <2>2 DEF SameAsMothers, Top
<1>7. CoreInv(c)'
  BY <1>1, <1>5, <1>6 DEF CoreInv
<1> QED
  BY <1>1, <1>3, <1>4, <1>7, ActorAndOthers

LEMMA BeginStep ==
    ASSUME StackInv, NEW c \in Children, Begin(c)
    PROVE  StackInv'
<1> c \in Cores /\ c # 0 /\ 0 \in Cores
  BY FirstStack DEF Children
<1>1. /\ pc' = [pc EXCEPT ![c] = "run"] /\ pc'[c] = "run"
      /\ copied' = [copied EXCEPT ![c] = 0]
      /\ motherSp' = [motherSp EXCEPT ![c] = Top(0)]
      /\ UNCHANGED <<mem, sp, reg, error, broken>>
      /\ \A d \in Cores \ {c} :
            /\ pc'[d] = pc[d]
            /\ motherSp'[d] = motherSp[d] /\ copied'[d] = copied[d]
  BY DEF Begin, StackInv, TypeOK
<1>2. TypeOK'
  <2>1. Top(0) \in Lowest(0) .. Top(0) + 1
    BY LowestIs
  <2>2. Top(0) \in Pointers /\ 0 \in 0 .. StackSize + DataTail
    BY <2>1, LowestIs, StacksAssumption DEF DataTail
  <2> QED
    BY <1>1, <2>2 DEF StackInv, TypeOK, PC
<1>3. StepOf(c)
  BY <1>1 DEF StepOf
<1>4. c \notin broken => Chained(c)'
  BY <1>1, CopyChained, KeepChain DEF Begin
<1>5. CoreInv(c)'
  BY <1>1, <1>4 DEF CoreInv
<1> QED
  BY <1>1, <1>2, <1>3, <1>5, SpRange, ActorAndOthers

LEMMA EndStep ==
    ASSUME StackInv, NEW c \in Children, End(c)
    PROVE  StackInv'
<1> c \in Cores /\ c # 0 /\ 0 \in Cores
  BY FirstStack DEF Children
<1>1. /\ Top(c) \in Lowest(c) .. Top(c) + 1 /\ Top(c) \in Pointers
      /\ Top(c) \in Bottom(c) .. Top(c)
  <2>1. /\ Lowest(c) \in Int /\ Top(c) \in Int /\ Bottom(c) \in Int
        /\ Lowest(c) = Bottom(c) - 3 /\ Bottom(c) + 2 <= Top(c)
    BY LowestIs
  <2>2. Top(c) \in Lowest(c) .. Top(c) + 1
    BY <2>1
  <2> QED
    BY <2>1, <2>2, LowestIs
<1>2. (CHOOSE v \in Loads : TRUE) \in Words
  BY StacksAssumption
<1>3. TypeOK'
  BY <1>1, <1>2 DEF End, StackInv, TypeOK, PC
<1>4. /\ sp'[c] = Top(c) /\ pc'[c] = "off" /\ mem' = mem
      /\ UNCHANGED <<motherSp, copied, broken>>
      /\ \A d \in Cores \ {c} : sp'[d] = sp[d] /\ pc'[d] = pc[d]
  BY DEF End, StackInv, TypeOK
<1>5. CoreInv(c)'
  BY <1>4, EmptyChainedNext DEF CoreInv
<1>6. StepOf(c)
  BY <1>4 DEF StepOf
<1> QED
  BY <1>1, <1>3, <1>4, <1>5, <1>6, ActorAndOthers

LEMMA StepInv == StackInv /\ [Next]_vars => StackInv'
<1> SUFFICES ASSUME StackInv, [Next]_vars PROVE StackInv'
  OBVIOUS
<1>1. CASE UNCHANGED vars
  <2>1. UNCHANGED <<mem, sp, reg, pc, motherSp, copied, error, broken>>
    BY <1>1 DEF vars
  <2>2. TypeOK'
    BY <2>1 DEF StackInv, TypeOK
  <2>3. SpInStack'
    BY <2>1 DEF StackInv, SpInStack, Top, Bottom
  <2>4. \A c \in Copying' : MotherKnown(c)'
    BY <2>1 DEF StackInv, Copying, MotherKnown, ToCopy, Top, Bottom
  <2>5. ASSUME NEW c \in Cores \ broken'
        PROVE  IF pc'[c] = "copy" THEN SameAsMothers(c)' /\ 0 \notin broken'
                                  ELSE Chained(c)'
    <3>1. IF pc[c] = "copy" THEN SameAsMothers(c) /\ 0 \notin broken ELSE Chained(c)
      BY <2>1 DEF StackInv
    <3>2. CASE pc[c] = "copy"
      BY <2>1, <3>1, <3>2 DEF SameAsMothers, Top
    <3>3. CASE pc[c] # "copy"
      BY <2>1, <3>1, <3>3, KeepChain
    <3> QED
      BY <3>2, <3>3
  <2> QED
    BY <2>1, <2>2, <2>3, <2>4, <2>5 DEF StackInv
<1> QED
  BY <1>1, ExecuteStep, StartStep, CopyStep, BeginStep, EndStep DEF Next

-----------------------------------------------------------------------------
\* Of every stack that is whole, the chain of elements from the stack pointer
\* to the top is never broken, or it is being copied and what is copied so far
\* is the mother's.  A stack ceases to be whole by nothing but a byte pushed
\* where there is no room for it, by its thread or the one above, and a
\* mother's use of her stack while it is copied: both are steps of the code,
\* and of the specification.
THEOREM StacksChained == Spec => []StackInv
<1>1. Init => StackInv
  BY InitInv
<1>2. StackInv /\ [Next]_vars => StackInv'
  BY StepInv
<1> QED
  BY <1>1, <1>2, PTL DEF Spec

\* The stack pointer of every thread stays in the thread's own stack, however
\* pushes and pops of bytes, words and new threads follow each other, while
\* that stack is whole; and at most three bytes below it or one above it, when
\* it is not.
THEOREM PointersStayInStacks == Spec => []SpInStack
<1>1. StackInv => SpInStack
  BY DEF StackInv
<1> QED
  BY <1>1, StacksChained, PTL

\* The step of WritesOwnStack.
OwnWrite ==
    \A a \in Addresses : mem'[a] # mem[a] =>
        \E c \in Cores :
           /\ sp'[c] # sp[c] \/ copied'[c] # copied[c]
           /\ \/ a \in Bottom(c) .. Top(c)
              \/ a \in Bottom(c) - DataTail .. Bottom(c) - 1 /\ Under(c) \subseteq broken'

LEMMA StepWritesOwn == StackInv /\ [Next]_vars => OwnWrite
<1> SUFFICES ASSUME StackInv, [Next]_vars,
                    NEW a \in Addresses, mem'[a] # mem[a]
             PROVE  \E c \in Cores :
                       /\ sp'[c] # sp[c] \/ copied'[c] # copied[c]
                       /\ \/ a \in Bottom(c) .. Top(c)
                          \/ a \in Bottom(c) - DataTail .. Bottom(c) - 1
                             /\ Under(c) \subseteq broken'
  BY DEF OwnWrite
<1>1. ASSUME NEW c \in Cores, NEW k \in Kinds, Push(c, k)
      PROVE  StepOf(c) /\ sp'[c] # sp[c]
  <2>1. StepOf(c) /\ sp'[c] = sp[c] - Width(k) - 1
    BY <1>1, PushIs
  <2>2. sp[c] \in Int /\ Width(k) \in 1 .. Word /\ Word \in Nat
    BY SpRange, WidthNat, StacksAssumption
  <2> QED
    BY <2>1, <2>2
<1>2. ASSUME NEW c \in Children, CopyByte(c)
      PROVE  StepOf(c) /\ copied'[c] # copied[c] /\ c \in Cores
  <2>1. /\ StepOf(c) /\ c \in Cores /\ copied[c] \in Nat
        /\ copied'[c] = copied[c] + 1
    BY <1>2, CopyIs
  <2> QED
    BY <2>1
<1>3. \/ \E c \in Cores, k \in Kinds : Push(c, k)
      \/ \E c \in Children : CopyByte(c)
  BY DEF Next, Execute, Load, PushFails, Pop, PopFails, StackType,
         StackTypeFails, CheckEmptyFails, Clear, Die, Start, Begin, End, vars
<1>4. PICK c \in Cores : StepOf(c) /\ (sp'[c] # sp[c] \/ copied'[c] # copied[c])
  BY <1>1, <1>2, <1>3
<1>5. \/ a \in Bottom(c) .. Top(c)
      \/ a \in Lowest(c) .. Bottom(c) - 1 /\ Under(c) \subseteq broken'
  BY <1>4 DEF StepOf
<1> QED
  BY <1>4, <1>5 DEF Lowest

\* What changes lies in the stack of a thread that pushes or copies; or at
\* most three bytes below it, and then neither this stack nor the one that the
\* bytes belong to counts as whole any more.
THEOREM WritesStayInStacks == Spec => WritesOwnStack
<1>1. StackInv /\ [Next]_vars => [OwnWrite]_vars
  BY StepWritesOwn
<1>2. Spec => [][OwnWrite]_vars
  BY <1>1, StacksChained, PTL DEF Spec
<1> QED
  BY <1>2 DEF WritesOwnStack, OwnWrite

-----------------------------------------------------------------------------
(***************************************************************************)
(* The stacks as sequences.  The elements are a recursive function of the  *)
(* address: that there is one, and what it is, goes by induction on the    *)
(* distance from the top.                                                  *)
(***************************************************************************)
LEMMA Induction ==
    ASSUME NEW S, 0 \in S, \A n \in Nat : n \in S => n + 1 \in S
    PROVE  \A n \in Nat : n \in S
<1> SUFFICES ASSUME NEW bad \in Nat, bad \notin S PROVE FALSE
  OBVIOUS
<1> DEFINE Less == {p \in Nat \X Nat : p[1] < p[2]}
           Rest == Nat \ S
<1>1. IsWellFoundedOn(Less, Nat)
  BY NatLessThanWellFounded DEF OpToRel
<1>2. Rest \subseteq Nat /\ Rest # {}
  OBVIOUS
<1> HIDE DEF Less, Rest
<1>3. PICK r \in Rest : \A q \in Rest : ~ (<<q, r>> \in Less)
  BY <1>1, <1>2, WFMin
<1>4. r \in Nat /\ r \notin S
  BY DEF Rest
<1>5. r - 1 \in Nat /\ r - 1 + 1 = r
  BY <1>4
<1>6. r - 1 \notin S
  BY <1>4, <1>5
<1>7. r - 1 \in Rest /\ <<r - 1, r>> \in Less
  BY <1>4, <1>5, <1>6 DEF Rest, Less
<1> QED
  BY <1>3, <1>7

\* Every byte is the tag of one type.
LEMMA KindIs ==
    ASSUME NEW m, NEW a, m[a] \in Byte
    PROVE  /\ KindAt(m, a) \in DOMAIN Tag
           /\ Tag[KindAt(m, a)] = m[a]
           /\ Width(KindAt(m, a)) \in 1 .. Word
           /\ \A k \in DOMAIN Tag : Tag[k] = m[a] => k = KindAt(m, a)
<1>1. \E k \in DOMAIN Tag : Tag[k] = m[a]
  BY DEF Tag, Byte
<1>2. \A k, l \in DOMAIN Tag : Tag[k] = Tag[l] => k = l
  BY DEF Tag
<1>3. KindAt(m, a) \in DOMAIN Tag /\ Tag[KindAt(m, a)] = m[a]
  BY <1>1 DEF KindAt
<1>4. Width(KindAt(m, a)) \in 1 .. Word
  BY StacksAssumption DEF Width
<1> QED
  BY <1>2, <1>3, <1>4

\* What the function is at an address, out of what it is behind.
Reading(m, c, f, a) ==
    IF a = Top(c) THEN <<>>
    ELSE IF Behind(m, a) > Top(c) THEN <<Garbage>>
    ELSE <<ElementAt(m, a)>> \o f[Behind(m, a)]

LEMMA BehindIs ==
    ASSUME NEW m \in [Addresses -> Byte], NEW a \in Addresses
    PROVE  Behind(m, a) \in Int /\ a + 2 <= Behind(m, a)
<1>1. a \in Int /\ Width(KindAt(m, a)) \in 1 .. Word /\ Word \in Nat
  <2>1. m[a] \in Byte
    OBVIOUS
  <2>2. a \in Int
    BY StacksAssumption DEF Addresses
  <2> QED
    BY <2>1, <2>2, KindIs, StacksAssumption
<1> QED
  BY <1>1 DEF Behind

LEMMA ReadingExists ==
    ASSUME NEW m \in [Addresses -> Byte], NEW c \in Cores
    PROVE  \E f : f = [a \in Lowest(c) .. Top(c) |-> Reading(m, c, f, a)]
<1> DEFINE Part(n) == {a \in Lowest(c) .. Top(c) : Top(c) - n <= a}
           S == {n \in Nat : \E f : f = [a \in Part(n) |-> Reading(m, c, f, a)]}
<1>0. /\ Lowest(c) \in Int /\ Top(c) \in Int /\ Lowest(c) <= Top(c)
      /\ Lowest(c) .. Top(c) \subseteq Addresses
  BY LowestIs
<1>1. 0 \in S
  <2>1. \A a \in Part(0) : a = Top(c)
    BY <1>0
  <2> DEFINE f == [a \in Part(0) |-> <<>>]
  <2>2. f = [a \in Part(0) |-> Reading(m, c, f, a)]
    BY <2>1 DEF Reading
  <2> QED
    BY <2>2
<1>2. ASSUME NEW n \in Nat, n \in S PROVE n + 1 \in S
  <2>1. PICK f : f = [a \in Part(n) |-> Reading(m, c, f, a)]
    BY <1>2
  <2> DEFINE g == [a \in Part(n + 1) |-> Reading(m, c, f, a)]
  <2>2. \A a \in Part(n) : a \in Part(n + 1)
    BY <1>0
  <2>3. ASSUME NEW a \in Part(n + 1), Behind(m, a) <= Top(c)
        PROVE  Behind(m, a) \in Part(n) /\ Behind(m, a) \in Part(n + 1)
    <3>1. a \in Addresses /\ a \in Int /\ Lowest(c) <= a /\ Top(c) - (n + 1) <= a
      BY <1>0
    <3>2. Behind(m, a) \in Int /\ a + 2 <= Behind(m, a)
      BY <3>1, BehindIs
    <3> QED
      BY <1>0, <2>3, <3>1, <3>2
  <2> HIDE DEF Part
  <2>4. \A a \in Part(n) : g[a] = f[a]
    BY <2>1, <2>2
  <2>5. ASSUME NEW a \in Part(n + 1)
        PROVE  Reading(m, c, f, a) = Reading(m, c, g, a)
    <3>1. CASE a = Top(c)
      BY <3>1 DEF Reading
    <3>2. CASE Behind(m, a) > Top(c)
      BY <3>2 DEF Reading
    <3>3. CASE a # Top(c) /\ ~(Behind(m, a) > Top(c))
      <4>1. a \in Addresses
        BY <1>0 DEF Part
      <4>2. Behind(m, a) <= Top(c)
        BY <3>3, <4>1, <1>0, BehindIs
      <4>3. f[Behind(m, a)] = g[Behind(m, a)]
        BY <2>3, <2>4, <4>2
      <4> QED
        BY <3>3, <4>3 DEF Reading
    <3> QED
      BY <3>1, <3>2, <3>3
  <2>6. g = [a \in Part(n + 1) |-> Reading(m, c, g, a)]
    BY <2>5
  <2> HIDE DEF g
  <2> QED
    BY <2>6
<1> HIDE DEF S
<1>3. \A n \in Nat : n \in S
  BY <1>1, <1>2, Induction
<1>4. Top(c) - Lowest(c) \in Nat
  BY <1>0
<1>5. Part(Top(c) - Lowest(c)) = Lowest(c) .. Top(c)
  BY <1>0
<1> HIDE DEF Part
<1>6. Top(c) - Lowest(c) \in S
  BY <1>3, <1>4
<1> QED
  BY <1>5, <1>6 DEF S

LEMMA ElementsAre ==
    ASSUME NEW m \in [Addresses -> Byte], NEW c \in Cores,
           NEW a \in Lowest(c) .. Top(c)
    PROVE  Elements(m, c)[a] = Reading(m, c, Elements(m, c), a)
<1>1. Elements(m, c) = CHOOSE f : f = [x \in Lowest(c) .. Top(c) |-> Reading(m, c, f, x)]
  BY DEF Elements, Reading, Lowest
<1> QED
  BY <1>1, ReadingExists

\* At the top there is none.
LEMMA EmptyElements ==
    ASSUME NEW m \in [Addresses -> Byte], NEW c \in Cores
    PROVE  Elements(m, c)[Top(c)] = <<>>
<1>1. Top(c) \in Lowest(c) .. Top(c)
  BY LowestIs
<1>2. Elements(m, c)[Top(c)] = Reading(m, c, Elements(m, c), Top(c))
  BY <1>1, ElementsAre
<1> QED
  BY <1>2 DEF Reading

\* Stacks whose bytes below the top are the same hold the same elements.
LEMMA SameBytes ==
    ASSUME NEW m1 \in [Addresses -> Byte], NEW m2 \in [Addresses -> Byte],
           NEW c \in Cores, NEW d \in Cores,
           NEW n \in 0 .. StackSize - 1,
           \A j \in 1 .. n : m1[Top(c) - j] = m2[Top(d) - j]
    PROVE  Elements(m1, c)[Top(c) - n] = Elements(m2, d)[Top(d) - n]
<1> DEFINE Same(i) == Elements(m1, c)[Top(c) - i] = Elements(m2, d)[Top(d) - i]
           S == {k \in Nat : \A i \in 0 .. k : i <= n => Same(i)}
<1>0. /\ Top(c) \in Int /\ Top(d) \in Int /\ StackSize \in Nat
      /\ Top(c) = Bottom(c) + StackSize - 1 /\ Bottom(c) \in Int
      /\ Top(d) = Bottom(d) + StackSize - 1 /\ Bottom(d) \in Int
      /\ \A i \in 0 .. n : /\ Top(c) - i \in Lowest(c) .. Top(c)
                          /\ Top(d) - i \in Lowest(d) .. Top(d)
                          /\ Top(c) - i \in Addresses
                          /\ Top(d) - i \in Addresses
  <2>1. /\ Top(c) \in Int /\ Top(d) \in Int /\ StackSize \in Nat
        /\ Top(c) = Bottom(c) + StackSize - 1 /\ Bottom(c) \in Int
        /\ Top(d) = Bottom(d) + StackSize - 1 /\ Bottom(d) \in Int
    BY StackInMemory, StacksAssumption
  <2> QED
    BY <2>1, LowestIs
<1>1. 0 \in S
  <2>1. Elements(m1, c)[Top(c)] = <<>> /\ Elements(m2, d)[Top(d)] = <<>>
    BY EmptyElements
  <2> QED
    BY <2>1, <1>0
<1>2. ASSUME NEW k \in Nat, k \in S PROVE k + 1 \in S
  <2>1. \A i \in 0 .. k : i <= n => Same(i)
    BY <1>2
  <2> SUFFICES ASSUME k + 1 <= n PROVE Same(k + 1)
    BY <2>1
  <2> DEFINE i == k + 1
             a == Top(c) - i
             b == Top(d) - i
             w == Width(KindAt(m1, a))
  <2>2. i \in 1 .. n /\ a # Top(c) /\ b # Top(d) /\ a \in Int /\ b \in Int
    BY <1>0
  <2>3. a \in Lowest(c) .. Top(c) /\ b \in Lowest(d) .. Top(d)
        /\ a \in Addresses /\ b \in Addresses
    BY <1>0, <2>2
  <2>4. m1[a] = m2[b] /\ m1[a] \in Byte /\ m2[b] \in Byte
    BY <2>2, <2>3
  <2>5. KindAt(m1, a) = KindAt(m2, b) /\ w \in Nat \ {0}
    <3>1. KindAt(m1, a) \in DOMAIN Tag /\ Tag[KindAt(m1, a)] = m2[b]
      BY <2>4, KindIs
    <3>2. w \in 1 .. Word /\ Word \in Nat
      BY <2>4, KindIs, StacksAssumption
    <3> QED
      BY <2>4, <3>1, <3>2, KindIs
  <2>6. Behind(m1, a) = a + w + 1 /\ Behind(m2, b) = b + w + 1
    BY <2>5 DEF Behind
  <2>7. /\ Elements(m1, c)[a] = Reading(m1, c, Elements(m1, c), a)
        /\ Elements(m2, d)[b] = Reading(m2, d, Elements(m2, d), b)
    BY <2>3, ElementsAre
  <2> HIDE DEF w, Same
  <2>8. CASE i < w + 1
    <3>1. Behind(m1, a) > Top(c) /\ Behind(m2, b) > Top(d)
      BY <1>0, <2>2, <2>5, <2>6, <2>8
    <3> QED
      BY <2>2, <2>7, <3>1 DEF Reading, Same
  <2>9. CASE w + 1 <= i
    <3>1. ~(Behind(m1, a) > Top(c)) /\ ~(Behind(m2, b) > Top(d))
      BY <1>0, <2>2, <2>5, <2>6, <2>9
    <3>2. i - w - 1 \in 0 .. k /\ i - w - 1 <= n
      BY <2>2, <2>5, <2>9
    <3>3. /\ Behind(m1, a) = Top(c) - (i - w - 1)
          /\ Behind(m2, b) = Top(d) - (i - w - 1)
      BY <1>0, <2>2, <2>5, <2>6
    <3>4. Elements(m1, c)[Behind(m1, a)] = Elements(m2, d)[Behind(m2, b)]
      <4>1. Same(i - w - 1)
        BY <2>1, <3>2
      <4> QED
        BY <3>3, <4>1 DEF Same
    <3>5. ASSUME NEW x \in 1 .. w
          PROVE  m1[Behind(m1, a) - x] = m2[Behind(m2, b) - x]
      <4>1. i - w - 1 + x \in 1 .. n
        BY <2>2, <2>5, <2>9
      <4>2. /\ Behind(m1, a) - x = Top(c) - (i - w - 1 + x)
            /\ Behind(m2, b) - x = Top(d) - (i - w - 1 + x)
        BY <1>0, <2>2, <2>5, <2>6
      <4> QED
        BY <4>1, <4>2
    <3>6. ElementAt(m1, a) = ElementAt(m2, b)
      BY <2>5, <3>5 DEF ElementAt, w
    <3> QED
      BY <2>2, <2>7, <3>1, <3>4, <3>6 DEF Reading, Same
  <2> QED
    BY <2>2, <2>5, <2>8, <2>9
<1> HIDE DEF S
<1>3. n \in S
  BY <1>1, <1>2, Induction
<1> QED
  BY <1>3 DEF S

\* The same of one stack: what lies between an address and the top.
LEMMA SameElements ==
    ASSUME NEW m1 \in [Addresses -> Byte], NEW m2 \in [Addresses -> Byte],
           NEW c \in Cores, NEW a \in Bottom(c) .. Top(c),
           \A x \in a .. Top(c) : m1[x] = m2[x]
    PROVE  Elements(m1, c)[a] = Elements(m2, c)[a]
<1>1. /\ Top(c) \in Int /\ StackSize \in Nat /\ a \in Int
      /\ Top(c) = Bottom(c) + StackSize - 1 /\ Bottom(c) \in Int
  BY StackInMemory, StacksAssumption
<1>2. Top(c) - a \in 0 .. StackSize - 1 /\ Top(c) - (Top(c) - a) = a
  BY <1>1
<1>3. \A j \in 1 .. Top(c) - a : m1[Top(c) - j] = m2[Top(c) - j]
  BY <1>1
<1> QED
  BY <1>2, <1>3, SameBytes

-----------------------------------------------------------------------------
\* An element in front of a sequence.
LEMMA Cons ==
    ASSUME NEW S, NEW e \in S, NEW s \in Seq(S)
    PROVE  /\ <<e>> \o s \in Seq(S)
           /\ <<e>> \o s # <<>>
           /\ Head(<<e>> \o s) = e
           /\ Tail(<<e>> \o s) = s
           /\ Len(<<e>> \o s) = Len(s) + 1
           /\ \A i \in 1 .. Len(s) : (<<e>> \o s)[i + 1] = s[i]
           /\ (<<e>> \o s)[1] = e
<1> DEFINE t == <<e>> \o s
<1>1. <<e>> \in Seq(S) /\ Len(<<e>>) = 1 /\ <<e>>[1] = e /\ Len(s) \in Nat
  BY LenProperties
<1>2. /\ t \in Seq(S) /\ Len(t) = Len(s) + 1
      /\ \A i \in 1 .. Len(s) + 1 : t[i] = IF i <= 1 THEN <<e>>[i] ELSE s[i - 1]
  BY <1>1, ConcatProperties
<1> HIDE DEF t
<1>3. t[1] = e /\ \A i \in 1 .. Len(s) : t[i + 1] = s[i]
  BY <1>1, <1>2
<1>4. t # <<>>
  BY <1>1, <1>2, EmptySeq
<1>5. Head(t) = e
  BY <1>3, <1>4
<1>6. Tail(t) \in Seq(S) /\ Len(Tail(t)) = Len(s)
      /\ \A i \in 1 .. Len(Tail(t)) : Tail(t)[i] = t[i + 1]
  BY <1>1, <1>2, <1>4, HeadTailProperties
<1>7. Tail(t) = s
  BY <1>1, <1>3, <1>6, SeqEqual
<1> QED
  BY <1>2, <1>3, <1>4, <1>5, <1>7 DEF t

(***************************************************************************)
(* The bytes a sequence of elements takes: PrivateStacks adds them up.     *)
(***************************************************************************)
SumTo(s, f, i) == IF i = 0 THEN 0 ELSE f[i - 1] + Width(s[i].kind) + 1

SumOf(s) == CHOOSE f : f = [i \in 0 .. Len(s) |-> SumTo(s, f, i)]

LEMMA WidthIsNat == \A k : Width(k) \in Nat /\ Abstract!Width(k) = Width(k)
BY StacksAssumption DEF Width, Abstract!Width

LEMMA UsedIsSum == \A s : Abstract!Used(s) = SumOf(s)[Len(s)]
BY DEF Abstract!Used, SumOf, SumTo, Abstract!Width, Width

LEMMA SumExists ==
    ASSUME NEW s, Len(s) \in Nat
    PROVE  \E f : f = [i \in 0 .. Len(s) |-> SumTo(s, f, i)]
<1> DEFINE S == {n \in Nat : \E f : f = [i \in 0 .. n |-> SumTo(s, f, i)]}
<1>1. 0 \in S
  <2> DEFINE f == [i \in 0 .. 0 |-> 0]
  <2>1. f = [i \in 0 .. 0 |-> SumTo(s, f, i)]
    BY DEF SumTo
  <2> HIDE DEF f
  <2> QED
    BY <2>1
<1>2. ASSUME NEW n \in Nat, n \in S PROVE n + 1 \in S
  <2>1. PICK f : f = [i \in 0 .. n |-> SumTo(s, f, i)]
    BY <1>2
  <2> DEFINE g == [i \in 0 .. n + 1 |-> SumTo(s, f, i)]
  <2>2. \A i \in 0 .. n : g[i] = f[i]
    BY <2>1
  <2>3. \A i \in 0 .. n + 1 : i # 0 => i - 1 \in 0 .. n
    OBVIOUS
  <2> HIDE DEF g
  <2>4. \A i \in 0 .. n + 1 : SumTo(s, f, i) = SumTo(s, g, i)
    BY <2>2, <2>3 DEF SumTo
  <2>5. g = [i \in 0 .. n + 1 |-> SumTo(s, g, i)]
    BY <2>4 DEF g
  <2> QED
    BY <2>5
<1> HIDE DEF S
<1>3. Len(s) \in S
  BY <1>1, <1>2, Induction
<1> QED
  BY <1>3 DEF S

LEMMA SumIs ==
    ASSUME NEW s, Len(s) \in Nat
    PROVE  /\ SumOf(s)[0] = 0
           /\ \A i \in 1 .. Len(s) :
                 SumOf(s)[i] = SumOf(s)[i - 1] + Width(s[i].kind) + 1
<1>1. SumOf(s) = [i \in 0 .. Len(s) |-> SumTo(s, SumOf(s), i)]
  BY SumExists DEF SumOf
<1>2. \A i \in 0 .. Len(s) : SumOf(s)[i] = SumTo(s, SumOf(s), i)
  BY <1>1
<1>3. 0 \in 0 .. Len(s) /\ \A i \in 1 .. Len(s) : i \in 0 .. Len(s) /\ i # 0
  OBVIOUS
<1> QED
  BY <1>2, <1>3 DEF SumTo

LEMMA UsedEmpty == Abstract!Used(<<>>) = 0
<1>1. Len(<<>>) = 0 /\ 0 \in Nat
  OBVIOUS
<1>2. SumOf(<<>>)[0] = 0
  BY <1>1, SumIs
<1> QED
  BY <1>1, <1>2, UsedIsSum

LEMMA UsedCons ==
    ASSUME NEW E, NEW e \in E, NEW s \in Seq(E)
    PROVE  /\ Abstract!Used(s) \in Nat
           /\ Abstract!Used(<<e>> \o s) = Abstract!Used(s) + Width(e.kind) + 1
<1> DEFINE t == <<e>> \o s
           S == {n \in Nat : n <= Len(s) =>
                    /\ SumOf(s)[n] \in Nat
                    /\ SumOf(t)[n + 1] = SumOf(s)[n] + Width(e.kind) + 1}
<1>1. /\ Len(s) \in Nat /\ Len(t) = Len(s) + 1
      /\ t[1] = e /\ \A i \in 1 .. Len(s) : t[i + 1] = s[i]
  BY Cons, LenProperties
<1> HIDE DEF t
<1>2. /\ SumOf(s)[0] = 0
      /\ \A i \in 1 .. Len(s) :
            SumOf(s)[i] = SumOf(s)[i - 1] + Width(s[i].kind) + 1
  BY <1>1, SumIs
<1>3. /\ SumOf(t)[0] = 0
      /\ \A i \in 1 .. Len(s) + 1 :
            SumOf(t)[i] = SumOf(t)[i - 1] + Width(t[i].kind) + 1
  BY <1>1, SumIs
<1>4. 0 \in S
  <2>1. SumOf(t)[1] = SumOf(t)[0] + Width(t[1].kind) + 1
    BY <1>1, <1>3
  <2> QED
    BY <1>1, <1>2, <1>3, <2>1, WidthIsNat
<1>5. ASSUME NEW n \in Nat, n \in S PROVE n + 1 \in S
  <2> SUFFICES ASSUME n + 1 <= Len(s)
               PROVE  /\ SumOf(s)[n + 1] \in Nat
                      /\ SumOf(t)[n + 1 + 1] = SumOf(s)[n + 1] + Width(e.kind) + 1
    OBVIOUS
  <2>1. /\ SumOf(s)[n] \in Nat
        /\ SumOf(t)[n + 1] = SumOf(s)[n] + Width(e.kind) + 1
    BY <1>1, <1>5
  <2>2. n + 1 \in 1 .. Len(s) /\ n + 1 + 1 \in 1 .. Len(s) + 1
        /\ n + 1 - 1 = n /\ n + 1 + 1 - 1 = n + 1
    BY <1>1
  <2>3. SumOf(s)[n + 1] = SumOf(s)[n] + Width(s[n + 1].kind) + 1
    BY <1>2, <2>2
  <2>4. SumOf(t)[n + 1 + 1] = SumOf(t)[n + 1] + Width(t[n + 1 + 1].kind) + 1
    BY <1>3, <2>2
  <2>5. t[n + 1 + 1] = s[n + 1]
    BY <1>1, <2>2
  <2>6. Width(s[n + 1].kind) \in Nat /\ Width(e.kind) \in Nat
    BY WidthIsNat
  <2> QED
    BY <2>1, <2>3, <2>4, <2>5, <2>6
<1> HIDE DEF S
<1>6. Len(s) \in S
  BY <1>1, <1>4, <1>5, Induction
<1>7. /\ SumOf(s)[Len(s)] \in Nat
      /\ SumOf(t)[Len(s) + 1] = SumOf(s)[Len(s)] + Width(e.kind) + 1
  BY <1>1, <1>6 DEF S
<1> QED
  BY <1>1, <1>7, UsedIsSum DEF t

-----------------------------------------------------------------------------
(***************************************************************************)
(* What a chain of elements reads as.                                      *)
(***************************************************************************)
Elems == {ElementAt(mem, a) : a \in Addresses}

\* The element at a place of the chain, and what is behind it.
LEMMA LinkIs ==
    ASSUME TypeOK, NEW c \in Cores, NEW b \in Bottom(c) .. Top(c), b # Top(c),
           NEW k \in Kinds, mem[b] = Tag[k], b + Width(k) + 1 <= Top(c)
    PROVE  /\ KindAt(mem, b) = k
           /\ Behind(mem, b) = b + Width(k) + 1
           /\ Elements(mem, c)[b]
                 = <<ElementAt(mem, b)>> \o Elements(mem, c)[b + Width(k) + 1]
           /\ ElementAt(mem, b) \in Elems
<1>1. /\ b \in Lowest(c) .. Top(c)
      /\ b \in Addresses /\ b \in Int /\ Top(c) \in Int
      /\ mem \in [Addresses -> Byte]
  <2>1. b \in Lowest(c) .. Top(c) /\ b \in Int /\ Top(c) \in Int
    BY LowestIs
  <2> QED
    BY <2>1, LowestIs DEF TypeOK
<1>2. mem[b] \in Byte /\ k \in DOMAIN Tag
  BY <1>1, StacksAssumption
<1>3. KindAt(mem, b) = k
  BY <1>2, KindIs
<1>4. Behind(mem, b) = b + Width(k) + 1
  BY <1>3 DEF Behind
<1>5. Width(k) \in Nat
  BY WidthIsNat
<1>6. ~(Behind(mem, b) > Top(c))
  BY <1>1, <1>4, <1>5
<1>7. Elements(mem, c)[b] = Reading(mem, c, Elements(mem, c), b)
  BY <1>1, ElementsAre
<1>8. ElementAt(mem, b) \in Elems
  BY <1>1 DEF Elems
<1> QED
  BY <1>1, <1>3, <1>4, <1>6, <1>7, <1>8 DEF Reading

\* Elements linked up to the top fill the bytes from the first one on.
LEMMA LinksRead ==
    ASSUME TypeOK, NEW c \in Cores, NEW s \in Bottom(c) .. Top(c),
           NEW B, \A b \in B : b \in s .. Top(c),
           s \in B,
           \A b \in B : b # Top(c) =>
               \E k \in Kinds : mem[b] = Tag[k] /\ b + Width(k) + 1 \in B
    PROVE  /\ Elements(mem, c)[s] \in Seq(Elems)
           /\ Abstract!Used(Elements(mem, c)[s]) = Top(c) - s
<1> DEFINE Fine(b) == /\ Elements(mem, c)[b] \in Seq(Elems)
                      /\ Abstract!Used(Elements(mem, c)[b]) = Top(c) - b
           S == {n \in Nat : \A b \in B : Top(c) - b <= n => Fine(b)}
<1>2. /\ Top(c) \in Int /\ s \in Int /\ mem \in [Addresses -> Byte]
      /\ \A b \in B : b \in Int /\ b <= Top(c) /\ b \in Bottom(c) .. Top(c)
  <2>1. Top(c) \in Int /\ Bottom(c) \in Int /\ mem \in [Addresses -> Byte]
    BY LowestIs DEF TypeOK
  <2> QED
    BY <2>1
<1>3. 0 \in S
  <2> SUFFICES ASSUME NEW b \in B, Top(c) - b <= 0 PROVE Fine(b)
    OBVIOUS
  <2>1. b = Top(c)
    BY <1>2
  <2>2. Elements(mem, c)[b] = <<>>
    BY <1>2, <2>1, EmptyElements
  <2> QED
    BY <1>2, <2>1, <2>2, UsedEmpty, EmptySeq
<1>4. ASSUME NEW n \in Nat, n \in S PROVE n + 1 \in S
  <2> SUFFICES ASSUME NEW b \in B, Top(c) - b <= n + 1 PROVE Fine(b)
    OBVIOUS
  <2>1. CASE b = Top(c)
    BY <1>3, <2>1, <1>2
  <2>2. CASE b # Top(c)
    <3>1. PICK k \in Kinds : mem[b] = Tag[k] /\ b + Width(k) + 1 \in B
      BY <2>2
    <3> DEFINE nx == b + Width(k) + 1
    <3>2. /\ KindAt(mem, b) = k
          /\ Elements(mem, c)[b] = <<ElementAt(mem, b)>> \o Elements(mem, c)[nx]
          /\ ElementAt(mem, b) \in Elems
      <4>1. b \in Bottom(c) .. Top(c) /\ nx <= Top(c)
        BY <1>2, <3>1
      <4> QED
        BY <2>2, <3>1, <4>1, LinkIs
    <3>3. Width(k) \in Nat /\ nx \in B /\ Top(c) - nx <= n
      BY <1>2, <3>1, WidthIsNat
    <3> HIDE DEF Fine
    <3>4. Fine(nx)
      BY <1>4, <3>3
    <3>5. ElementAt(mem, b).kind = k
      BY <3>2 DEF ElementAt
    <3> DEFINE rest == Elements(mem, c)[nx]
    <3>6. /\ rest \in Seq(Elems) /\ Abstract!Used(rest) = Top(c) - nx
      BY <3>4 DEF Fine
    <3> HIDE DEF rest
    <3>7. /\ <<ElementAt(mem, b)>> \o rest \in Seq(Elems)
          /\ Abstract!Used(<<ElementAt(mem, b)>> \o rest)
                = Abstract!Used(rest) + Width(k) + 1
      BY <3>2, <3>5, <3>6, Cons, UsedCons
    <3>8. Elements(mem, c)[b] = <<ElementAt(mem, b)>> \o rest
      BY <3>2 DEF rest
    <3>9. Abstract!Used(rest) + Width(k) + 1 = Top(c) - b
      BY <1>2, <3>3, <3>6
    <3> QED
      BY <3>7, <3>8, <3>9 DEF Fine
  <2> QED
    BY <2>1, <2>2
<1> HIDE DEF S, Fine
<1>5. Top(c) - s \in Nat
  BY <1>2
<1>6. Top(c) - s \in S
  BY <1>3, <1>4, <1>5, Induction
<1>7. Fine(s)
  BY <1>2, <1>5, <1>6 DEF S
<1> QED
  BY <1>7 DEF Fine


\* The stack of a core in each of its states, before and after a step.
LEMMA StackOfIs ==
    \A c \in Cores :
       /\ c \in broken => StackOf(c) = <<>>
       /\ c \notin broken /\ pc[c] = "copy" => StackOf(c) = Elements(mem, 0)[motherSp[c]]
       /\ c \notin broken /\ pc[c] = "run" => StackOf(c) = Elements(mem, c)[sp[c]]
       /\ pc[c] \notin {"copy", "run"} => StackOf(c) = <<>>
BY DEF StackOf

LEMMA StackOfNext ==
    \A c \in Cores :
       /\ c \in broken' => StackOf(c)' = <<>>
       /\ c \notin broken' /\ pc'[c] = "copy" => StackOf(c)' = Elements(mem', 0)[motherSp'[c]]
       /\ c \notin broken' /\ pc'[c] = "run" => StackOf(c)' = Elements(mem', c)[sp'[c]]
       /\ pc'[c] \notin {"copy", "run"} => StackOf(c)' = <<>>
BY DEF StackOf

\* A chain is a stack whose elements fill the bytes up to the top.
LEMMA ChainReads ==
    ASSUME StackInv, NEW c \in Cores, pc[c] = "run", c \notin broken
    PROVE  /\ StackOf(c) \in Seq(Elems)
           /\ Abstract!Used(StackOf(c)) = Top(c) - sp[c]
<1>1. Chained(c) /\ TypeOK /\ sp[c] \in Bottom(c) .. Top(c)
  BY RunningIsChained, SpRange DEF StackInv
<1>2. PICK B \in SUBSET (sp[c] .. Top(c)) : Chain(c, B)
  BY <1>1 DEF Chained
<1>3. /\ \A b \in B : b \in sp[c] .. Top(c)
      /\ sp[c] \in B
      /\ \A b \in B : b # Top(c) =>
            \E k \in Kinds : mem[b] = Tag[k] /\ b + Width(k) + 1 \in B
  BY <1>2 DEF Chain
<1>4. /\ Elements(mem, c)[sp[c]] \in Seq(Elems)
      /\ Abstract!Used(Elements(mem, c)[sp[c]]) = Top(c) - sp[c]
  BY <1>1, <1>3, LinksRead
<1> QED
  BY <1>4, StackOfIs

\* The top element of a stack that is not empty.
LEMMA TopElement ==
    ASSUME StackInv, NEW c \in Cores, pc[c] = "run", c \notin broken, sp[c] # Top(c)
    PROVE  \E k \in Kinds :
              /\ mem[sp[c]] = Tag[k]
              /\ sp[c] + Width(k) + 1 <= Top(c)
              /\ StackOf(c) # <<>>
              /\ Head(StackOf(c)) = ElementAt(mem, sp[c])
              /\ Head(StackOf(c)).kind = k
              /\ Tail(StackOf(c)) = Elements(mem, c)[sp[c] + Width(k) + 1]
<1>1. /\ Chained(c) /\ TypeOK /\ SpInStack
      /\ sp[c] \in Bottom(c) .. Top(c) /\ Top(c) \in Int /\ Bottom(c) \in Int
  BY RunningIsChained, SpRange, LowestIs DEF StackInv
<1>2. PICK B \in SUBSET (sp[c] .. Top(c)) : Chain(c, B)
  BY <1>1 DEF Chained
<1>3. PICK k \in Kinds : mem[sp[c]] = Tag[k] /\ sp[c] + Width(k) + 1 \in B
  BY <1>2 DEF Chain
<1> DEFINE s == sp[c]
           nx == s + Width(k) + 1
           rest == Elements(mem, c)[nx]
           e == ElementAt(mem, s)
<1>4. nx <= Top(c) /\ nx \in Bottom(c) .. Top(c) /\ nx \in Int
  <2>1. nx \in sp[c] .. Top(c)
    BY <1>2, <1>3
  <2> QED
    BY <1>1, <2>1
<1>5. /\ KindAt(mem, s) = k /\ e \in Elems
      /\ Elements(mem, c)[s] = <<e>> \o rest
  BY <1>1, <1>3, <1>4, LinkIs
<1>6. e.kind = k
  BY <1>5 DEF ElementAt
<1>7. rest \in Seq(Elems)
  <2>1. CASE nx = Top(c)
    <3>1. rest = <<>>
      BY <1>1, <2>1, EmptyElements DEF TypeOK
    <3> QED
      BY <3>1, EmptySeq
  <2>2. CASE nx # Top(c)
    <3> DEFINE Up == {b \in B : nx <= b}
    <3>1. \A b \in Up : b \in nx .. Top(c)
      BY <1>1, <1>2, <1>4
    <3>2. nx \in Up /\ Top(c) \in Up
      BY <1>2, <1>3, <1>4 DEF Chain
    <3>3. ASSUME NEW b \in Up, b # Top(c)
          PROVE  \E l \in Kinds : mem[b] = Tag[l] /\ b + Width(l) + 1 \in Up
      <4>1. PICK l \in Kinds : mem[b] = Tag[l] /\ b + Width(l) + 1 \in B
        BY <1>2, <3>3 DEF Chain
      <4>2. b \in Int /\ Width(l) \in Nat /\ nx <= b
        BY <3>1, <1>1, <1>4, WidthIsNat
      <4>3. nx <= b + Width(l) + 1
        BY <1>4, <4>2
      <4> QED
        BY <4>1, <4>3
    <3> HIDE DEF Up, nx
    <3> QED
      BY <1>1, <1>4, <3>1, <3>2, <3>3, LinksRead DEF TypeOK
  <2> QED
    BY <2>1, <2>2
<1> HIDE DEF e, rest
<1>8. /\ <<e>> \o rest # <<>> /\ Head(<<e>> \o rest) = e
      /\ Tail(<<e>> \o rest) = rest
  BY <1>5, <1>7, Cons
<1>9. StackOf(c) = <<e>> \o rest
  BY <1>5, StackOfIs
<1> QED
  BY <1>3, <1>4, <1>6, <1>8, <1>9 DEF e, rest

-----------------------------------------------------------------------------
(***************************************************************************)
(* Each step is one of PrivateStacks, or none.                             *)
(***************************************************************************)
\* The other stacks hold what they held, but for those that are harmed.
LEMMA OthersHold ==
    ASSUME StackInv, mem' \in [Addresses -> Byte], NEW c \in Cores, StepOf(c),
           NEW d \in Cores, d # c
    PROVE  StackOf(d)' = IF d \in broken' THEN <<>> ELSE StackOf(d)
<1>0. /\ sp'[d] = sp[d] /\ pc'[d] = pc[d] /\ motherSp'[d] = motherSp[d]
      /\ d \in broken => d \in broken'
      /\ mem \in [Addresses -> Byte]
  BY DEF StepOf, StackInv, TypeOK
<1>1. CASE d \in broken'
  BY <1>1, StackOfNext
<1>2. CASE d \notin broken' /\ pc[d] = "run"
  <2>1. d \notin broken /\ sp[d] \in Bottom(d) .. Top(d)
    BY <1>0, <1>2, SpRange
  <2>2. \A a \in sp[d] .. Top(d) : a \in Bottom(d) .. Top(d)
    BY <2>1, StackInMemory
  <2>3. \A a \in sp[d] .. Top(d) : mem'[a] = mem[a]
    BY <1>2, <2>2, WholeKept
  <2>4. Elements(mem', d)[sp[d]] = Elements(mem, d)[sp[d]]
    BY <1>0, <2>1, <2>3, SameElements
  <2> QED
    BY <1>0, <1>2, <2>1, <2>4, StackOfIs, StackOfNext
<1>3. CASE d \notin broken' /\ pc[d] = "copy"
  <2>1. /\ d # 0 /\ d \notin broken /\ 0 \in Cores /\ 0 \notin broken
        /\ \A a \in Bottom(0) .. Top(0) : mem'[a] = mem[a]
    BY <1>3, MotherWaits
  <2>2. motherSp[d] = sp[0] /\ sp[0] \in Bottom(0) .. Top(0)
    BY <1>3, <2>1, SpRange DEF StackInv, SameAsMothers
  <2>3. \A a \in sp[0] .. Top(0) : a \in Bottom(0) .. Top(0)
    BY <2>1, <2>2, StackInMemory
  <2>4. Elements(mem', 0)[sp[0]] = Elements(mem, 0)[sp[0]]
    BY <1>0, <2>1, <2>2, <2>3, SameElements
  <2> QED
    BY <1>0, <1>3, <2>1, <2>2, <2>4, StackOfIs, StackOfNext
<1>4. CASE d \notin broken' /\ pc[d] \notin {"copy", "run"}
  BY <1>0, <1>4, StackOfIs, StackOfNext
<1> QED
  BY <1>1, <1>2, <1>3, <1>4

\* What c harms is what PrivateStacks says.
LEMMA HarmedIs ==
    ASSUME StackInv, NEW c \in Cores, NEW S, Harms(c, S)
    PROVE  broken' = Abstract!Harmed(c, S)
<1>1. Copying = {d \in Cores : pc[d] = "copy"}
  BY DEF StackInv, Copying, Children
<1> QED
  BY <1>1 DEF Harms, Abstract!Harmed

\* A harmed mother's copies are harmed already.
LEMMA NothingMore ==
    ASSUME StackInv, NEW c \in Cores, c \in broken
    PROVE  broken = Abstract!Harmed(c, {})
<1>1. c = 0 => \A d \in Cores : pc[d] = "copy" => d \in broken
  BY DEF StackInv
<1> QED
  BY <1>1 DEF Abstract!Harmed

LEMMA BecomesIs ==
    ASSUME StackInv, mem' \in [Addresses -> Byte], NEW c \in Cores, StepOf(c),
           NEW S, broken' = Abstract!Harmed(c, S),
           NEW s, c \notin broken' => StackOf(c)' = s
    PROVE  Abstract!Becomes(c, s, S)
<1>1. \A d \in Cores : StackOf(d)' = IF d \in broken' THEN <<>>
                                    ELSE IF d = c THEN s ELSE Stacks[d]
  <2> SUFFICES ASSUME NEW d \in Cores
               PROVE  StackOf(d)' = IF d \in broken' THEN <<>>
                                    ELSE IF d = c THEN s ELSE Stacks[d]
    OBVIOUS
  <2>1. Stacks[d] = StackOf(d)
    BY DEF Stacks
  <2>2. CASE d = c
    BY <2>2, StackOfNext
  <2>3. CASE d # c
    BY <2>1, <2>3, OthersHold
  <2> QED
    BY <2>2, <2>3
<1>2. Stacks' = [d \in Cores |-> IF d \in broken' THEN <<>>
                                 ELSE IF d = c THEN s ELSE Stacks[d]]
  BY <1>1 DEF Stacks
<1> QED
  BY <1>2 DEF Abstract!Becomes

\* An instruction that leaves the stacks alone.
LEMMA StacksKept ==
    ASSUME StackInv, UNCHANGED <<mem, sp, motherSp, broken>>, NEW c \in Cores,
           \A d \in Cores \ {c} : pc'[d] = pc[d]
    PROVE  /\ \A d \in Cores \ {c} : StackOf(d)' = StackOf(d)
           /\ pc'[c] = pc[c] => Stacks' = Stacks
<1>1. \A d \in Cores : pc'[d] = pc[d] => StackOf(d)' = StackOf(d)
  BY DEF StackOf
<1> QED
  BY <1>1 DEF Stacks

LEMMA OneStackChanges ==
    ASSUME NEW c \in Cores, NEW X, StackOf(c)' = X,
           \A d \in Cores \ {c} : StackOf(d)' = StackOf(d)
    PROVE  Stacks' = [Stacks EXCEPT ![c] = X]
BY DEF Stacks

LEMMA SameErrors == Abstract!Errors = Errors
BY DEF Abstract!Errors, Errors

\* The death of a thread.
LEMMA DeathIs ==
    ASSUME StackInv, NEW c \in Cores, pc[c] = "run", NEW why \in Errors,
           Die(c, why)
    PROVE  Abstract!Dies(c, why)
<1>1. /\ pc' = [pc EXCEPT ![c] = "dead"] /\ error' = [error EXCEPT ![c] = why]
      /\ UNCHANGED <<mem, sp, reg, motherSp, copied, broken>>
      /\ pc \in [Cores -> PC]
  BY DEF Die, StackInv, TypeOK
<1>2. /\ \A d \in Cores \ {c} : StackOf(d)' = StackOf(d)
      /\ StackOf(c)' = <<>>
  BY <1>1, StacksKept, StackOfNext
<1>3. Stacks' = [Stacks EXCEPT ![c] = <<>>]
  BY <1>2, OneStackChanges
<1> QED
  BY <1>1, <1>3 DEF Abstract!Dies

LEMMA LoadImplements ==
    ASSUME StackInv, NEW c \in Cores \ broken, Load(c)
    PROVE  [Abstract!Next]_(Abstract!vars)
<1>1. pc[c] = "run" /\ UNCHANGED <<mem, sp, pc, motherSp, copied, error, broken>>
  BY DEF Load
<1>2. Stacks' = Stacks
  BY <1>1, StacksKept
<1>3. Abstract!Load(c)
  BY <1>1, <1>2 DEF Load, Abstract!Load
<1> QED
  BY <1>1, <1>3 DEF Abstract!Next

LEMMA TellImplements ==
    ASSUME StackInv, NEW c \in Cores \ broken, StackType(c)
    PROVE  [Abstract!Next]_(Abstract!vars)
<1>1. /\ pc[c] = "run" /\ UNCHANGED <<mem, sp, pc, motherSp, copied, error, broken>>
      /\ reg' = [reg EXCEPT ![c][1] = mem[sp[c]]]
      /\ sp[c] + 1 <= Top(c)
  BY DEF StackType
<1>2. Stacks' = Stacks
  BY <1>1, StacksKept
<1>3. sp[c] # Top(c)
  BY <1>1, SpRange, LowestIs
<1>4. /\ StackOf(c) # <<>> /\ mem[sp[c]] = Tag[Head(StackOf(c)).kind]
  BY <1>1, <1>3, TopElement
<1>5. Stacks[c] = StackOf(c)
  BY DEF Stacks
<1>6. Abstract!Tag = Tag
  BY DEF Abstract!Tag, Tag
<1>7. Abstract!Tell(c)
  BY <1>1, <1>2, <1>4, <1>5, <1>6 DEF Abstract!Tell
<1> QED
  BY <1>1, <1>7 DEF Abstract!Next

LEMMA ClearIs ==
    ASSUME StackInv, NEW c \in Cores, Clear(c)
    PROVE  /\ Abstract!Becomes(c, <<>>, {})
           /\ UNCHANGED <<reg, pc, error>> /\ pc[c] = "run"
<1>1. /\ pc[c] = "run" /\ sp' = [sp EXCEPT ![c] = Top(c)] /\ mem' = mem
      /\ UNCHANGED <<reg, pc, motherSp, copied, error>> /\ Harms(c, {})
      /\ sp'[c] = Top(c) /\ \A d \in Cores \ {c} : sp'[d] = sp[d]
      /\ mem \in [Addresses -> Byte]
  BY DEF Clear, StackInv, TypeOK
<1>2. StepOf(c) /\ broken' = Abstract!Harmed(c, {})
  BY <1>1, QuietIs, HarmedIs
<1>3. c \notin broken' => StackOf(c)' = <<>>
  BY <1>1, EmptyElements, StackOfNext
<1> QED
  BY <1>1, <1>2, <1>3, BecomesIs

LEMMA PopImplements ==
    ASSUME StackInv, NEW c \in Cores \ broken, NEW k \in Kinds, Pop(c, k)
    PROVE  [Abstract!Next]_(Abstract!vars)
<1>1. /\ pc[c] = "run" /\ Holds(c, k) /\ TagMatches(c, k)
      /\ reg' = [reg EXCEPT ![c] = Popped(c, k)]
      /\ sp' = [sp EXCEPT ![c] = sp[c] + Width(k) + 1] /\ Harms(c, {})
      /\ UNCHANGED <<pc, motherSp, copied, error>> /\ mem' = mem
      /\ sp'[c] = sp[c] + Width(k) + 1
      /\ \A d \in Cores \ {c} : sp'[d] = sp[d]
      /\ mem \in [Addresses -> Byte]
  BY DEF Pop, StackInv, TypeOK
<1>2. /\ sp[c] \in Int /\ Top(c) \in Int /\ Width(k) \in Nat /\ sp[c] <= Top(c)
  BY SpRange, LowestIs, WidthIsNat
<1>3. sp[c] # Top(c)
  <2>1. Word \in Nat
    BY StacksAssumption
  <2> QED
    BY <1>1, <1>2, <2>1 DEF Holds
<1>4. PICK l \in Kinds :
         /\ mem[sp[c]] = Tag[l]
         /\ StackOf(c) # <<>>
         /\ Head(StackOf(c)) = ElementAt(mem, sp[c])
         /\ Head(StackOf(c)).kind = l
         /\ Tail(StackOf(c)) = Elements(mem, c)[sp[c] + Width(l) + 1]
  BY <1>1, <1>3, TopElement
<1>5. l = k
  BY <1>1, <1>4, TagTells DEF TagMatches
<1>6. KindAt(mem, sp[c]) = k
  BY <1>4, <1>5 DEF ElementAt
<1>7. Stacks[c] = StackOf(c)
  BY DEF Stacks
<1>8. c \notin broken' => StackOf(c)' = Tail(Stacks[c])
  BY <1>1, <1>4, <1>5, <1>7, StackOfNext
<1>9. Abstract!Becomes(c, Tail(Stacks[c]), {})
  BY <1>1, <1>8, QuietIs, HarmedIs, BecomesIs
<1>10. Popped(c, k) = Abstract!Taken(c, Head(Stacks[c]))
  <2> DEFINE v == [i \in 1 .. Width(k) |-> mem[sp[c] + Width(k) + 1 - i]]
  <2>1. Head(Stacks[c]).value = v
    <3>1. ElementAt(mem, sp[c]).value = v
      <4> DEFINE a == sp[c]
                 w == Width(KindAt(mem, a))
                 b == Behind(mem, a)
                 x == Width(k)
                 y == a + Width(k) + 1
      <4>1. w = x
        BY <1>6
      <4>2. b = y
        BY <1>6 DEF Behind
      <4>3. ElementAt(mem, a).value = [i \in 1 .. w |-> mem[b - i]]
        BY DEF ElementAt
      <4>4. v = [i \in 1 .. x |-> mem[y - i]]
        <5>1. a \in Int /\ Width(k) \in Int
          BY <1>2
        <5>2. \A i \in 1 .. x : a + Width(k) + 1 - i = y - i
          BY <5>1
        <5> QED
          BY <5>2
      <4> HIDE DEF w, b, x, y, v
      <4>5. ElementAt(mem, a).value = v
        BY <4>1, <4>2, <4>3, <4>4
      <4> QED
        BY <4>5
    <3> QED
      BY <1>4, <1>7, <3>1
  <2>2. Len(v) = Width(k)
    BY <1>2
  <2>3. \A i \in 1 .. Word : i <= Width(k) => v[i] = mem[sp[c] + Width(k) + 1 - i]
    BY <1>2
  <2> HIDE DEF v
  <2> QED
    BY <2>1, <2>2, <2>3 DEF Popped, Abstract!Taken
<1>11. Abstract!Pop(c, k)
  BY <1>1, <1>4, <1>5, <1>7, <1>9, <1>10 DEF Abstract!Pop
<1> QED
  BY <1>1, <1>11 DEF Abstract!Next

\* What a push that fits leaves on top, read as an element.
LEMMA PushedIs ==
    ASSUME StackInv, NEW c \in Cores, NEW k \in Kinds, Push(c, k),
           sp[c] - Width(k) - 1 \in Bottom(c) .. Top(c),
           sp[c] \in Bottom(c) .. Top(c)
    PROVE  Elements(mem', c)[sp[c] - Width(k) - 1]
              = <<Abstract!Element(c, k)>> \o Elements(mem, c)[sp[c]]
<1> DEFINE s == sp[c]
           n == sp[c] - Width(k) - 1
<1>1. /\ mem' = Pushed(c, k) /\ mem \in [Addresses -> Byte]
      /\ reg \in [Cores -> Words]
  BY DEF Push, StackInv, TypeOK
<1>2. /\ s \in Int /\ s \in Bottom(c) .. Top(c) /\ Bottom(c) \in Int /\ Top(c) \in Int
      /\ Width(k) \in Nat /\ n \in Bottom(c) .. Top(c) /\ n \in Int
      /\ n + Width(k) + 1 = s /\ n < s
      /\ Bottom(c) .. Top(c) \subseteq Addresses
      /\ Top(c) = Bottom(c) + StackSize - 1 /\ StackSize \in Nat
  BY WidthIsNat, StackInMemory, StacksAssumption
<1>3. mem' \in [Addresses -> Byte]
  BY <1>1, <1>2, PushTypes
<1>4. /\ mem'[n] = Tag[k]
      /\ \A i \in 1 .. Width(k) : mem'[s - i] = reg[c][i]
      /\ \A a \in Addresses : a \notin n .. s - 1 => mem'[a] = mem[a]
  <2>1. mem'[n] = Tag[k]
    BY <1>1, <1>2 DEF Pushed
  <2>2. ASSUME NEW i \in 1 .. Width(k) PROVE mem'[s - i] = reg[c][i]
    <3>1. s - i \in s - Width(k) .. s - 1 /\ s - i # n /\ s - (s - i) = i
      BY <1>2
    <3>2. s - i \in Bottom(c) .. Top(c)
      BY <1>2, <3>1
    <3> QED
      BY <1>1, <1>2, <3>1, <3>2 DEF Pushed
  <2>3. ASSUME NEW a \in Addresses, a \notin n .. s - 1 PROVE mem'[a] = mem[a]
    <3>1. a \in Int
      BY StacksAssumption DEF Addresses
    <3>2. a # s - Width(k) - 1 /\ a \notin s - Width(k) .. s - 1
      BY <1>2, <2>3, <3>1
    <3> QED
      BY <1>1, <3>2 DEF Pushed
  <2> QED
    BY <2>1, <2>2, <2>3
<1>5. Elements(mem', c)[s] = Elements(mem, c)[s]
  <2>1. \A x \in s .. Top(c) : mem'[x] = mem[x]
    BY <1>2, <1>4
  <2> QED
    BY <1>1, <1>2, <1>3, <2>1, SameElements
<1>6. /\ KindAt(mem', n) = k /\ Behind(mem', n) = s
      /\ Elements(mem', c)[n] = <<ElementAt(mem', n)>> \o Elements(mem, c)[s]
  <2>1. mem'[n] \in Byte /\ k \in DOMAIN Tag
    BY <1>2, <1>3, StacksAssumption
  <2>2. KindAt(mem', n) = k
    BY <1>4, <2>1, KindIs
  <2>3. Behind(mem', n) = s
    BY <1>2, <2>2 DEF Behind
  <2>4. n \in Lowest(c) .. Top(c) /\ n # Top(c) /\ ~(s > Top(c))
    BY <1>2, LowestIs
  <2>5. Elements(mem', c)[n] = Reading(mem', c, Elements(mem', c), n)
    BY <1>3, <2>4, ElementsAre
  <2> QED
    BY <1>5, <2>2, <2>3, <2>4, <2>5 DEF Reading
<1>7. ElementAt(mem', n) = Abstract!Element(c, k)
  <2>1. ElementAt(mem', n) = [kind |-> k, value |-> [i \in 1 .. Width(k) |-> reg[c][i]]]
    BY <1>4, <1>6 DEF ElementAt
  <2>2. reg[c] \in [1 .. Word -> Byte] /\ Width(k) \in 1 .. Word /\ Word \in Nat
    BY <1>1, WidthNat, StacksAssumption DEF Words
  <2>3. SubSeq(reg[c], 1, Width(k)) = [i \in 1 .. Width(k) |-> reg[c][i]]
    BY <2>2
  <2> QED
    BY <2>1, <2>3, WidthIsNat DEF Abstract!Element
<1> QED
  BY <1>6, <1>7

LEMMA PushImplements ==
    ASSUME StackInv, NEW c \in Cores \ broken, NEW k \in Kinds, Push(c, k)
    PROVE  [Abstract!Next]_(Abstract!vars)
<1> DEFINE S == IF k = "byte" /\ ~HasRoom(c) THEN Under(c) ELSE {}
           n == sp[c] - Width(k) - 1
           e == Abstract!Element(c, k)
<1>1. /\ StepOf(c) /\ mem' \in [Addresses -> Byte] /\ sp'[c] = n
      /\ UNCHANGED <<reg, pc, motherSp, copied, error>> /\ pc[c] = "run"
      /\ PushFits(c, k) /\ Harms(c, S)
  BY PushIs DEF Push
<1>2. broken' = Abstract!Harmed(c, S)
  <2> HIDE DEF S
  <2> QED
    BY <1>1, HarmedIs
<1>3. /\ sp[c] \in Bottom(c) .. Top(c) /\ sp[c] \in Int
      /\ Bottom(c) \in Int /\ Top(c) = Bottom(c) + StackSize - 1
      /\ StackSize \in Nat /\ Width(k) \in Nat
  BY SpRange, StackInMemory, StacksAssumption, WidthIsNat
<1>4. Stacks[c] = StackOf(c) /\ StackOf(c) = Elements(mem, c)[sp[c]]
  BY <1>1, StackOfIs DEF Stacks
<1>5. Abstract!Used(Stacks[c]) = Top(c) - sp[c]
  BY <1>1, <1>4, ChainReads
<1>6. CASE k = "byte" /\ ~HasRoom(c)
  <2>1. S = Under(c) /\ Under(c) = Abstract!Under(c) /\ c \in broken'
    <3>1. S = Under(c)
      BY <1>6
    <3>2. c \in S
      BY <3>1, UnderIs
    <3>3. Under(c) = Abstract!Under(c)
      BY DEF Under, Abstract!Under
    <3> HIDE DEF S
    <3>4. c \in broken'
      BY <1>1, <3>2 DEF Harms
    <3> QED
      BY <3>1, <3>3, <3>4
  <2>2. Abstract!Becomes(c, <<>>, Abstract!Under(c))
    <3> HIDE DEF S
    <3> QED
      BY <1>1, <1>2, <2>1, BecomesIs
  <2>3. ~Abstract!Fits(c, "byte")
    <3>1. Width("byte") = 1 /\ Abstract!Width("byte") = 1
      BY DEF Width, Abstract!Width
    <3>2. ~(Top(c) - sp[c] + 1 + 1 <= StackSize - 1)
      BY <1>3, <1>6 DEF HasRoom
    <3> QED
      BY <1>5, <3>1, <3>2 DEF Abstract!Fits
  <2>4. Abstract!Overrun(c)
    BY <1>1, <2>2, <2>3 DEF Abstract!Overrun
  <2> QED
    BY <1>1, <2>4 DEF Abstract!Next
<1>7. CASE ~(k = "byte" /\ ~HasRoom(c))
  <2>1. S = {}
    BY <1>7
  <2>2. n \in Bottom(c) .. Top(c)
    BY <1>1, <1>7, PushStays
  <2>3. c \notin broken' => StackOf(c)' = <<e>> \o Stacks[c]
    <3>1. Elements(mem', c)[n] = <<e>> \o Elements(mem, c)[sp[c]]
      BY <1>3, <2>2, PushedIs
    <3> HIDE DEF e, n
    <3> QED
      BY <1>1, <1>4, <3>1, StackOfNext
  <2>4. Abstract!Becomes(c, <<e>> \o Stacks[c], {})
    <3> HIDE DEF S, e
    <3> QED
      BY <1>1, <1>2, <2>1, <2>3, BecomesIs
  <2>5. Abstract!Fits(c, k)
    <3>1. Top(c) - sp[c] + Width(k) + 1 <= StackSize - 1
      BY <1>3, <2>2
    <3> QED
      BY <1>5, <3>1, WidthIsNat DEF Abstract!Fits
  <2>6. Abstract!Push(c, k)
    BY <1>1, <2>4, <2>5 DEF Abstract!Push
  <2> QED
    BY <1>1, <2>6 DEF Abstract!Next
<1> QED
  BY <1>6, <1>7

\* The four deaths, and why PrivateStacks has them too.
LEMMA DeathImplements ==
    ASSUME StackInv, NEW c \in Cores \ broken,
           \/ \E k \in Kinds : PushFails(c, k) \/ PopFails(c, k)
           \/ StackTypeFails(c) \/ CheckEmptyFails(c)
    PROVE  [Abstract!Next]_(Abstract!vars)
<1>1. pc[c] = "run"
  BY DEF PushFails, PopFails, StackTypeFails, CheckEmptyFails
<1>2. /\ sp[c] \in Bottom(c) .. Top(c) /\ sp[c] \in Int
      /\ Top(c) \in Int /\ Bottom(c) \in Int
      /\ Top(c) = Bottom(c) + StackSize - 1 /\ StackSize \in Nat
      /\ Word \in Nat
  BY SpRange, StackInMemory, StacksAssumption
<1>3. sp[c] = Top(c) => StackOf(c) = <<>>
  <2>1. mem \in [Addresses -> Byte]
    BY DEF StackInv, TypeOK
  <2>2. Elements(mem, c)[Top(c)] = <<>>
    BY <2>1, EmptyElements
  <2>3. StackOf(c) = Elements(mem, c)[sp[c]]
    BY <1>1, StackOfIs
  <2> QED
    BY <2>2, <2>3
<1>4. Stacks[c] = StackOf(c)
  BY DEF Stacks
<1>5. ASSUME NEW why \in Errors, Die(c, why), Abstract!Fatal(c, why)
      PROVE  [Abstract!Next]_(Abstract!vars)
  BY <1>1, <1>5, DeathIs, SameErrors DEF Abstract!Next
<1>6. ASSUME NEW k \in Kinds, PushFails(c, k)
      PROVE  [Abstract!Next]_(Abstract!vars)
  <2>1. Abstract!Used(Stacks[c]) = Top(c) - sp[c]
    BY <1>1, <1>4, ChainReads
  <2>2. ~PushFits(c, k) /\ Die(c, <<"push", k>>)
    BY <1>6 DEF PushFails
  <2>3. k # "byte" /\ ~(Top(c) - sp[c] + Width(k) + 1 <= StackSize - 1)
    BY <1>2, <2>2 DEF PushFits, Width
  <2>4. ~Abstract!Fits(c, k)
    BY <2>1, <2>3, WidthIsNat DEF Abstract!Fits
  <2>5. Abstract!Fatal(c, <<"push", k>>) /\ <<"push", k>> \in Errors
    BY <2>3, <2>4 DEF Abstract!Fatal, Errors
  <2> QED
    BY <1>5, <2>2, <2>5
<1>7. ASSUME NEW k \in Kinds, PopFails(c, k)
      PROVE  [Abstract!Next]_(Abstract!vars)
  <2>1. (Holds(c, k) => ~TagMatches(c, k)) /\ Die(c, <<"pop", k>>)
    BY <1>7 DEF PopFails
  <2>2. Stacks[c] = <<>> \/ Head(Stacks[c]).kind # k
    <3>1. CASE sp[c] = Top(c)
      BY <1>3, <1>4, <3>1
    <3>2. CASE sp[c] # Top(c)
      <4>1. PICK l \in Kinds :
               /\ mem[sp[c]] = Tag[l] /\ sp[c] + Width(l) + 1 <= Top(c)
               /\ Head(StackOf(c)).kind = l
        BY <1>1, <3>2, TopElement
      <4>2. l # k
        <5> SUFFICES ASSUME l = k PROVE FALSE
          OBVIOUS
        <5>1. TagMatches(c, k)
          BY <4>1 DEF TagMatches
        <5>2. Holds(c, k)
          BY <1>2, <4>1 DEF Holds, Width
        <5> QED
          BY <2>1, <5>1, <5>2
      <4> QED
        BY <1>4, <4>1, <4>2
    <3> QED
      BY <3>1, <3>2
  <2>3. Abstract!Fatal(c, <<"pop", k>>) /\ <<"pop", k>> \in Errors
    BY <2>2 DEF Abstract!Fatal, Errors
  <2> QED
    BY <1>5, <2>1, <2>3
<1>8. CASE StackTypeFails(c)
  <2>1. sp[c] + 1 > Top(c) /\ Die(c, <<"type", "none">>)
    BY <1>8 DEF StackTypeFails
  <2>2. Stacks[c] = <<>>
    BY <1>2, <1>3, <1>4, <2>1
  <2>3. Abstract!Fatal(c, <<"type", "none">>) /\ <<"type", "none">> \in Errors
    BY <2>2 DEF Abstract!Fatal, Errors
  <2> QED
    BY <1>5, <2>1, <2>3
<1>9. CASE CheckEmptyFails(c)
  <2>1. sp[c] # Top(c) /\ Die(c, <<"empty", "none">>)
    BY <1>9 DEF CheckEmptyFails
  <2>2. Stacks[c] # <<>>
    BY <1>1, <1>4, <2>1, TopElement
  <2>3. Abstract!Fatal(c, <<"empty", "none">>) /\ <<"empty", "none">> \in Errors
    BY <2>2 DEF Abstract!Fatal, Errors
  <2> QED
    BY <1>5, <2>1, <2>3
<1> QED
  BY <1>6, <1>7, <1>8, <1>9

\* A thread whose stack is harmed: whatever it finds there, it does nothing
\* but what Stray allows.
LEMMA StrayNext ==
    ASSUME NEW c \in Cores, c \in broken, pc[c] \in {"copy", "run"}, Abstract!Stray(c)
    PROVE  [Abstract!Next]_(Abstract!vars)
BY DEF Abstract!Next

\* It leaves registers alone, or puts what it found into one.
LEMMA StrayReg ==
    ASSUME StackInv, NEW c \in Cores, c \in broken,
           UNCHANGED <<mem, sp, pc, motherSp, error, broken>>,
           NEW v \in Words, reg' = [reg EXCEPT ![c] = v]
    PROVE  Abstract!Stray(c)
<1>1. v \in [1 .. Word -> 0 .. 2]
  BY DEF Words, Byte
<1>2. Stacks' = Stacks
  BY StacksKept
<1>3. \A d \in Cores : d \in broken => Stacks[d] = <<>>
  BY StackOfIs DEF Stacks
<1>4. Stacks' = [d \in Cores |-> IF d \in broken' THEN <<>>
                                 ELSE IF d = c THEN <<>> ELSE Stacks[d]]
  <2>1. \A d \in Cores : Stacks[d] = IF d \in broken' THEN <<>>
                                    ELSE IF d = c THEN <<>> ELSE Stacks[d]
    BY <1>3
  <2>2. Stacks = [d \in Cores |-> Stacks[d]]
    BY DEF Stacks
  <2> QED
    BY <1>2, <2>1, <2>2
<1>5. Abstract!Becomes(c, <<>>, {})
  BY <1>4, NothingMore DEF Abstract!Becomes
<1> QED
  BY <1>1, <1>5 DEF Abstract!Stray

LEMMA StrayImplements ==
    ASSUME StackInv, NEW c \in Cores, c \in broken, Execute(c)
    PROVE  [Abstract!Next]_(Abstract!vars)
<1>1. pc[c] = "run"
  BY DEF Execute, Load, Push, PushFails, Pop, PopFails, StackType,
         StackTypeFails, CheckEmptyFails, Clear
<1> SUFFICES Abstract!Stray(c)
  BY <1>1, StrayNext
<1>2. CASE Load(c)
  <2>1. PICK v \in Loads : reg' = [reg EXCEPT ![c] = v]
    BY <1>2 DEF Load
  <2>2. v \in Words
    BY StacksAssumption
  <2> QED
    BY <1>2, <2>1, <2>2, StrayReg DEF Load
<1>3. CASE StackType(c)
  <2> DEFINE v == [reg[c] EXCEPT ![1] = mem[sp[c]]]
  <2>1. sp[c] \in Lowest(c) .. Top(c)
    <3>1. sp[c] \in Lowest(c) .. Top(c) + 1 /\ Lowest(c) \in Int /\ Top(c) \in Int
      BY SpRange, LowestIs
    <3> QED
      BY <1>3, <3>1 DEF StackType
  <2>2. mem[sp[c]] \in Byte /\ reg[c] \in [1 .. Word -> Byte]
    BY <2>1, LowestIs DEF StackInv, TypeOK, Words
  <2>3. v \in Words
    BY <2>2 DEF Words
  <2>4. reg' = [reg EXCEPT ![c] = v]
    BY <1>3 DEF StackType
  <2> HIDE DEF v
  <2> QED
    BY <1>3, <2>3, <2>4, StrayReg DEF StackType
<1>4. ASSUME NEW k \in Kinds, Push(c, k) PROVE Abstract!Stray(c)
  <2> DEFINE S == IF k = "byte" /\ ~HasRoom(c) THEN Under(c) ELSE {}
  <2>1. /\ StepOf(c) /\ mem' \in [Addresses -> Byte]
        /\ UNCHANGED <<reg, pc, error>> /\ Harms(c, S)
    BY <1>4, PushIs DEF Push
  <2>2. S \in {{}, Abstract!Under(c)}
    BY DEF Under, Abstract!Under
  <2> HIDE DEF S
  <2>3. broken' = Abstract!Harmed(c, S) /\ c \in broken'
    BY <2>1, HarmedIs DEF Harms
  <2>4. Abstract!Becomes(c, <<>>, S)
    BY <2>1, <2>3, BecomesIs
  <2> QED
    BY <2>1, <2>2, <2>4 DEF Abstract!Stray
<1>5. ASSUME NEW k \in Kinds, Pop(c, k) PROVE Abstract!Stray(c)
  <2>1. /\ reg' = [reg EXCEPT ![c] = Popped(c, k)] /\ Popped(c, k) \in Words
        /\ Harms(c, {}) /\ mem' = mem /\ UNCHANGED <<pc, motherSp, copied, error>>
        /\ \A d \in Cores \ {c} : sp'[d] = sp[d]
        /\ mem \in [Addresses -> Byte]
    BY <1>5, PopTypes DEF Pop, StackInv, TypeOK
  <2>2. broken' = Abstract!Harmed(c, {}) /\ c \in broken' /\ StepOf(c)
    BY <2>1, HarmedIs, QuietIs DEF Harms
  <2>3. Abstract!Becomes(c, <<>>, {})
    BY <2>1, <2>2, BecomesIs
  <2>4. Popped(c, k) \in [1 .. Word -> 0 .. 2]
    BY <2>1 DEF Words, Byte
  <2> QED
    BY <2>1, <2>3, <2>4 DEF Abstract!Stray
<1>6. CASE Clear(c)
  <2>1. Abstract!Becomes(c, <<>>, {}) /\ UNCHANGED <<reg, pc, error>>
    BY <1>6, ClearIs
  <2> QED
    BY <2>1 DEF Abstract!Stray
<1>7. ASSUME NEW why \in Errors, Die(c, why) PROVE Abstract!Stray(c)
  BY <1>1, <1>7, DeathIs, SameErrors DEF Abstract!Stray
<1>8. ASSUME NEW k \in Kinds, PushFails(c, k) PROVE Abstract!Stray(c)
  BY <1>7, <1>8 DEF PushFails, Errors
<1>9. ASSUME NEW k \in Kinds, PopFails(c, k) PROVE Abstract!Stray(c)
  BY <1>7, <1>9 DEF PopFails, Errors
<1>10. CASE StackTypeFails(c)
  BY <1>7, <1>10 DEF StackTypeFails, Errors
<1>11. CASE CheckEmptyFails(c)
  BY <1>7, <1>11 DEF CheckEmptyFails, Errors
<1> QED
  BY <1>2, <1>3, <1>4, <1>5, <1>6, <1>8, <1>9, <1>10, <1>11 DEF Execute

\* A new thread, its copy and its end.
LEMMA StartImplements ==
    ASSUME StackInv, NEW c \in Children, Start(c)
    PROVE  [Abstract!Next]_(Abstract!vars)
<1>1. /\ c \in Cores \ {0} /\ 0 \in Cores
      /\ pc[0] = "run" /\ pc[c] = "off"
      /\ motherSp' = [motherSp EXCEPT ![c] = sp[0]]
      /\ sp' = [sp EXCEPT ![c] = Top(c) - (Top(0) - sp[0])]
      /\ \E v \in Loads : reg' = [reg EXCEPT ![c] = v]
      /\ pc' = [pc EXCEPT ![c] = "copy"]
      /\ broken' = IF 0 \in broken THEN broken \cup {c} ELSE broken \ {c}
      /\ UNCHANGED <<mem, error>>
      /\ pc'[c] = "copy" /\ motherSp'[c] = sp[0]
  BY FirstStack DEF Start, Children, StackInv, TypeOK
<1>2. ASSUME NEW d \in Cores \ {c} PROVE StackOf(d)' = StackOf(d)
  <2>1. /\ pc'[d] = pc[d] /\ sp'[d] = sp[d] /\ motherSp'[d] = motherSp[d]
        /\ d \in broken <=> d \in broken'
    BY <1>1 DEF StackInv, TypeOK
  <2> QED
    BY <1>1, <2>1 DEF StackOf
<1>3. StackOf(c)' = Stacks[0]
  <2>1. Stacks[0] = StackOf(0)
    BY <1>1 DEF Stacks
  <2>2. CASE 0 \in broken
    BY <1>1, <2>1, <2>2, StackOfIs, StackOfNext
  <2>3. CASE 0 \notin broken
    BY <1>1, <2>1, <2>3, StackOfIs, StackOfNext
  <2> QED
    BY <2>2, <2>3
<1>4. Stacks' = [Stacks EXCEPT ![c] = Stacks[0]]
  BY <1>1, <1>2, <1>3, OneStackChanges
<1>5. Abstract!Start(c)
  BY <1>1, <1>4 DEF Abstract!Start
<1> QED
  BY <1>1, <1>5 DEF Abstract!Next

LEMMA CopyImplements ==
    ASSUME StackInv, NEW c \in Children, CopyByte(c)
    PROVE  [Abstract!Next]_(Abstract!vars)
<1>1. /\ c \in Cores /\ pc[c] = "copy" /\ StepOf(c)
      /\ mem' \in [Addresses -> Byte]
      /\ UNCHANGED <<sp, reg, pc, motherSp, error>>
  BY CopyIs
<1>2. CASE c \in broken
  <2> DEFINE S == IF Top(c) - copied[c] < Bottom(c) THEN Under(c) ELSE {}
  <2>1. Harms(c, S)
    BY DEF CopyByte
  <2>2. S \in {{}, Abstract!Under(c)}
    BY DEF Under, Abstract!Under
  <2> HIDE DEF S
  <2>3. broken' = Abstract!Harmed(c, S) /\ c \in broken'
    BY <1>1, <1>2, <2>1, HarmedIs DEF Harms
  <2>4. Abstract!Becomes(c, <<>>, S)
    BY <1>1, <2>3, BecomesIs
  <2>5. Abstract!Stray(c)
    BY <1>1, <2>2, <2>4 DEF Abstract!Stray
  <2> QED
    BY <1>1, <1>2, <2>5, StrayNext
<1>3. CASE c \notin broken
  <2>1. /\ broken' = broken /\ SameAsMothers(c) /\ 0 \notin broken
        /\ sp[0] \in Bottom(0) .. Top(0) /\ 0 \in Cores /\ c # 0
    BY <1>3, CopyIs
  <2>2. \A d \in Cores : d # c => StackOf(d)' = StackOf(d)
    BY <1>1, <2>1, OthersHold, StackOfIs
  <2>3. StackOf(c)' = StackOf(c)
    <3>1. \A a \in sp[0] .. Top(0) : a \in Bottom(0) .. Top(0)
      BY <2>1, StackInMemory
    <3>2. \A a \in sp[0] .. Top(0) : mem'[a] = mem[a]
      BY <1>1, <2>1, <3>1, WholeKept
    <3>3. Elements(mem', 0)[sp[0]] = Elements(mem, 0)[sp[0]]
      BY <1>1, <2>1, <3>2, SameElements DEF StackInv, TypeOK
    <3>4. motherSp[c] = sp[0] /\ motherSp'[c] = sp[0] /\ pc'[c] = "copy"
      BY <1>1, <2>1 DEF SameAsMothers
    <3> QED
      BY <1>1, <1>3, <2>1, <3>3, <3>4, StackOfIs, StackOfNext
  <2>4. Stacks' = Stacks
    BY <2>2, <2>3 DEF Stacks
  <2> QED
    BY <1>1, <2>1, <2>4 DEF Abstract!vars
<1> QED
  BY <1>2, <1>3

LEMMA BeginImplements ==
    ASSUME StackInv, NEW c \in Children, Begin(c)
    PROVE  [Abstract!Next]_(Abstract!vars)
<1>1. /\ c \in Cores \ {0} /\ 0 \in Cores
      /\ pc[c] = "copy" /\ copied[c] = ToCopy(c)
      /\ pc' = [pc EXCEPT ![c] = "run"] /\ pc'[c] = "run"
      /\ UNCHANGED <<mem, sp, reg, error, broken>>
      /\ mem \in [Addresses -> Byte]
      /\ \A d \in Cores \ {c} : pc'[d] = pc[d] /\ motherSp'[d] = motherSp[d]
  BY FirstStack DEF Begin, Children, StackInv, TypeOK
<1>2. ASSUME c \notin broken
      PROVE  StackOf(c)' = StackOf(c)
  <2>1. /\ sp[c] = Top(c) - (Top(0) - motherSp[c])
        /\ motherSp[c] = sp[0] /\ 0 \notin broken
        /\ \A i \in 0 .. StackSize - 1 :
              i < copied[c] => mem[Top(c) - i] = mem[Top(0) - i]
    BY <1>1, <1>2 DEF StackInv, SameAsMothers
  <2>2. /\ sp[0] \in Int /\ Top(0) \in Int /\ Top(c) \in Int
        /\ sp[0] <= Top(0) /\ Top(0) - sp[0] \in 0 .. StackSize - 1
        /\ StackSize \in Nat
    BY <1>1, <2>1, SpRange, FirstStack, StackInMemory, StacksAssumption
  <2> DEFINE n == Top(0) - sp[0]
  <2>3. \A j \in 1 .. n : mem[Top(0) - j] = mem[Top(c) - j]
    <3> SUFFICES ASSUME NEW j \in 1 .. n PROVE mem[Top(0) - j] = mem[Top(c) - j]
      OBVIOUS
    <3>1. motherSp[c] # Top(0)
      BY <2>1, <2>2
    <3>2. copied[c] = n + 1
      BY <1>1, <2>1, <3>1 DEF ToCopy
    <3>3. j \in 0 .. StackSize - 1 /\ j < copied[c]
      BY <2>2, <3>2
    <3> QED
      BY <2>1, <3>3
  <2>4. Elements(mem, 0)[Top(0) - n] = Elements(mem, c)[Top(c) - n]
    <3> HIDE DEF n
    <3>1. n \in 0 .. StackSize - 1
      BY <2>2 DEF n
    <3> QED
      BY <1>1, <2>3, <3>1, SameBytes
  <2>5. Top(0) - n = motherSp[c] /\ Top(c) - n = sp[c]
    BY <2>1, <2>2
  <2>6. Elements(mem, 0)[motherSp[c]] = Elements(mem, c)[sp[c]]
    BY <2>4, <2>5
  <2> QED
    BY <1>1, <1>2, <2>6, StackOfIs, StackOfNext
<1>3. c \in broken => StackOf(c)' = StackOf(c)
  BY <1>1, StackOfIs, StackOfNext
<1>4. \A d \in Cores \ {c} : StackOf(d)' = StackOf(d)
  BY <1>1 DEF StackOf
<1>5. Stacks' = Stacks
  BY <1>2, <1>3, <1>4 DEF Stacks
<1>6. Abstract!Begin(c)
  BY <1>1, <1>5 DEF Abstract!Begin
<1> QED
  BY <1>1, <1>6 DEF Abstract!Next

LEMMA EndImplements ==
    ASSUME StackInv, NEW c \in Children, End(c)
    PROVE  [Abstract!Next]_(Abstract!vars)
<1>1. /\ c \in Cores \ {0} /\ pc[c] = "run"
      /\ pc' = [pc EXCEPT ![c] = "off"] /\ pc'[c] = "off"
      /\ \E v \in Loads : reg' = [reg EXCEPT ![c] = v]
      /\ UNCHANGED <<mem, motherSp, copied, error, broken>>
      /\ \A d \in Cores \ {c} : pc'[d] = pc[d] /\ sp'[d] = sp[d]
  <2>1. \E v \in Loads : v = CHOOSE x \in Loads : TRUE
    BY StacksAssumption
  <2> QED
    BY <2>1 DEF End, Children, StackInv, TypeOK
<1>2. ASSUME NEW d \in Cores \ {c} PROVE StackOf(d)' = StackOf(d)
  BY <1>1 DEF StackOf
<1>3. StackOf(c)' = <<>>
  BY <1>1, StackOfNext
<1>4. Stacks' = [Stacks EXCEPT ![c] = <<>>]
  BY <1>1, <1>2, <1>3, OneStackChanges
<1>5. Abstract!End(c)
  BY <1>1, <1>4 DEF Abstract!End
<1> QED
  BY <1>1, <1>5 DEF Abstract!Next

LEMMA InitImplements == Init => Abstract!Init
<1> SUFFICES ASSUME Init PROVE Abstract!Init
  OBVIOUS
<1>1. mem \in [Addresses -> Byte]
  BY DEF Init, Byte
<1>2. \A c \in Cores : StackOf(c) = <<>>
  <2> SUFFICES ASSUME NEW c \in Cores PROVE StackOf(c) = <<>>
    OBVIOUS
  <2>1. sp[c] = Top(c) /\ pc[c] \in {"run", "off"} /\ c \notin broken
    BY DEF Init
  <2>2. Elements(mem, c)[Top(c)] = <<>>
    BY <1>1, EmptyElements
  <2> QED
    BY <2>1, <2>2, StackOfIs
<1>3. Stacks = [c \in Cores |-> <<>>]
  BY <1>2 DEF Stacks
<1> QED
  BY <1>3 DEF Init, Abstract!Init, NoError, Abstract!None

LEMMA StepImplements ==
    ASSUME StackInv, [Next]_vars
    PROVE  [Abstract!Next]_(Abstract!vars)
<1>1. ASSUME NEW c \in Cores, Execute(c) PROVE [Abstract!Next]_(Abstract!vars)
  <2>1. CASE c \in broken
    BY <1>1, <2>1, StrayImplements
  <2>2. CASE c \notin broken
    <3>1. c \in Cores \ broken
      BY <2>2
    <3>2. ASSUME Clear(c) PROVE [Abstract!Next]_(Abstract!vars)
      <4>1. /\ Abstract!Becomes(c, <<>>, {})
            /\ UNCHANGED <<reg, pc, error>> /\ pc[c] = "run"
        BY <3>2, ClearIs
      <4>2. Abstract!Clear(c)
        BY <4>1 DEF Abstract!Clear
      <4> QED
        BY <3>1, <4>1, <4>2 DEF Abstract!Next
    <3> QED
      BY <1>1, <3>1, <3>2, LoadImplements, TellImplements, PopImplements,
         PushImplements, DeathImplements DEF Execute
  <2> QED
    BY <2>1, <2>2
<1>2. CASE UNCHANGED vars
  BY <1>2 DEF vars, Abstract!vars, Stacks, StackOf
<1> QED
  BY <1>1, <1>2, StartImplements, CopyImplements, BeginImplements, EndImplements
     DEF Next

\* For every number and size of stacks, and whatever the threads do: a thread
\* whose stack is whole pops what it pushed, last in first out, with its type,
\* dies where PrivateStacks lets it die, and begins with what its mother had at
\* the start, although the copy is made byte by byte out of the mother's stack
\* while other threads run.  What is lost by a byte pushed without room or by a
\* mother who does not wait is lost to the stacks PrivateStacks names: the
\* pusher's, the one below and the copies being made, and no others.
THEOREM StacksArePrivate == Spec => ImplementsStacks
<1>1. StackInv /\ [Next]_vars => [Abstract!Next]_(Abstract!vars)
  BY StepImplements
<1>2. Init => StackInv
  BY InitInv
<1>3. StackInv /\ [Next]_vars => StackInv'
  BY StepInv
<1> QED
  BY <1>1, <1>2, <1>3, InitImplements, PTL DEF Spec, ImplementsStacks, Abstract!Spec
=============================================================================
