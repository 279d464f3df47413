-------------------------- MODULE BenParserProofs --------------------------
(***************************************************************************)
(* Theorems about ben_coding, for messages of every length: whatever the   *)
(* nesting, both stacks and the status describe the containers that are    *)
(* open, a well-formed message is accepted with its last token, and the    *)
(* tree that is built holds what the message says.                         *)
(***************************************************************************)
EXTENDS BenParser, SequenceTheorems, FiniteSetTheorems, LeastNumber, TLAPS

Sent      == [tok : Token, in : Nat, key : Nat]
Container == [at : Nat, letter : {"d", "l"}, key : Nat]
Element   == [type : {"DICT", "LIST_HEAD", "DICT_KEY", "DICT_VAL"},
              tok : Nat, val : Nat, next : Nat]

-----------------------------------------------------------------------------
(***************************************************************************)
(* Sequences.                                                              *)
(***************************************************************************)
\* A stack without its top.
LEMMA FrontIs ==
    ASSUME NEW S, NEW q \in Seq(S), q # << >>
    PROVE  /\ Front(q) \in Seq(S)
           /\ Len(q) \in Nat \ {0}
           /\ Len(Front(q)) = Len(q) - 1
           /\ \A i \in 1 .. Len(q) - 1 : Front(q)[i] = q[i]
           /\ Last(q) = q[Len(q)] /\ Last(q) \in S
<1>1. Len(q) \in Nat \ {0}
  BY EmptySeq
<1>2. \A i \in 1 .. Len(q) : q[i] \in S
  BY ElementOfSeq
<1>3. Front(q) \in Seq(S) /\ Len(Front(q)) = Len(q) - 1
  <2>1. 1 \in Int /\ Len(q) - 1 \in Int /\ \A i \in 1 .. Len(q) - 1 : q[i] \in S
    BY <1>1, <1>2
  <2>2. /\ SubSeq(q, 1, Len(q) - 1) \in Seq(S)
        /\ Len(SubSeq(q, 1, Len(q) - 1)) = IF 1 <= Len(q) - 1 THEN Len(q) - 1 - 1 + 1 ELSE 0
    BY <2>1, SubSeqProperties
  <2>3. \A k \in Nat \ {0} : (IF 1 <= k - 1 THEN k - 1 - 1 + 1 ELSE 0) = k - 1
    OBVIOUS
  <2>4. Len(SubSeq(q, 1, Len(q) - 1)) = Len(q) - 1
    BY <1>1, <2>2, <2>3, Zenon
  <2> QED
    BY <2>2, <2>4, Zenon DEF Front
<1>4. ASSUME NEW i \in 1 .. Len(q) - 1 PROVE Front(q)[i] = q[i]
  BY <1>1, <1>4 DEF Front
<1> QED
  BY <1>1, <1>2, <1>3, <1>4 DEF Last

\* A stack with one entry more.
LEMMA AppendIs ==
    ASSUME NEW S, NEW q \in Seq(S), NEW x \in S
    PROVE  /\ Append(q, x) \in Seq(S)
           /\ Len(Append(q, x)) = Len(q) + 1
           /\ \A i \in 1 .. Len(q) : Append(q, x)[i] = q[i]
           /\ Append(q, x)[Len(q) + 1] = x
OBVIOUS

-----------------------------------------------------------------------------
(***************************************************************************)
(* The array of elements.                                                  *)
(***************************************************************************)
\* An array of elements made from the first last tokens.
Array(e, last) ==
    /\ e \in Seq(Element)
    /\ \A i \in 1 .. Len(e) :
          /\ e[i].val <= Len(e) /\ e[i].next <= Len(e)
          /\ e[i].tok <= last
          /\ i < Len(e) => e[i].tok < e[i + 1].tok

\* An element never becomes another one: only what it points to changes.
Kept(e, old) ==
    /\ Len(old) <= Len(e)
    /\ \A i \in 1 .. Len(old) : e[i].type = old[i].type /\ e[i].tok = old[i].tok

\* The fields of an element.
LEMMA FieldTypes ==
    ASSUME NEW x \in Element
    PROVE  /\ x.type \in {"DICT", "LIST_HEAD", "DICT_KEY", "DICT_VAL"}
           /\ x.tok \in Nat /\ x.val \in Nat /\ x.next \in Nat
BY DEF Element

\* Setting a link of an element changes nothing else of it.
LEMMA NewFields ==
    ASSUME NEW x \in Element, NEW k \in Nat
    PROVE  /\ [x EXCEPT !.val = k] \in Element /\ [x EXCEPT !.next = k] \in Element
           /\ [x EXCEPT !.val = k].type = x.type /\ [x EXCEPT !.next = k].type = x.type
           /\ [x EXCEPT !.val = k].tok = x.tok /\ [x EXCEPT !.next = k].tok = x.tok
           /\ [x EXCEPT !.val = k].val = k /\ [x EXCEPT !.next = k].val = x.val
           /\ [x EXCEPT !.val = k].next = x.next /\ [x EXCEPT !.next = k].next = k
BY DEF Element

\* A new element at the end of the array.
LEMMA NewElement ==
    ASSUME NEW e, NEW last \in Nat, Array(e, last),
           NEW t \in {"DICT", "LIST_HEAD", "DICT_KEY", "DICT_VAL"}
    PROVE  LET x == [type |-> t, tok |-> last + 1, val |-> 0, next |-> 0]
           IN  /\ Array(Append(e, x), last + 1)
               /\ Kept(Append(e, x), e)
               /\ Len(Append(e, x)) = Len(e) + 1
               /\ Append(e, x)[Len(e) + 1] = x
<1> DEFINE x == [type |-> t, tok |-> last + 1, val |-> 0, next |-> 0]
           d == Append(e, x)
<1>1. e \in Seq(Element) /\ x \in Element
  BY DEF Array, Element
<1>2. /\ d \in Seq(Element) /\ Len(d) = Len(e) + 1 /\ d[Len(e) + 1] = x
      /\ \A i \in 1 .. Len(e) : d[i] = e[i]
  BY <1>1, AppendIs
<1> HIDE DEF d
<1>3. x.tok = last + 1 /\ x.val = 0 /\ x.next = 0
  OBVIOUS
<1> HIDE DEF x
<1>4. ASSUME NEW i \in 1 .. Len(d)
      PROVE  /\ d[i].val <= Len(d) /\ d[i].next <= Len(d)
             /\ d[i].tok <= last + 1
             /\ i < Len(d) => d[i].tok < d[i + 1].tok
  <2>1. CASE i = Len(e) + 1
    BY <1>1, <1>2, <1>3, <2>1
  <2>2. CASE i \in 1 .. Len(e)
    <3>1. /\ e[i] \in Element /\ e[i].val <= Len(e) /\ e[i].next <= Len(e)
          /\ e[i].tok <= last /\ d[i] = e[i]
          /\ i < Len(e) => e[i].tok < e[i + 1].tok /\ d[i + 1] = e[i + 1]
      BY <1>1, <1>2, <2>2 DEF Array
    <3>2. e[i].tok \in Nat /\ e[i].val \in Nat /\ e[i].next \in Nat /\ Len(e) \in Nat
      BY <1>1, <3>1, FieldTypes
    <3>3. CASE i < Len(e)
      BY <1>2, <3>1, <3>2, <3>3
    <3>4. CASE i = Len(e)
      BY <1>2, <1>3, <3>1, <3>2, <3>4
    <3> QED
      BY <2>2, <3>2, <3>3, <3>4
  <2> QED
    BY <1>1, <1>2, <2>1, <2>2
<1>5. Array(d, last + 1)
  BY <1>2, <1>4 DEF Array
<1>6. Kept(d, e)
  BY <1>1, <1>2 DEF Kept
<1> QED
  BY <1>2, <1>5, <1>6 DEF d, x

\* An array that only differs in what its elements point to.
LEMMA SameElements ==
    ASSUME NEW e, NEW last \in Nat, Array(e, last), NEW d \in Seq(Element), Len(d) = Len(e),
           \A i \in 1 .. Len(e) : /\ d[i].type = e[i].type /\ d[i].tok = e[i].tok
                                  /\ d[i].val <= Len(e) /\ d[i].next <= Len(e)
    PROVE  Array(d, last) /\ Kept(d, e)
<1>1. Kept(d, e)
  BY DEF Kept, Array
<1>2. ASSUME NEW i \in 1 .. Len(e), i < Len(e) PROVE d[i].tok < d[i + 1].tok
  <2>1. i + 1 \in 1 .. Len(e)
    BY <1>2 DEF Array
  <2> QED
    BY <1>2, <2>1 DEF Array
<1>3. Array(d, last)
  BY <1>2 DEF Array
<1> QED
  BY <1>1, <1>3

\* An element gets its value.
LEMMA ValueSet ==
    ASSUME NEW e, NEW last \in Nat, Array(e, last),
           NEW k \in 1 .. Len(e), NEW x \in 1 .. Len(e)
    PROVE  /\ Array([e EXCEPT ![k].val = x], last)
           /\ Kept([e EXCEPT ![k].val = x], e)
           /\ Len([e EXCEPT ![k].val = x]) = Len(e)
<1> DEFINE y == [e[k] EXCEPT !.val = x]
           d == [e EXCEPT ![k] = y]
<1>1. e \in Seq(Element) /\ e[k] \in Element /\ x \in Nat
  BY DEF Array
<1>2. y \in Element /\ y.type = e[k].type /\ y.tok = e[k].tok /\ y.val = x /\ y.next = e[k].next
  BY <1>1 DEF Element
<1>3. [e EXCEPT ![k].val = x] = d
  OBVIOUS
<1> HIDE DEF y
<1>4. d \in Seq(Element) /\ Len(d) = Len(e)
      /\ \A i \in 1 .. Len(e) : d[i] = IF i = k THEN y ELSE e[i]
  BY <1>1, <1>2, ExceptSeq
<1> HIDE DEF d
<1>5. \A i \in 1 .. Len(e) : /\ d[i].type = e[i].type /\ d[i].tok = e[i].tok
                             /\ d[i].val <= Len(e) /\ d[i].next <= Len(e)
  BY <1>1, <1>2, <1>4 DEF Array
<1> QED
  BY <1>3, <1>4, <1>5, SameElements

\* An element is put in front of a chain.
LEMMA ChainGrows ==
    ASSUME NEW e, NEW last \in Nat, Array(e, last),
           NEW head \in 1 .. Len(e), NEW x \in 1 .. Len(e)
    PROVE  /\ Array(Chained(e, head, x), last)
           /\ Kept(Chained(e, head, x), e)
           /\ Len(Chained(e, head, x)) = Len(e)
<1> DEFINE d == Chained(e, head, x)
           a == [e[x] EXCEPT !.next = e[head].val]
           b == [e[head] EXCEPT !.val = x]
<1>1. e \in Seq(Element) /\ e[head] \in Element /\ e[x] \in Element /\ Len(e) \in Nat
  BY DEF Array
<1>2. /\ a \in Element /\ a.type = e[x].type /\ a.tok = e[x].tok
      /\ a.val = e[x].val /\ a.next = e[head].val
      /\ b \in Element /\ b.type = e[head].type /\ b.tok = e[head].tok
      /\ b.val = x /\ b.next = e[head].next
  <2>1. e[head].val \in Nat /\ x \in Nat
    BY <1>1, FieldTypes
  <2> DEFINE y == e[x]
             z == e[head]
             k == z.val
  <2>2. y \in Element /\ z \in Element /\ k \in Nat
    BY <1>1, <2>1
  <2> HIDE DEF y, z, k
  <2>3. LET w == [y EXCEPT !.next = k]
        IN  w \in Element /\ w.type = y.type /\ w.tok = y.tok /\ w.val = y.val /\ w.next = k
    BY <2>2, NewFields
  <2>4. LET w == [z EXCEPT !.val = x]
        IN  w \in Element /\ w.type = z.type /\ w.tok = z.tok /\ w.val = x /\ w.next = z.next
    BY <2>1, <2>2, NewFields
  <2> QED
    BY <2>3, <2>4 DEF y, z, k
<1>3. d = [i \in 1 .. Len(e) |-> IF i = x THEN a ELSE IF i = head THEN b ELSE e[i]]
  BY DEF Chained
<1> HIDE DEF a, b, d
<1>4. \A i \in 1 .. Len(e) : d[i] = (IF i = x THEN a ELSE IF i = head THEN b ELSE e[i])
  BY <1>3
<1>5. d \in Seq(Element) /\ Len(d) = Len(e)
  <2>1. d \in [1 .. Len(e) -> Element]
    BY <1>1, <1>2, <1>3
  <2> QED
    BY <1>1, <2>1
<1>6. \A i \in 1 .. Len(e) : /\ d[i].type = e[i].type /\ d[i].tok = e[i].tok
                             /\ d[i].val <= Len(e) /\ d[i].next <= Len(e)
  BY <1>1, <1>2, <1>4 DEF Array
<1> QED
  BY <1>5, <1>6, SameElements DEF d

\* An array lasts while more is read, and what is kept twice is kept.
LEMMA ArrayLasts ==
    ASSUME NEW e, NEW last \in Nat, Array(e, last)
    PROVE  Array(e, last + 1) /\ Kept(e, e)
<1>1. e \in Seq(Element) /\ Len(e) \in Nat
  BY DEF Array
<1>2. \A i \in 1 .. Len(e) : e[i].tok \in Nat
  BY <1>1, ElementOfSeq, FieldTypes
<1> QED
  BY <1>1, <1>2 DEF Array, Kept

\* Arrays that keep their old elements, one step after the other.
LEMMA KeptTwice ==
    ASSUME NEW d, NEW e, NEW old, Len(old) \in Nat, Len(e) \in Nat, Len(d) \in Nat,
           Kept(d, e), Kept(e, old)
    PROVE  Kept(d, old)
BY DEF Kept

-----------------------------------------------------------------------------
(***************************************************************************)
(* The stack of elements.                                                  *)
(***************************************************************************)
\* The key that waits above container i of op, a stack of open containers of
\* the message rd: Waiting of BenParser, 0 when there is none.
Waits(op, rd, i) ==
    IF op[i].key # 0 THEN op[i].key
    ELSE IF i < Len(op) THEN rd[op[i + 1].at].key ELSE 0

Above(op, rd, i) == IF Waits(op, rd, i) = 0 THEN 0 ELSE 1

TypeOf(letter) == IF letter = "d" THEN "DICT" ELSE "LIST_HEAD"

Stacks(op, rd, cx, el) ==
    /\ op \in Seq(Container) /\ rd \in Seq(Sent)
    /\ el \in Seq(Element) /\ cx \in Seq(1 .. Len(el))

\* Container i stands at place f[i] of the stack cx, with the key that waits
\* above it, and f[Len(op) + 1] is the first free place.
Laid(f, op, rd, cx, el) ==
    /\ Stacks(op, rd, cx, el)
    /\ f \in [1 .. Len(op) + 1 -> Nat \ {0}]
    /\ f[1] = 1 /\ f[Len(op) + 1] = Len(cx) + 1
    /\ \A i, j \in 1 .. Len(op) + 1 : i < j => f[i] < f[j]
    /\ \A i \in 1 .. Len(op) :
          /\ f[i + 1] = f[i] + 1 + Above(op, rd, i)
          /\ op[i].at \in 1 .. Len(rd)
          /\ el[cx[f[i]]].tok = op[i].at
          /\ el[cx[f[i]]].type = TypeOf(op[i].letter)
          /\ Waits(op, rd, i) # 0 =>
                /\ op[i].letter = "d"
                /\ el[cx[f[i] + 1]].tok = Waits(op, rd, i)
                /\ el[cx[f[i] + 1]].type = "DICT_KEY"
          /\ i < Len(op) => /\ op[i].key = 0
                            /\ op[i].letter = "d" => Waits(op, rd, i) # 0

\* What the definition says of one container, and of two places.
LEMMA LaidAt ==
    ASSUME NEW op, NEW rd, NEW el, NEW cx, NEW f, Laid(f, op, rd, cx, el),
           NEW i \in 1 .. Len(op)
    PROVE  /\ f[i] \in Nat \ {0} /\ f[i + 1] \in Nat \ {0}
           /\ f[i + 1] = f[i] + 1 + Above(op, rd, i)
           /\ op[i].at \in 1 .. Len(rd)
           /\ el[cx[f[i]]].tok = op[i].at
           /\ el[cx[f[i]]].type = TypeOf(op[i].letter)
           /\ Waits(op, rd, i) # 0 =>
                 /\ op[i].letter = "d"
                 /\ el[cx[f[i] + 1]].tok = Waits(op, rd, i)
                 /\ el[cx[f[i] + 1]].type = "DICT_KEY"
           /\ i < Len(op) => /\ op[i].key = 0
                             /\ op[i].letter = "d" => Waits(op, rd, i) # 0
<1>1. i \in 1 .. Len(op) + 1 /\ i + 1 \in 1 .. Len(op) + 1
  <2>1. Len(op) \in Nat
    BY DEF Laid, Stacks
  <2> QED
    BY <2>1
<1>2. f[i] \in Nat \ {0} /\ f[i + 1] \in Nat \ {0}
  BY <1>1 DEF Laid
<1> QED
  BY <1>2 DEF Laid

\* The containers stand on the stack of elements in the order they were opened.
LEMMA PlacesRise ==
    ASSUME NEW op, NEW rd, NEW el, NEW cx, NEW f, Laid(f, op, rd, cx, el),
           NEW i \in 1 .. Len(op) + 1, NEW j \in 1 .. Len(op) + 1
    PROVE  /\ f[i] \in Nat \ {0} /\ f[j] \in Nat \ {0}
           /\ i < j => f[i] < f[j]
           /\ i <= j => f[i] <= f[j]
<1>1. f[i] \in Nat \ {0} /\ f[j] \in Nat \ {0} /\ (i < j => f[i] < f[j])
  BY DEF Laid
<1>2. Len(op) \in Nat
  BY DEF Laid, Stacks
<1> QED
  BY <1>1, <1>2

\* The places are on the stack, and the entries there are elements.
LEMMA PlacesOnStack ==
    ASSUME NEW op, NEW rd, NEW el, NEW cx, NEW f, Laid(f, op, rd, cx, el),
           NEW i \in 1 .. Len(op)
    PROVE  /\ f[i] \in 1 .. Len(cx) /\ cx[f[i]] \in 1 .. Len(el)
           /\ Waits(op, rd, i) # 0 => f[i] + 1 \in 1 .. Len(cx) /\ cx[f[i] + 1] \in 1 .. Len(el)
           /\ f[i] + Above(op, rd, i) <= Len(cx)
<1>1. Len(op) \in Nat /\ Len(cx) \in Nat /\ cx \in Seq(1 .. Len(el))
  BY DEF Laid, Stacks
<1>2. i + 1 \in 1 .. Len(op) + 1 /\ Len(op) + 1 \in 1 .. Len(op) + 1 /\ i + 1 <= Len(op) + 1
  BY <1>1
<1>3. f[i + 1] <= f[Len(op) + 1]
  BY <1>2, PlacesRise
<1>4. f[i] \in Nat \ {0} /\ f[i + 1] = f[i] + 1 + Above(op, rd, i)
  BY LaidAt
<1>5. f[Len(op) + 1] = Len(cx) + 1
  BY DEF Laid
<1>6. Above(op, rd, i) \in {0, 1} /\ (Waits(op, rd, i) # 0 => Above(op, rd, i) = 1)
  BY DEF Above
<1>7. f[i] + Above(op, rd, i) <= Len(cx)
  BY <1>1, <1>3, <1>4, <1>5, <1>6
<1>8. f[i] \in 1 .. Len(cx) /\ (Waits(op, rd, i) # 0 => f[i] + 1 \in 1 .. Len(cx))
  <2> DEFINE g == f[i]
             a == Above(op, rd, i)
  <2>1. g \in Nat \ {0} /\ a \in {0, 1} /\ (Waits(op, rd, i) # 0 => a = 1) /\ g + a <= Len(cx)
    BY <1>4, <1>6, <1>7
  <2> HIDE DEF g, a
  <2>2. g \in 1 .. Len(cx) /\ (a = 1 => g + 1 \in 1 .. Len(cx))
    BY <1>1, <2>1
  <2> QED
    BY <2>1, <2>2 DEF g
<1> QED
  BY <1>1, <1>7, <1>8, ElementOfSeq

\* rd is old with one token more.
Longer(rd, old) ==
    /\ rd \in Seq(Sent) /\ Len(rd) = Len(old) + 1
    /\ \A p \in 1 .. Len(old) : rd[p] = old[p]

\* What the entries of container i say, where they were copied to cx2.
Same(f, op, rd, cx, rd2, cx2, el2, i) ==
    /\ op[i].at \in 1 .. Len(rd2) /\ rd2[op[i].at] = rd[op[i].at]
    /\ cx2[f[i]] = cx[f[i]] => /\ el2[cx2[f[i]]].tok = op[i].at
                               /\ el2[cx2[f[i]]].type = TypeOf(op[i].letter)
    /\ Waits(op, rd, i) # 0 /\ cx2[f[i] + 1] = cx[f[i] + 1] =>
          /\ el2[cx2[f[i] + 1]].tok = Waits(op, rd, i)
          /\ el2[cx2[f[i] + 1]].type = "DICT_KEY"

\* The entries of a container stay the same while the array and the message grow.
LEMMA EntriesStay ==
    ASSUME NEW op, NEW rd, NEW el, NEW cx, NEW f, Laid(f, op, rd, cx, el),
           NEW i \in 1 .. Len(op),
           NEW rd2, Longer(rd2, rd), NEW el2, Kept(el2, el), NEW cx2
    PROVE  Same(f, op, rd, cx, rd2, cx2, el2, i)
<1>1. cx[f[i]] \in 1 .. Len(el) /\ (Waits(op, rd, i) # 0 => cx[f[i] + 1] \in 1 .. Len(el))
  BY PlacesOnStack
<1>2. \A k \in 1 .. Len(el) : el2[k].tok = el[k].tok /\ el2[k].type = el[k].type
  BY DEF Kept
<1>3. Len(rd) \in Nat /\ Len(rd2) = Len(rd) + 1 /\ \A p \in 1 .. Len(rd) : rd2[p] = rd[p]
  BY DEF Longer, Laid, Stacks
<1>4. /\ op[i].at \in 1 .. Len(rd) /\ el[cx[f[i]]].tok = op[i].at
      /\ el[cx[f[i]]].type = TypeOf(op[i].letter)
      /\ Waits(op, rd, i) # 0 => /\ el[cx[f[i] + 1]].tok = Waits(op, rd, i)
                                 /\ el[cx[f[i] + 1]].type = "DICT_KEY"
  BY LaidAt
<1>5. op[i].at \in 1 .. Len(rd2) /\ rd2[op[i].at] = rd[op[i].at]
  BY <1>3, <1>4
<1> QED
  BY <1>1, <1>2, <1>4, <1>5 DEF Same

\* Of op the first m containers are left, where no key waits, and of cx what
\* stands up to the last of them.
Cut(f, m, op, cx, op2, cx2) ==
    /\ Len(op2) = m
    /\ \A i \in 1 .. m : /\ op2[i].at = op[i].at /\ op2[i].letter = op[i].letter
                         /\ op2[i].key = 0
    /\ Len(cx2) = f[m]
    /\ \A k \in 1 .. f[m] : cx2[k] = cx[k]

\* The stack is cut off above container m, whose value is complete: what is
\* left describes the first m containers.
LEMMA CutOff ==
    ASSUME NEW op, NEW rd, NEW el, NEW cx, NEW f, Laid(f, op, rd, cx, el),
           NEW m \in 1 .. Len(op),
           NEW op2, NEW rd2, NEW el2, NEW cx2, Stacks(op2, rd2, cx2, el2),
           Longer(rd2, rd), Kept(el2, el), Cut(f, m, op, cx, op2, cx2)
    PROVE  \E g : Laid(g, op2, rd2, cx2, el2)
<1> USE DEF Cut
<1> DEFINE g == [i \in 1 .. m + 1 |-> IF i = m + 1 THEN f[m] + 1 ELSE f[i]]
<1>1. Len(op) \in Nat /\ m \in Nat \ {0} /\ m <= Len(op)
  BY DEF Laid, Stacks
<1>2. \A i \in 1 .. m : i \in 1 .. Len(op) /\ f[i] \in Nat \ {0}
  BY <1>1, LaidAt
<1>3. \A i \in 1 .. m : g[i] = f[i]
  BY <1>1
<1>4. g[m + 1] = f[m] + 1 /\ g \in [1 .. m + 1 -> Nat \ {0}]
  BY <1>1, <1>2
<1> HIDE DEF g
<1>5. ASSUME NEW i \in 1 .. m, NEW j \in 1 .. m
      PROVE  i < j => f[i] < f[j]
  <2>1. i \in 1 .. Len(op) + 1 /\ j \in 1 .. Len(op) + 1
    BY <1>1
  <2> QED
    BY <2>1, PlacesRise
<1>6. ASSUME NEW i \in 1 .. m
      PROVE  f[i] \in 1 .. f[m] /\ (i < m => f[i] + 1 + Above(op, rd, i) \in 1 .. f[m])
  <2>1. i \in 1 .. Len(op) + 1 /\ i + 1 \in 1 .. Len(op) + 1 /\ m \in 1 .. Len(op) + 1
    BY <1>1
  <2>2. f[i] <= f[m] /\ f[i] \in Nat \ {0} /\ f[m] \in Nat \ {0}
    BY <1>1, <2>1, PlacesRise
  <2>3. i < m => f[i + 1] <= f[m] /\ f[i + 1] \in Nat \ {0}
    <3>1. i < m => i + 1 <= m
      BY <1>1
    <3> QED
      BY <2>1, <3>1, PlacesRise
  <2>4. f[i + 1] = f[i] + 1 + Above(op, rd, i)
    BY <1>2, LaidAt
  <2> QED
    BY <2>2, <2>3, <2>4
<1>7. ASSUME NEW i \in 1 .. m
      PROVE  /\ el2[cx2[f[i]]].tok = op[i].at
             /\ el2[cx2[f[i]]].type = TypeOf(op[i].letter)
             /\ op[i].at \in 1 .. Len(rd2) /\ rd2[op[i].at] = rd[op[i].at]
             /\ Waits(op, rd, i) # 0 /\ i < m =>
                   /\ el2[cx2[f[i] + 1]].tok = Waits(op, rd, i)
                   /\ el2[cx2[f[i] + 1]].type = "DICT_KEY"
  <2>1. cx2[f[i]] = cx[f[i]]
    BY <1>6
  <2>2. Waits(op, rd, i) # 0 /\ i < m => cx2[f[i] + 1] = cx[f[i] + 1]
    <3> SUFFICES ASSUME Waits(op, rd, i) # 0, i < m PROVE f[i] + 1 \in 1 .. f[m]
      OBVIOUS
    <3>1. f[i] + 1 + Above(op, rd, i) \in 1 .. f[m] /\ Above(op, rd, i) = 1
      BY <1>6 DEF Above
    <3>2. f[i] \in Nat /\ m \in 1 .. m
      BY <1>1, <1>2
    <3>3. f[m] \in Nat
      BY <1>2, <3>2
    <3> QED
      BY <3>1, <3>2, <3>3
  <2>3. i \in 1 .. Len(op)
    BY <1>2
  <2>4. Same(f, op, rd, cx, rd2, cx2, el2, i)
    BY <2>3, EntriesStay
  <2> QED
    BY <2>1, <2>2, <2>4 DEF Same
<1>8. ASSUME NEW i \in 1 .. m
      PROVE  /\ i < m => Waits(op2, rd2, i) = Waits(op, rd, i)
             /\ i = m => Waits(op2, rd2, i) = 0
  <2>1. CASE i < m
    <3>1. i + 1 \in 1 .. m /\ i < Len(op) /\ i < Len(op2)
      BY <1>1, <2>1
    <3>2. op[i].key = 0
      BY <1>2, <3>1, LaidAt
    <3>3. rd2[op[i + 1].at] = rd[op[i + 1].at] /\ op2[i + 1].at = op[i + 1].at /\ op2[i].key = 0
      BY <1>7, <3>1
    <3> QED
      BY <1>1, <3>1, <3>2, <3>3 DEF Waits
  <2>2. CASE i = m
    BY <1>1, <2>2 DEF Waits
  <2> QED
    BY <1>1, <2>1, <2>2
<1>9. ASSUME NEW i \in 1 .. m
      PROVE  /\ g[i + 1] = g[i] + 1 + Above(op2, rd2, i)
             /\ Waits(op2, rd2, i) # 0 =>
                   /\ op2[i].letter = "d"
                   /\ el2[cx2[g[i] + 1]].tok = Waits(op2, rd2, i)
                   /\ el2[cx2[g[i] + 1]].type = "DICT_KEY"
             /\ i < m /\ op2[i].letter = "d" => Waits(op2, rd2, i) # 0
  <2>1. CASE i = m
    <3>1. Waits(op2, rd2, i) = 0 /\ Above(op2, rd2, i) = 0
      BY <1>8, <2>1 DEF Above
    <3>2. g[i + 1] = f[m] + 1 /\ g[i] = f[m] /\ f[m] \in Nat
      BY <1>2, <1>3, <1>4, <2>1
    <3> QED
      BY <1>1, <2>1, <3>1, <3>2
  <2>2. CASE i < m
    <3>1. i + 1 \in 1 .. m /\ i \in 1 .. Len(op) /\ i < Len(op)
      BY <1>1, <2>2
    <3>2. g[i] = f[i] /\ g[i + 1] = f[i + 1] /\ op2[i].letter = op[i].letter
      BY <1>3, <3>1
    <3>3. Waits(op2, rd2, i) = Waits(op, rd, i) /\ Above(op2, rd2, i) = Above(op, rd, i)
      BY <1>8, <2>2 DEF Above
    <3>4. /\ f[i + 1] = f[i] + 1 + Above(op, rd, i)
          /\ op[i].letter = "d" => Waits(op, rd, i) # 0
          /\ Waits(op, rd, i) # 0 => op[i].letter = "d"
      BY <3>1, LaidAt
    <3> QED
      BY <1>7, <2>2, <3>2, <3>3, <3>4
  <2> QED
    BY <1>1, <2>1, <2>2
<1>10. ASSUME NEW i \in 1 .. m + 1, NEW j \in 1 .. m + 1, i < j PROVE g[i] < g[j]
  <2>1. i \in 1 .. m /\ g[i] = f[i] /\ f[i] \in 1 .. f[m] /\ f[m] \in Nat
    <3>1. i \in 1 .. m /\ m \in 1 .. m
      BY <1>1, <1>10
    <3> QED
      BY <1>2, <1>3, <1>6, <3>1
  <2>2. CASE j = m + 1
    BY <1>4, <2>1, <2>2
  <2>3. CASE j \in 1 .. m
    BY <1>3, <1>5, <1>10, <2>1, <2>3
  <2> QED
    BY <1>1, <2>2, <2>3
<1>11. g[1] = 1
  BY <1>1, <1>3 DEF Laid
<1>12. ASSUME NEW i \in 1 .. m
       PROVE  /\ el2[cx2[g[i]]].tok = op2[i].at
              /\ el2[cx2[g[i]]].type = TypeOf(op2[i].letter)
              /\ op2[i].at \in 1 .. Len(rd2)
  <2>1. g[i] = f[i] /\ op2[i].at = op[i].at /\ op2[i].letter = op[i].letter
    BY <1>3
  <2> QED
    BY <1>7, <2>1
<1>13. Laid(g, op2, rd2, cx2, el2)
  BY <1>4, <1>9, <1>10, <1>11, <1>12 DEF Laid
<1> QED
  BY <1>13

\* The key here is noted for the dictionary on top of op, and put on cx.
Keyed(here, op, cx, op2, cx2, el2) ==
    /\ op # << >> /\ op[Len(op)].letter = "d" /\ op[Len(op)].key = 0
    /\ here \in Nat \ {0}
    /\ Len(op2) = Len(op)
    /\ \A i \in 1 .. Len(op) : /\ op2[i].at = op[i].at /\ op2[i].letter = op[i].letter
                               /\ i # Len(op) => op2[i].key = op[i].key
    /\ op2[Len(op)].key = here
    /\ Len(cx2) = Len(cx) + 1
    /\ \A k \in 1 .. Len(cx) : cx2[k] = cx[k]
    /\ el2[cx2[Len(cx) + 1]].tok = here
    /\ el2[cx2[Len(cx) + 1]].type = "DICT_KEY"

\* A key is put on the stack, above the dictionary on top.
LEMMA KeyAdded ==
    ASSUME NEW op, NEW rd, NEW el, NEW cx, NEW f, Laid(f, op, rd, cx, el),
           NEW op2, NEW rd2, NEW el2, NEW cx2, Stacks(op2, rd2, cx2, el2), NEW here,
           Longer(rd2, rd), Kept(el2, el), Keyed(here, op, cx, op2, cx2, el2)
    PROVE  \E g : Laid(g, op2, rd2, cx2, el2)
<1> USE DEF Keyed
<1> DEFINE m == Len(op)
           g == [i \in 1 .. m + 1 |-> IF i = m + 1 THEN f[m] + 2 ELSE f[i]]
<1>1. m \in Nat \ {0} /\ m \in 1 .. m /\ Len(cx) \in Nat
  BY EmptySeq DEF Laid, Stacks
<1> HIDE DEF m
<1>2. ASSUME NEW i \in 1 .. m PROVE f[i] \in Nat \ {0}
  <2>1. i \in 1 .. Len(op)
    BY DEF m
  <2> QED
    BY <2>1, LaidAt
<1>3. \A i \in 1 .. m : g[i] = f[i]
  BY <1>1
<1>4. g[m + 1] = f[m] + 2 /\ g \in [1 .. m + 1 -> Nat \ {0}]
  BY <1>1, <1>2
<1> HIDE DEF g
<1>5. f[m] = Len(cx)
  <2>1. Waits(op, rd, m) = 0 /\ Above(op, rd, m) = 0
    BY <1>1 DEF Waits, Above, m
  <2>2. f[m + 1] = f[m] + 1 + Above(op, rd, m) /\ f[m] \in Nat
    BY <1>1, LaidAt DEF m
  <2>3. f[m + 1] = Len(cx) + 1
    BY DEF Laid, m
  <2> QED
    BY <1>1, <2>1, <2>2, <2>3
<1>6. ASSUME NEW i \in 1 .. m, NEW j \in 1 .. m
      PROVE  i < j => f[i] < f[j]
  <2>1. i \in 1 .. Len(op) + 1 /\ j \in 1 .. Len(op) + 1
    BY <1>1 DEF m
  <2> QED
    BY <2>1, PlacesRise
<1>7. ASSUME NEW i \in 1 .. m
      PROVE  /\ el2[cx2[f[i]]].tok = op[i].at
             /\ el2[cx2[f[i]]].type = TypeOf(op[i].letter)
             /\ op[i].at \in 1 .. Len(rd2) /\ rd2[op[i].at] = rd[op[i].at]
             /\ Waits(op, rd, i) # 0 =>
                   /\ el2[cx2[f[i] + 1]].tok = Waits(op, rd, i)
                   /\ el2[cx2[f[i] + 1]].type = "DICT_KEY"
  <2>1. i \in 1 .. Len(op)
    BY DEF m
  <2>2. f[i] \in 1 .. Len(cx) /\ (Waits(op, rd, i) # 0 => f[i] + 1 \in 1 .. Len(cx))
    BY <2>1, PlacesOnStack
  <2>3. cx2[f[i]] = cx[f[i]] /\ (Waits(op, rd, i) # 0 => cx2[f[i] + 1] = cx[f[i] + 1])
    BY <2>2
  <2>4. Same(f, op, rd, cx, rd2, cx2, el2, i)
    BY <2>1, EntriesStay
  <2> QED
    BY <2>3, <2>4 DEF Same
<1>8. ASSUME NEW i \in 1 .. m
      PROVE  /\ i < m => Waits(op2, rd2, i) = Waits(op, rd, i)
             /\ i = m => Waits(op2, rd2, i) = here
  <2>1. CASE i < m
    <3>1. i + 1 \in 1 .. m /\ i < Len(op) /\ i < Len(op2) /\ i \in 1 .. Len(op) /\ i # Len(op)
      BY <1>1, <2>1 DEF m
    <3>2. op[i].key = 0 /\ op2[i].key = op[i].key
      BY <3>1, LaidAt
    <3>3. rd2[op[i + 1].at] = rd[op[i + 1].at] /\ op2[i + 1].at = op[i + 1].at
      BY <1>7, <3>1 DEF m
    <3> QED
      BY <1>1, <2>1, <3>1, <3>2, <3>3 DEF Waits
  <2>2. CASE i = m
    BY <1>1, <2>2 DEF Waits, m
  <2> QED
    BY <1>1, <2>1, <2>2
<1>9. ASSUME NEW i \in 1 .. m
      PROVE  /\ g[i + 1] = g[i] + 1 + Above(op2, rd2, i)
             /\ Waits(op2, rd2, i) # 0 =>
                   /\ op2[i].letter = "d"
                   /\ el2[cx2[g[i] + 1]].tok = Waits(op2, rd2, i)
                   /\ el2[cx2[g[i] + 1]].type = "DICT_KEY"
             /\ i < m => op2[i].key = 0 /\ (op2[i].letter = "d" => Waits(op2, rd2, i) # 0)
  <2>1. CASE i = m
    <3>1. Waits(op2, rd2, i) = here /\ Above(op2, rd2, i) = 1
      BY <1>8, <2>1 DEF Above
    <3>2. g[i + 1] = f[m] + 2 /\ g[i] = f[m] /\ f[m] \in Nat /\ g[i] + 1 = Len(cx) + 1
      BY <1>1, <1>2, <1>3, <1>4, <1>5, <2>1
    <3>3. op2[i].letter = "d"
      BY <2>1 DEF m
    <3> QED
      BY <1>1, <2>1, <3>1, <3>2, <3>3
  <2>2. CASE i < m
    <3>1. i + 1 \in 1 .. m /\ i \in 1 .. Len(op) /\ i < Len(op) /\ i # Len(op)
      BY <1>1, <2>2 DEF m
    <3>2. g[i] = f[i] /\ g[i + 1] = f[i + 1] /\ op2[i].letter = op[i].letter /\ op2[i].key = op[i].key
      BY <1>3, <3>1
    <3>3. Waits(op2, rd2, i) = Waits(op, rd, i) /\ Above(op2, rd2, i) = Above(op, rd, i)
      BY <1>8, <2>2 DEF Above
    <3>4. /\ f[i + 1] = f[i] + 1 + Above(op, rd, i) /\ op[i].key = 0
          /\ op[i].letter = "d" => Waits(op, rd, i) # 0
          /\ Waits(op, rd, i) # 0 => op[i].letter = "d"
      BY <3>1, LaidAt
    <3> QED
      BY <1>7, <2>2, <3>2, <3>3, <3>4
  <2> QED
    BY <1>1, <2>1, <2>2
<1>10. ASSUME NEW i \in 1 .. m + 1, NEW j \in 1 .. m + 1, i < j PROVE g[i] < g[j]
  <2>1. i \in 1 .. m /\ g[i] = f[i] /\ f[i] \in Nat /\ f[m] \in Nat /\ f[i] <= f[m]
    <3>1. i \in 1 .. m
      BY <1>1, <1>10
    <3>2. CASE i = m
      BY <1>1, <1>2, <1>3, <3>1, <3>2
    <3>3. CASE i < m
      BY <1>1, <1>2, <1>3, <1>6, <3>1, <3>3
    <3> QED
      BY <1>1, <3>1, <3>2, <3>3
  <2>2. CASE j = m + 1
    BY <1>4, <2>1, <2>2
  <2>3. CASE j \in 1 .. m
    BY <1>3, <1>6, <1>10, <2>1, <2>3
  <2> QED
    BY <1>1, <2>2, <2>3
<1>11. g[1] = 1
  BY <1>1, <1>3 DEF Laid
<1>12. ASSUME NEW i \in 1 .. m
       PROVE  /\ el2[cx2[g[i]]].tok = op2[i].at
              /\ el2[cx2[g[i]]].type = TypeOf(op2[i].letter)
              /\ op2[i].at \in 1 .. Len(rd2)
  <2>1. g[i] = f[i] /\ op2[i].at = op[i].at /\ op2[i].letter = op[i].letter
    BY <1>3 DEF m
  <2> QED
    BY <1>7, <2>1
<1>13. g[m + 1] = Len(cx2) + 1 /\ Len(op2) = m
  BY <1>1, <1>4, <1>5 DEF m
<1>14. Laid(g, op2, rd2, cx2, el2)
  BY <1>4, <1>9, <1>10, <1>11, <1>12, <1>13 DEF Laid
<1> QED
  BY <1>14

\* The container that the token after rd opens is put on op and on cx.
Opened(op, rd, cx, op2, rd2, cx2, el2) ==
    /\ op # << >> => /\ op[Len(op)].letter = "d" => op[Len(op)].key # 0
                     /\ rd2[Len(rd) + 1].key = op[Len(op)].key
    /\ Len(op2) = Len(op) + 1
    /\ \A i \in 1 .. Len(op) : op2[i].at = op[i].at /\ op2[i].letter = op[i].letter
    /\ \A i \in 1 .. Len(op) + 1 : op2[i].key = 0
    /\ op2[Len(op) + 1].at = Len(rd) + 1
    /\ Len(cx2) = Len(cx) + 1
    /\ \A k \in 1 .. Len(cx) : cx2[k] = cx[k]
    /\ el2[cx2[Len(cx) + 1]].tok = Len(rd) + 1
    /\ el2[cx2[Len(cx) + 1]].type = TypeOf(op2[Len(op) + 1].letter)

\* A container is opened, the next element of a list or the value of the key
\* that waits; the first one is opened in nothing.
LEMMA ContainerAdded ==
    ASSUME NEW op, NEW rd, NEW el, NEW cx, NEW f, Laid(f, op, rd, cx, el),
           NEW op2, NEW rd2, NEW el2, NEW cx2, Stacks(op2, rd2, cx2, el2),
           Longer(rd2, rd), Kept(el2, el), Opened(op, rd, cx, op2, rd2, cx2, el2)
    PROVE  \E g : Laid(g, op2, rd2, cx2, el2)
<1> USE DEF Opened
<1> DEFINE m == Len(op)
           g == [i \in 1 .. m + 2 |-> IF i = m + 2 THEN f[m + 1] + 1 ELSE f[i]]
<1>1. m \in Nat /\ Len(cx) \in Nat /\ Len(rd) \in Nat /\ Len(rd2) = Len(rd) + 1
      /\ (m # 0 => op # << >>)
  BY DEF Longer, Laid, Stacks
<1>2. \A i \in 1 .. m + 1 : f[i] \in Nat \ {0}
  BY PlacesRise
<1>3. f[m + 1] = Len(cx) + 1
  BY DEF Laid
<1> HIDE DEF m
<1>4. \A i \in 1 .. m + 1 : g[i] = f[i]
  BY <1>1
<1>5. g[m + 2] = f[m + 1] + 1 /\ g \in [1 .. m + 2 -> Nat \ {0}]
  BY <1>1, <1>2
<1> HIDE DEF g
<1>6. ASSUME NEW i \in 1 .. m
      PROVE  /\ el2[cx2[f[i]]].tok = op[i].at
             /\ el2[cx2[f[i]]].type = TypeOf(op[i].letter)
             /\ op[i].at \in 1 .. Len(rd2) /\ rd2[op[i].at] = rd[op[i].at]
             /\ Waits(op, rd, i) # 0 =>
                   /\ el2[cx2[f[i] + 1]].tok = Waits(op, rd, i)
                   /\ el2[cx2[f[i] + 1]].type = "DICT_KEY"
  <2>1. i \in 1 .. Len(op)
    BY DEF m
  <2>2. f[i] \in 1 .. Len(cx) /\ (Waits(op, rd, i) # 0 => f[i] + 1 \in 1 .. Len(cx))
    BY <2>1, PlacesOnStack
  <2>3. cx2[f[i]] = cx[f[i]] /\ (Waits(op, rd, i) # 0 => cx2[f[i] + 1] = cx[f[i] + 1])
    BY <2>2
  <2>4. Same(f, op, rd, cx, rd2, cx2, el2, i)
    BY <2>1, EntriesStay
  <2> QED
    BY <2>3, <2>4 DEF Same
<1>7. ASSUME NEW i \in 1 .. m
      PROVE  /\ Waits(op2, rd2, i) = Waits(op, rd, i)
             /\ op[i].letter = "d" => Waits(op, rd, i) # 0
  <2>1. i \in 1 .. m + 1 /\ i + 1 \in 1 .. m + 1 /\ i \in 1 .. Len(op) /\ i < Len(op2)
    BY <1>1 DEF m
  <2>2. Waits(op2, rd2, i) = rd2[op2[i + 1].at].key
    BY <2>1 DEF Waits, m
  <2>3. CASE i < m
    <3>1. i + 1 \in 1 .. m /\ i < Len(op)
      BY <1>1, <2>3 DEF m
    <3>2. op[i].key = 0 /\ (op[i].letter = "d" => Waits(op, rd, i) # 0)
      BY <2>1, <3>1, LaidAt
    <3>3. rd2[op[i + 1].at] = rd[op[i + 1].at] /\ op2[i + 1].at = op[i + 1].at
      BY <1>6, <3>1 DEF m
    <3> QED
      BY <2>2, <3>1, <3>2, <3>3 DEF Waits
  <2>4. CASE i = m
    <3>1. op # << >> /\ i = Len(op)
      BY <1>1, <2>4 DEF m
    <3>2. Waits(op2, rd2, i) = op[i].key
      BY <2>2, <3>1
    <3>3. Waits(op, rd, i) = op[i].key
      BY <1>1, <3>1 DEF Waits, m
    <3> QED
      BY <3>1, <3>2, <3>3
  <2> QED
    BY <1>1, <2>3, <2>4
<1>8. Waits(op2, rd2, m + 1) = 0 /\ Above(op2, rd2, m + 1) = 0
  BY <1>1 DEF Waits, Above, m
<1>9. ASSUME NEW i \in 1 .. m + 1
      PROVE  /\ g[i + 1] = g[i] + 1 + Above(op2, rd2, i)
             /\ Waits(op2, rd2, i) # 0 =>
                   /\ op2[i].letter = "d"
                   /\ el2[cx2[g[i] + 1]].tok = Waits(op2, rd2, i)
                   /\ el2[cx2[g[i] + 1]].type = "DICT_KEY"
             /\ i < m + 1 /\ op2[i].letter = "d" => Waits(op2, rd2, i) # 0
  <2>1. CASE i = m + 1
    <3>1. g[i] = f[m + 1] /\ g[i + 1] = f[m + 1] + 1 /\ f[m + 1] \in Nat
      BY <1>1, <1>2, <1>4, <1>5, <2>1
    <3> QED
      BY <1>1, <1>8, <2>1, <3>1
  <2>2. CASE i < m + 1
    <3>1. i + 1 \in 1 .. m + 1 /\ i \in 1 .. Len(op) /\ i \in 1 .. m
      BY <1>1, <2>2 DEF m
    <3>2. g[i] = f[i] /\ g[i + 1] = f[i + 1] /\ op2[i].letter = op[i].letter
      BY <1>4, <3>1
    <3>3. Waits(op2, rd2, i) = Waits(op, rd, i) /\ Above(op2, rd2, i) = Above(op, rd, i)
      BY <1>7, <3>1 DEF Above
    <3>4. /\ f[i + 1] = f[i] + 1 + Above(op, rd, i)
          /\ Waits(op, rd, i) # 0 => op[i].letter = "d"
      BY <3>1, LaidAt
    <3> QED
      BY <1>6, <1>7, <2>2, <3>1, <3>2, <3>3, <3>4
  <2> QED
    BY <1>1, <2>1, <2>2
<1>10. ASSUME NEW i \in 1 .. m + 2, NEW j \in 1 .. m + 2, i < j PROVE g[i] < g[j]
  <2>1. i \in 1 .. m + 1 /\ m + 1 \in 1 .. m + 1
    BY <1>1, <1>10
  <2>2. CASE j = m + 2
    <3>1. i \in 1 .. Len(op) + 1 /\ Len(op) + 1 \in 1 .. Len(op) + 1 /\ i <= Len(op) + 1
      BY <1>1, <2>1 DEF m
    <3>2. f[i] <= f[m + 1]
      BY <3>1, PlacesRise DEF m
    <3> QED
      BY <1>2, <1>4, <1>5, <2>1, <2>2, <3>2
  <2>3. CASE j \in 1 .. m + 1
    <3>1. i \in 1 .. Len(op) + 1 /\ j \in 1 .. Len(op) + 1
      BY <2>1, <2>3 DEF m
    <3>2. f[i] < f[j]
      BY <1>10, <3>1, PlacesRise
    <3> QED
      BY <1>4, <2>1, <2>3, <3>2
  <2> QED
    BY <1>1, <2>2, <2>3
<1>11. g[1] = 1
  <2>1. 1 \in 1 .. m + 1
    BY <1>1
  <2> QED
    BY <1>4, <2>1 DEF Laid
<1>12. ASSUME NEW i \in 1 .. m + 1
       PROVE  /\ el2[cx2[g[i]]].tok = op2[i].at
              /\ el2[cx2[g[i]]].type = TypeOf(op2[i].letter)
              /\ op2[i].at \in 1 .. Len(rd2)
  <2>1. CASE i = m + 1
    <3>1. g[i] = Len(cx) + 1 /\ i = Len(op) + 1
      BY <1>3, <1>4, <2>1 DEF m
    <3>2. op2[i].at = Len(rd) + 1
      BY <3>1
    <3>3. op2[i].at \in 1 .. Len(rd2)
      BY <1>1, <3>2
    <3> QED
      BY <3>1, <3>2, <3>3
  <2>2. CASE i \in 1 .. m
    <3>1. g[i] = f[i] /\ op2[i].at = op[i].at /\ op2[i].letter = op[i].letter
      BY <1>4, <2>2 DEF m
    <3> QED
      BY <1>6, <2>2, <3>1
  <2> QED
    BY <1>1, <2>1, <2>2
<1>13. g[m + 2] = Len(cx2) + 1 /\ Len(op2) = m + 1 /\ (m + 1) + 1 = m + 2
  BY <1>1, <1>3, <1>5 DEF m
<1>14. (\A i \in 1 .. m + 1 : op2[i].key = 0) /\ Len(op2) + 1 = m + 2
  BY <1>1, <1>13 DEF m
<1>15. Laid(g, op2, rd2, cx2, el2)
  BY <1>5, <1>9, <1>10, <1>11, <1>12, <1>13, <1>14 DEF Laid
<1> QED
  BY <1>15

-----------------------------------------------------------------------------
(***************************************************************************)
(* CtxFor, the stack that the containers ask for.                          *)
(***************************************************************************)
\* A sequence with one entry more.
LEMMA ConcatOne ==
    ASSUME NEW S, NEW q \in Seq(S), NEW x \in S
    PROVE  /\ q \o << x >> \in Seq(S) /\ Len(q \o << x >>) = Len(q) + 1
           /\ \A k \in 1 .. Len(q) + 1 : (q \o << x >>)[k] = IF k <= Len(q) THEN q[k] ELSE x
OBVIOUS

\* A sequence that has one more entry than q, and is q up to it.
LEMMA OneMore ==
    ASSUME NEW S, NEW q \in Seq(S), NEW x \in S, NEW r \in Seq(S), Len(r) = Len(q) + 1,
           \A k \in 1 .. Len(q) : r[k] = q[k], r[Len(q) + 1] = x
    PROVE  r = q \o << x >>
<1>1. /\ q \o << x >> \in Seq(S) /\ Len(q \o << x >>) = Len(q) + 1
      /\ \A k \in 1 .. Len(q) + 1 : (q \o << x >>)[k] = IF k <= Len(q) THEN q[k] ELSE x
  BY ConcatOne
<1>2. Len(q) \in Nat
  OBVIOUS
<1>3. \A k \in 1 .. Len(r) : r[k] = (q \o << x >>)[k]
  BY <1>1, <1>2
<1> QED
  BY <1>1, <1>3, SeqEqual

\* What the stack of elements holds is what the open containers ask for.
LEMMA CtxForIs ==
    ASSUME NEW f, Laid(f, open, read, c, elem)
    PROVE  CtxFor[Len(open)] = [i \in 1 .. Len(c) |-> elem[c[i]].tok]
<1> DEFINE m == Len(open)
           G == [i \in 0 .. m |-> [j \in 1 .. f[i + 1] - 1 |-> elem[c[j]].tok]]
           Rec(h) == [i \in 0 .. m |->
                        IF i = 0 THEN <<>>
                        ELSE h[i - 1] \o <<open[i].at>>
                                \o IF Waiting(i) = 0 THEN <<>> ELSE <<Waiting(i)>>]
<1>1. m \in Nat /\ Len(c) \in Nat /\ f[m + 1] = Len(c) + 1 /\ f[1] = 1
  BY DEF Laid, Stacks
<1>2. ASSUME NEW i \in 0 .. m
      PROVE  f[i + 1] \in Nat \ {0} /\ f[i + 1] - 1 \in 0 .. Len(c)
  <2>1. i + 1 \in 1 .. Len(open) + 1 /\ m + 1 \in 1 .. Len(open) + 1 /\ i + 1 <= m + 1
    BY <1>1
  <2>2. f[i + 1] \in Nat \ {0} /\ f[i + 1] <= f[m + 1]
    BY <2>1, PlacesRise
  <2> QED
    BY <1>1, <2>2
<1>3. \A j \in 1 .. Len(c) : elem[c[j]].tok \in Nat
  <2>1. c \in Seq(1 .. Len(elem)) /\ elem \in Seq(Element)
    BY DEF Laid, Stacks
  <2>2. ASSUME NEW j \in 1 .. Len(c) PROVE elem[c[j]] \in Element
    BY <2>1, ElementOfSeq
  <2> QED
    BY <2>2, FieldTypes
<1>4. ASSUME NEW i \in 0 .. m
      PROVE  /\ G[i] \in Seq(Nat) /\ Len(G[i]) = f[i + 1] - 1
             /\ \A j \in 1 .. f[i + 1] - 1 : G[i][j] = elem[c[j]].tok
  <2>1. f[i + 1] - 1 \in Nat /\ \A j \in 1 .. f[i + 1] - 1 : elem[c[j]].tok \in Nat
    BY <1>1, <1>2, <1>3
  <2> QED
    BY <2>1
<1> HIDE DEF G
<1>5. ASSUME NEW i \in 1 .. m
      PROVE  G[i] = G[i - 1] \o <<open[i].at>>
                       \o IF Waiting(i) = 0 THEN <<>> ELSE <<Waiting(i)>>
  <2>1. i - 1 \in 0 .. m /\ i \in 0 .. m /\ i \in 1 .. Len(open) /\ (i - 1) + 1 = i
    BY <1>1
  <2>2. Waiting(i) = Waits(open, read, i)
    BY DEF Waiting, Waits
  <2>3. /\ f[i] \in Nat \ {0} /\ f[i + 1] = f[i] + 1 + Above(open, read, i)
        /\ elem[c[f[i]]].tok = open[i].at
        /\ Waiting(i) # 0 => elem[c[f[i] + 1]].tok = Waiting(i)
    BY <2>1, <2>2, LaidAt
  <2>4. /\ f[i] \in 1 .. Len(c)
        /\ Waiting(i) # 0 => f[i] + 1 \in 1 .. Len(c)
    BY <2>1, <2>2, PlacesOnStack
  <2>5. open[i].at \in Nat /\ (Waiting(i) # 0 => Waiting(i) \in Nat)
    BY <1>3, <2>3, <2>4
  <2>6. /\ G[i - 1] \in Seq(Nat) /\ Len(G[i - 1]) = f[i] - 1
        /\ \A j \in 1 .. f[i] - 1 : G[i - 1][j] = elem[c[j]].tok
    BY <1>4, <2>1
  <2>7. /\ G[i] \in Seq(Nat) /\ Len(G[i]) = f[i + 1] - 1
        /\ \A j \in 1 .. f[i + 1] - 1 : G[i][j] = elem[c[j]].tok
    BY <1>4, <2>1
  <2> DEFINE q == G[i - 1] \o <<open[i].at>>
  <2>8. /\ q \in Seq(Nat) /\ Len(q) = f[i]
        /\ \A j \in 1 .. f[i] - 1 : q[j] = elem[c[j]].tok
        /\ q[f[i]] = open[i].at
    <3>1. /\ q \in Seq(Nat) /\ Len(q) = Len(G[i - 1]) + 1
          /\ \A j \in 1 .. Len(G[i - 1]) + 1 :
                q[j] = IF j <= Len(G[i - 1]) THEN G[i - 1][j] ELSE open[i].at
      <4> DEFINE g == G[i - 1]
                 x == open[i].at
      <4>1. g \in Seq(Nat) /\ x \in Nat
        BY <2>5, <2>6
      <4> HIDE DEF g, x
      <4>2. /\ g \o << x >> \in Seq(Nat) /\ Len(g \o << x >>) = Len(g) + 1
            /\ \A j \in 1 .. Len(g) + 1 :
                  (g \o << x >>)[j] = IF j <= Len(g) THEN g[j] ELSE x
        BY <4>1, ConcatOne
      <4> QED
        BY <4>2 DEF g, x
    <3> HIDE DEF q
    <3>2. Len(G[i - 1]) + 1 = f[i] /\ f[i] \in 1 .. f[i]
      BY <2>3, <2>6
    <3>3. q[f[i]] = open[i].at
      BY <2>3, <2>6, <3>1, <3>2
    <3>4. ASSUME NEW j \in 1 .. f[i] - 1 PROVE q[j] = elem[c[j]].tok
      <4>1. j <= Len(G[i - 1]) /\ j \in 1 .. Len(G[i - 1]) + 1
        BY <2>3, <2>6
      <4>2. q[j] = G[i - 1][j]
        BY <3>1, <4>1
      <4> QED
        BY <2>6, <4>2
    <3> QED
      BY <3>1, <3>2, <3>3, <3>4
  <2> HIDE DEF q
  <2>9. ASSUME NEW j \in 1 .. f[i] PROVE q[j] = elem[c[j]].tok
    <3>1. CASE j = f[i]
      <4>1. elem[c[j]].tok = open[i].at
        BY <2>3, <3>1
      <4> QED
        BY <2>8, <3>1, <4>1
    <3>2. CASE j # f[i]
      <4>1. j \in 1 .. f[i] - 1
        BY <2>3, <3>2
      <4> QED
        BY <2>8, <4>1
    <3> QED
      BY <3>1, <3>2
  <2>10. CASE Waiting(i) = 0
    <3>1. f[i + 1] = f[i] + 1
      BY <2>2, <2>3, <2>10 DEF Above
    <3>0. f[i + 1] - 1 = f[i]
      BY <2>3, <3>1
    <3>2. Len(G[i]) = Len(q) /\ \A j \in 1 .. Len(q) : G[i][j] = q[j]
      BY <2>7, <2>8, <2>9, <3>0
    <3>3. G[i] = q
      BY <2>7, <2>8, <3>2, SeqEqual
    <3>4. q \o <<>> = q
      BY <2>8, ConcatEmptySeq
    <3> QED
      BY <2>10, <3>3, <3>4 DEF q
  <2>11. CASE Waiting(i) # 0
    <3>1. f[i + 1] = f[i] + 2
      BY <2>2, <2>3, <2>11 DEF Above
    <3>2. /\ Len(G[i]) = Len(q) + 1 /\ \A j \in 1 .. Len(q) : G[i][j] = q[j]
          /\ G[i][Len(q) + 1] = Waiting(i)
      <4>1. /\ f[i + 1] - 1 = f[i] + 1 /\ f[i] + 1 \in 1 .. f[i + 1] - 1
            /\ \A j \in 1 .. f[i] : j \in 1 .. f[i + 1] - 1
        BY <2>3, <3>1
      <4>2. G[i][f[i] + 1] = Waiting(i)
        BY <2>3, <2>7, <2>11, <4>1
      <4> QED
        BY <2>7, <2>8, <2>9, <4>1, <4>2
    <3>3. G[i] = q \o <<Waiting(i)>>
      BY <2>5, <2>7, <2>8, <2>11, <3>2, OneMore
    <3> QED
      BY <2>11, <3>3 DEF q
  <2> QED
    BY <2>10, <2>11
<1>6. G = Rec(G)
  <2>1. G[0] = <<>>
    <3>1. 0 \in 0 .. m /\ 0 + 1 = 1
      BY <1>1
    <3>2. G[0] \in Seq(Nat) /\ Len(G[0]) = 0
      BY <1>1, <1>4, <3>1
    <3> QED
      BY <3>2, EmptySeq
  <2>2. ASSUME NEW i \in 0 .. m PROVE G[i] = Rec(G)[i]
    <3>1. CASE i = 0
      BY <2>1, <3>1
    <3>2. CASE i # 0
      <4>1. i \in 1 .. m
        BY <1>1, <3>2
      <4> QED
        BY <1>5, <3>2, <4>1
    <3> QED
      BY <3>1, <3>2
  <2>3. G = [i \in 0 .. m |-> G[i]]
    BY DEF G
  <2> QED
    BY <2>2, <2>3
<1>7. ASSUME NEW h, h = Rec(h) PROVE h = G
  <2> DEFINE Bad == {i \in 0 .. m : h[i] # G[i]}
  <2>1. SUFFICES ASSUME Bad # {} PROVE FALSE
    <3>1. h = [i \in 0 .. m |-> h[i]] /\ G = [i \in 0 .. m |-> G[i]]
      BY <1>7 DEF G
    <3> QED
      BY <2>1, <3>1
  <2>2. PICK i \in Bad : \A k \in Bad : i <= k
    <3>1. Bad \in SUBSET Nat
      BY <1>1
    <3> QED
      BY <2>1, <3>1, LeastNat
  <2>3. i \in 0 .. m /\ h[i] = Rec(h)[i] /\ G[i] = Rec(G)[i]
    BY <1>6, <1>7
  <2>4. CASE i = 0
    BY <2>2, <2>3, <2>4
  <2>5. CASE i # 0
    <3>1. i - 1 \in 0 .. m /\ i - 1 \notin Bad
      BY <1>1, <2>2, <2>3, <2>5
    <3>2. h[i - 1] = G[i - 1]
      BY <3>1
    <3>3. Rec(h)[i] = Rec(G)[i]
      BY <2>3, <2>5, <3>2
    <3> QED
      BY <2>2, <2>3, <3>3
  <2> QED
    BY <2>4, <2>5
<1>8. CtxFor = CHOOSE h : h = Rec(h)
  BY DEF CtxFor
<1> HIDE DEF Rec
<1>9. CtxFor = G
  BY <1>6, <1>7, <1>8
<1>10. G[m] = [i \in 1 .. Len(c) |-> elem[c[i]].tok]
  <2>1. m \in 0 .. m /\ f[m + 1] - 1 = Len(c)
    BY <1>1
  <2> QED
    BY <2>1 DEF G
<1> QED
  BY <1>9, <1>10

-----------------------------------------------------------------------------
(***************************************************************************)
(* The invariant.                                                          *)
(***************************************************************************)
Types ==
    /\ read \in Seq(Sent)
    /\ \A p \in 1 .. Len(read) : read[p].in <= Len(read) /\ read[p].key <= Len(read)
    /\ open \in Seq(Container)
    /\ \A i \in 1 .. Len(open) : open[i].at <= Len(read) /\ open[i].key <= Len(read)
    /\ s \in Seq({"d", "l"})
    /\ c \in Seq(1 .. Len(elem))
    /\ status \in {"WAIT_KEY", "WAIT_VAL"}
    /\ Array(elem, Len(read))
    /\ ret \in {"running", "accepted", "rejected"}

Letters == s = [i \in 1 .. Len(open) |-> open[i].letter]

IInv ==
    /\ Types
    /\ Letters
    /\ \E f : Laid(f, open, read, c, elem)
    /\ StatusAgrees
    /\ AcceptsAtEnd

\* The letter on top of g_stack is that of the innermost container.
LEMMA PeekIs ==
    ASSUME IInv
    PROVE  /\ Len(open) \in Nat /\ Len(s) = Len(open)
           /\ open = << >> <=> s = << >>
           /\ open = << >> <=> Len(open) = 0
           /\ Peek = "none" <=> open = << >>
           /\ open # << >> => Peek = Last(open).letter
           /\ \A i \in 1 .. Len(open) : s[i] = open[i].letter /\ s[i] \in {"d", "l"}
<1>1. /\ open \in Seq(Container) /\ s \in Seq({"d", "l"})
      /\ s = [i \in 1 .. Len(open) |-> open[i].letter]
  BY DEF IInv, Types, Letters
<1>2. Len(open) \in Nat /\ Len(s) = Len(open) /\ (open = << >> <=> Len(open) = 0)
  BY <1>1, EmptySeq
<1>3. s = << >> <=> Len(s) = 0
  BY <1>1, EmptySeq
<1>4. \A i \in 1 .. Len(open) : s[i] = open[i].letter /\ s[i] \in {"d", "l"}
  BY <1>1, <1>2
<1>5. open # << >> => Last(s) = Last(open).letter /\ Last(s) \in {"d", "l"}
  <2>1. open # << >> => Len(open) \in 1 .. Len(open)
    BY <1>2
  <2> QED
    BY <1>2, <1>4, <2>1 DEF Last
<1>6. open = << >> <=> s = << >>
  BY <1>2, <1>3
<1>7. (Peek = "none" <=> open = << >>) /\ (open # << >> => Peek = Last(open).letter)
  <2>1. CASE open = << >>
    BY <1>6, <2>1 DEF Peek
  <2>2. CASE open # << >>
    BY <1>5, <1>6, <2>2 DEF Peek
  <2> QED
    BY <2>1, <2>2
<1> QED
  BY <1>2, <1>4, <1>6, <1>7

\* What is on top of the stack of elements.
LEMMA TopIs ==
    ASSUME IInv, NEW f, Laid(f, open, read, c, elem), open # << >>
    PROVE  /\ Len(open) \in 1 .. Len(open) /\ f[Len(open)] \in 1 .. Len(c)
           /\ c # << >> /\ Last(c) \in 1 .. Len(elem)
           /\ Last(open).letter \in {"d", "l"} /\ Last(open).key \in Nat
           /\ Last(open).letter = "l" =>
                 /\ Last(open).key = 0 /\ Len(c) = f[Len(open)]
                 /\ elem[Last(c)].type = "LIST_HEAD"
           /\ Last(open).letter = "d" /\ Last(open).key = 0 =>
                 Len(c) = f[Len(open)] /\ elem[Last(c)].type = "DICT"
           /\ Last(open).letter = "d" /\ Last(open).key # 0 =>
                 /\ Len(c) = f[Len(open)] + 1
                 /\ elem[Last(c)].type = "DICT_KEY"
<1> DEFINE m == Len(open)
<1>1. open \in Seq(Container) /\ c \in Seq(1 .. Len(elem))
  BY DEF IInv, Types
<1>2. m \in Nat \ {0} /\ m \in 1 .. m /\ Last(open) = open[m] /\ open[m] \in Container
  <2>1. m \in Nat \ {0} /\ Last(open) = open[m] /\ Last(open) \in Container
    BY <1>1, FrontIs
  <2> QED
    BY <2>1
<1>3. Waits(open, read, m) = open[m].key
  BY <1>2 DEF Waits
<1>4. /\ f[m] \in Nat \ {0} /\ f[m + 1] = f[m] + 1 + Above(open, read, m)
      /\ elem[c[f[m]]].type = TypeOf(open[m].letter)
      /\ open[m].key # 0 => open[m].letter = "d" /\ elem[c[f[m] + 1]].type = "DICT_KEY"
  BY <1>2, <1>3, LaidAt
<1>5. f[m + 1] = Len(c) + 1 /\ Len(c) \in Nat
  BY <1>1 DEF Laid
<1>6. f[m] \in 1 .. Len(c)
  BY <1>2, PlacesOnStack
<1>7. Len(c) = IF open[m].key = 0 THEN f[m] ELSE f[m] + 1
  BY <1>3, <1>4, <1>5 DEF Above
<1>8. c # << >> /\ Last(c) = c[Len(c)] /\ Last(c) \in 1 .. Len(elem)
  <2>1. c # << >>
    BY <1>1, <1>6, EmptySeq
  <2> QED
    BY <1>1, <2>1, FrontIs
<1>9. open[m].letter \in {"d", "l"} /\ open[m].key \in Nat
  BY <1>2 DEF Container
<1> QED
  BY <1>2, <1>4, <1>6, <1>7, <1>8, <1>9 DEF TypeOf

\* A token is sent: what it does to the message and to the sender's stack.
LEMMA Sending ==
    ASSUME IInv, ret = "running", NEW t \in Token, Send(t)
    PROVE  /\ Longer(read', read)
           /\ \A p \in 1 .. Len(read') : read'[p].in <= Len(read') /\ read'[p].key <= Len(read')
           /\ open = << >> => t = "d"
           /\ open # << >> => read'[Len(read) + 1].key = Last(open).key
           /\ open # << >> /\ KeyExpected => t \in {"s", "e"}
           /\ t = "e" => open' = Front(open) /\ Last(open).key = 0
           /\ t \in {"s", "i", "z"} => open' = KeyPlaced(Len(read) + 1)
           /\ t \in {"d", "l"} =>
                 open' = Append(KeyPlaced(Len(read) + 1),
                                [at |-> Len(read) + 1, letter |-> t, key |-> 0])
<1>1. /\ read \in Seq(Sent) /\ open \in Seq(Container)
      /\ \A p \in 1 .. Len(read) : read[p].in <= Len(read) /\ read[p].key <= Len(read)
      /\ \A i \in 1 .. Len(open) : open[i].at <= Len(read) /\ open[i].key <= Len(read)
  BY DEF IInv, Types
<1>2. Len(read) \in Nat
  BY <1>1
<1>3. open # << >> => /\ Last(open) \in Container
                      /\ Last(open).at <= Len(read) /\ Last(open).key <= Len(read)
  <2> SUFFICES ASSUME open # << >> PROVE /\ Last(open) \in Container
                      /\ Last(open).at <= Len(read) /\ Last(open).key <= Len(read)
    OBVIOUS
  <2>1. Len(open) \in 1 .. Len(open) /\ Last(open) = open[Len(open)] /\ Last(open) \in Container
    BY <1>1, FrontIs
  <2> QED
    BY <1>1, <2>1
<1> DEFINE x == [tok |-> t, in  |-> IF open = <<>> THEN 0 ELSE Last(open).at,
                 key |-> IF open = <<>> THEN 0 ELSE Last(open).key]
<1>4. x \in Sent /\ x.in <= Len(read) /\ x.key <= Len(read)
      /\ (open # << >> => x.key = Last(open).key)
  <2>1. CASE open = << >>
    BY <1>2, <2>1 DEF Sent
  <2>2. CASE open # << >>
    BY <1>2, <1>3, <2>2 DEF Sent, Container
  <2> QED
    BY <2>1, <2>2
<1>5. read' = Append(read, x) /\ MaySend(t)
  BY DEF Send
<1> HIDE DEF x
<1>6. /\ read' \in Seq(Sent) /\ Len(read') = Len(read) + 1
      /\ \A p \in 1 .. Len(read) : read'[p] = read[p]
      /\ read'[Len(read) + 1] = x
  BY <1>1, <1>4, <1>5, AppendIs
<1>7. Longer(read', read)
  BY <1>6 DEF Longer
<1>8. ASSUME NEW p \in 1 .. Len(read')
      PROVE  read'[p].in <= Len(read') /\ read'[p].key <= Len(read')
  <2>1. CASE p = Len(read) + 1
    BY <1>2, <1>4, <1>6, <2>1 DEF Sent
  <2>2. CASE p \in 1 .. Len(read)
    <3>1. read[p] \in Sent
      BY <1>1, <2>2, ElementOfSeq
    <3>2. read[p].in \in Nat /\ read[p].key \in Nat
      BY <3>1 DEF Sent
    <3> QED
      BY <1>1, <1>2, <1>6, <2>2, <3>2
  <2> QED
    BY <1>2, <1>6, <2>1, <2>2
<1>9. open = << >> => t = "d"
  <2>1. open = << >> => read = << >>
    BY DEF IInv, AcceptsAtEnd
  <2> QED
    BY <1>5, <2>1 DEF MaySend
<1>10. open # << >> => read # << >>
  <2> SUFFICES ASSUME open # << >> PROVE read # << >>
    OBVIOUS
  <2>1. PICK f : Laid(f, open, read, c, elem)
    BY DEF IInv
  <2>2. Len(open) \in 1 .. Len(open)
    BY <2>1, TopIs
  <2>3. open[Len(open)].at \in 1 .. Len(read)
    BY <2>1, <2>2, LaidAt
  <2> QED
    BY <1>2, <2>3, EmptySeq
<1>11. open # << >> /\ KeyExpected => t \in {"s", "e"}
  BY <1>5, <1>10 DEF MaySend
<1>12. ASSUME t = "e" PROVE open' = Front(open) /\ Last(open).key = 0
  <2>1. open # << >>
    BY <1>9, <1>12
  <2>2. KeyExpected \/ Last(open).letter = "l"
    BY <1>5, <1>10, <1>12, <2>1 DEF MaySend
  <2>3. PICK f : Laid(f, open, read, c, elem)
    BY DEF IInv
  <2>4. Last(open).key = 0
    BY <2>1, <2>2, <2>3, TopIs DEF KeyExpected
  <2> QED
    BY <1>12, <2>4 DEF Send
<1>13. /\ t \in {"s", "i", "z"} => open' = KeyPlaced(Len(read) + 1)
       /\ t \in {"d", "l"} =>
                 open' = Append(KeyPlaced(Len(read) + 1),
                                [at |-> Len(read) + 1, letter |-> t, key |-> 0])
  BY DEF Send
<1> QED
  BY <1>4, <1>6, <1>7, <1>8, <1>9, <1>11, <1>12, <1>13

\* The sender notes a key, or that the value of a key has come.
LEMMA KeyPlacedIs ==
    ASSUME IInv, open # << >>
    PROVE  LET v == IF KeyExpected THEN Len(read) + 1 ELSE 0
               op == KeyPlaced(Len(read) + 1)
           IN  /\ op \in Seq(Container) /\ Len(op) = Len(open)
               /\ \A i \in 1 .. Len(open) :
                     /\ op[i].at = open[i].at /\ op[i].letter = open[i].letter
                     /\ i # Len(open) => op[i].key = open[i].key
                     /\ op[i].at <= Len(read) + 1 /\ op[i].key <= Len(read) + 1
               /\ op[Len(open)].key = v
<1> DEFINE v == IF KeyExpected THEN Len(read) + 1 ELSE 0
           m == Len(open)
           y == [open[m] EXCEPT !.key = v]
           op == [open EXCEPT ![m] = y]
<1>1. /\ open \in Seq(Container) /\ Len(read) \in Nat
      /\ \A i \in 1 .. Len(open) : open[i].at <= Len(read) /\ open[i].key <= Len(read)
  BY DEF IInv, Types
<1>2. m \in 1 .. m /\ open[m] \in Container /\ m \in Nat
  BY <1>1, FrontIs
<1>3. v \in Nat /\ v <= Len(read) + 1
  BY <1>1
<1>4. KeyPlaced(Len(read) + 1) = op
  BY DEF KeyPlaced
<1> HIDE DEF v
<1>5. y \in Container /\ y.at = open[m].at /\ y.letter = open[m].letter /\ y.key = v
  BY <1>2, <1>3 DEF Container
<1> HIDE DEF y
<1>6. /\ op \in Seq(Container) /\ Len(op) = m
      /\ \A i \in 1 .. m : op[i] = IF i = m THEN y ELSE open[i]
  BY <1>1, <1>2, <1>5, ExceptSeq
<1> HIDE DEF op
<1>7. \A i \in 1 .. m : open[i].at \in Nat /\ open[i].key \in Nat
  <2>1. \A i \in 1 .. m : open[i] \in Container
    BY <1>1, ElementOfSeq
  <2> QED
    BY <2>1 DEF Container
<1>8. ASSUME NEW i \in 1 .. m
      PROVE  /\ op[i].at = open[i].at /\ op[i].letter = open[i].letter
             /\ i # m => op[i].key = open[i].key
             /\ op[i].at <= Len(read) + 1 /\ op[i].key <= Len(read) + 1
  BY <1>1, <1>3, <1>5, <1>6, <1>7
<1>9. op[m].key = v
  BY <1>2, <1>5, <1>6
<1> QED
  BY <1>4, <1>6, <1>8, <1>9 DEF v

-----------------------------------------------------------------------------
(***************************************************************************)
(* The steps.                                                              *)
(***************************************************************************)
\* A string, an integer or an empty string is the value of the key that waits,
\* or an element of a list.
LEMMA ValueStep ==
    ASSUME IInv, ret = "running", NEW t \in {"s", "i", "z"}, Send(t), ~ KeyExpected,
           Array(elem', Len(read) + 1), Kept(elem', elem),
           UNCHANGED << s, ret >>,
           status' = (IF Peek = "d" THEN "WAIT_KEY" ELSE status),
           c' = IF Last(open).letter = "d" THEN Front(c) ELSE c
    PROVE  IInv'
<1> DEFINE here == Len(read) + 1
           m == Len(open)
<1>1. /\ Types /\ Letters /\ AcceptsAtEnd /\ t \in Token
  BY DEF IInv, Token
<1>2. PICK f : Laid(f, open, read, c, elem)
  BY DEF IInv
<1>3. /\ open # << >> /\ Longer(read', read) /\ open' = KeyPlaced(here)
      /\ \A p \in 1 .. Len(read') : read'[p].in <= Len(read') /\ read'[p].key <= Len(read')
  BY <1>1, Sending
<1>4. /\ m \in 1 .. m /\ f[m] \in 1 .. Len(c) /\ c # << >>
      /\ Last(open).letter \in {"d", "l"} /\ Last(open).key \in Nat
      /\ Last(open).letter = "l" => Len(c) = f[m]
      /\ Last(open).letter = "d" => Len(c) = f[m] + 1
  BY <1>2, <1>3, TopIs DEF KeyExpected
<1>5. /\ open' \in Seq(Container) /\ Len(open') = m
      /\ \A i \in 1 .. m :
            /\ open'[i].at = open[i].at /\ open'[i].letter = open[i].letter
            /\ i # m => open'[i].key = open[i].key
            /\ open'[i].at <= here /\ open'[i].key <= here
      /\ open'[m].key = 0
  BY <1>3, KeyPlacedIs
<1>6. Len(read') = here /\ read' \in Seq(Sent) /\ Len(read) \in Nat /\ m \in Nat
  BY <1>1, <1>3 DEF Longer, Types
<1>7. /\ c' \in Seq(1 .. Len(elem)) /\ Len(c') = f[m] /\ \A k \in 1 .. f[m] : c'[k] = c[k]
  <2>1. c \in Seq(1 .. Len(elem)) /\ Len(c) \in Nat
    BY <1>1 DEF Types
  <2>2. CASE Last(open).letter = "d"
    <3>1. /\ Front(c) \in Seq(1 .. Len(elem)) /\ Len(Front(c)) = Len(c) - 1
          /\ \A k \in 1 .. Len(c) - 1 : Front(c)[k] = c[k]
      BY <1>4, <2>1, FrontIs
    <3>2. c' = Front(c)
      BY <2>2
    <3>3. Len(c) = f[m] + 1 /\ f[m] \in 1 .. Len(c)
      BY <1>4, <2>2
    <3>4. Len(c) - 1 = f[m]
      BY <2>1, <3>3
    <3> QED
      BY <3>1, <3>2, <3>4
  <2>3. CASE Last(open).letter = "l"
    BY <1>4, <2>1, <2>3
  <2> QED
    BY <1>4, <2>2, <2>3
<1>8. c' \in Seq(1 .. Len(elem'))
  <2>1. 1 .. Len(elem) \subseteq 1 .. Len(elem')
    <3>1. Len(elem) \in Nat /\ Len(elem') \in Nat /\ Len(elem) <= Len(elem')
      BY <1>1 DEF Types, Array, Kept
    <3> QED
      BY <3>1
  <2> QED
    BY <1>7, <2>1, SeqMonotonic
<1>9. Types'
  BY <1>1, <1>3, <1>5, <1>6, <1>8 DEF Types
<1>10. Letters'
  <2>1. s' = [i \in 1 .. Len(open) |-> open[i].letter]
    BY <1>1 DEF Letters
  <2> QED
    BY <1>5, <2>1 DEF Letters
<1>11. (\E g : Laid(g, open, read, c, elem))'
  <2>1. Stacks(open', read', c', elem')
    BY <1>5, <1>6, <1>8 DEF Stacks, Array
  <2>2. \A i \in 1 .. m : open'[i].key = 0
    <3>1. ASSUME NEW i \in 1 .. m, i # m PROVE open[i].key = 0
      BY <1>2, <1>6, <3>1, LaidAt
    <3> QED
      BY <1>5, <3>1
  <2>3. \A i \in 1 .. m : /\ open'[i].at = open[i].at /\ open'[i].letter = open[i].letter
                          /\ open'[i].key = 0
    BY <1>5, <2>2
  <2>4. Cut(f, m, open, c, open', c')
    BY <1>5, <1>7, <2>3 DEF Cut
  <2>5. \E g : Laid(g, open', read', c', elem')
    BY <1>2, <1>3, <1>4, <2>1, <2>4, CutOff
  <2> QED
    BY <2>5
<1>12. StatusAgrees'
  <2>1. open' # << >> /\ Last(open)' = open'[m] /\ Last(open) = open[m]
    BY <1>4, <1>5, <1>6 DEF Last
  <2>2. Peek = Last(open).letter
    BY <1>3, PeekIs
  <2> QED
    BY <1>4, <1>5, <2>1, <2>2 DEF StatusAgrees
<1>13. AcceptsAtEnd'
  <2>1. open' # << >>
    BY <1>4, <1>5, <1>6
  <2> QED
    BY <2>1 DEF AcceptsAtEnd
<1> QED
  BY <1>9, <1>10, <1>11, <1>12, <1>13 DEF IInv

\* A key.
LEMMA KeyStep ==
    ASSUME IInv, ReadKey
    PROVE  IInv'
<1> DEFINE here == Len(read) + 1
           m == Len(open)
<1>1. /\ Types /\ Letters /\ AcceptsAtEnd /\ "s" \in Token /\ ret = "running" /\ Send("s")
      /\ Peek = "d" /\ status = "WAIT_KEY" /\ status' = "WAIT_VAL"
      /\ elem' = Chained(With("DICT_KEY"), Last(c), n) /\ c' = Append(c, n)
      /\ UNCHANGED << s, ret >>
  BY DEF IInv, Token, ReadKey
<1>2. PICK f : Laid(f, open, read, c, elem)
  BY DEF IInv
<1>3. /\ open # << >> /\ Longer(read', read) /\ open' = KeyPlaced(here)
      /\ \A p \in 1 .. Len(read') : read'[p].in <= Len(read') /\ read'[p].key <= Len(read')
  <2>1. open # << >>
    BY <1>1, PeekIs
  <2> QED
    BY <1>1, <2>1, Sending
<1>4. Last(open).letter = "d" /\ Last(open).key = 0 /\ KeyExpected
  <2>1. Last(open).letter = "d"
    BY <1>1, <1>3, PeekIs
  <2> QED
    BY <1>1, <1>3, <2>1 DEF IInv, StatusAgrees, KeyExpected
<1>5. /\ m \in 1 .. m /\ f[m] \in 1 .. Len(c) /\ c # << >> /\ Len(c) = f[m]
      /\ Last(c) \in 1 .. Len(elem)
  BY <1>2, <1>3, <1>4, TopIs
<1>6. /\ open' \in Seq(Container) /\ Len(open') = m
      /\ \A i \in 1 .. m :
            /\ open'[i].at = open[i].at /\ open'[i].letter = open[i].letter
            /\ i # m => open'[i].key = open[i].key
            /\ open'[i].at <= here /\ open'[i].key <= here
      /\ open'[m].key = here
  BY <1>3, <1>4, KeyPlacedIs
<1>7. /\ Len(read') = here /\ read' \in Seq(Sent) /\ Len(read) \in Nat /\ m \in Nat
      /\ Array(elem, Len(read)) /\ Len(elem) \in Nat /\ c \in Seq(1 .. Len(elem))
      /\ open \in Seq(Container)
  BY <1>1, <1>3 DEF Longer, Types, Array
<1> DEFINE x == [type |-> "DICT_KEY", tok |-> Len(read) + 1, val |-> 0, next |-> 0]
           d == Append(elem, x)
<1>8. /\ Array(d, here) /\ Kept(d, elem) /\ Len(d) = Len(elem) + 1 /\ d[Len(elem) + 1] = x
  BY <1>7, NewElement
<1>9. With("DICT_KEY") = d /\ n = Len(elem) + 1
  BY DEF With, New, n
<1>10. x.type = "DICT_KEY" /\ x.tok = here
  OBVIOUS
<1> HIDE DEF x, d
<1>11. n \in 1 .. Len(d) /\ Last(c) \in 1 .. Len(d) /\ here \in Nat \ {0}
  BY <1>5, <1>7, <1>8, <1>9
<1>12. /\ Array(elem', here) /\ Kept(elem', d) /\ Len(elem') = Len(elem) + 1
  BY <1>1, <1>8, <1>9, <1>11, ChainGrows
<1>13. Kept(elem', elem) /\ elem'[n].type = "DICT_KEY" /\ elem'[n].tok = here
  <2>1. Kept(elem', elem)
    BY <1>7, <1>8, <1>12, KeptTwice
  <2> QED
    BY <1>8, <1>9, <1>10, <1>11, <1>12, <2>1 DEF Kept
<1>14. /\ c' \in Seq(1 .. Len(elem')) /\ Len(c') = Len(c) + 1
       /\ \A k \in 1 .. Len(c) : c'[k] = c[k]
       /\ c'[Len(c) + 1] = n
  <2>1. 1 .. Len(elem) \subseteq 1 .. Len(elem') /\ n \in 1 .. Len(elem')
    BY <1>7, <1>8, <1>11, <1>12
  <2>2. c \in Seq(1 .. Len(elem'))
    BY <1>7, <2>1, SeqMonotonic
  <2> QED
    BY <1>1, <2>1, <2>2, AppendIs
<1>15. Types'
  BY <1>1, <1>3, <1>6, <1>7, <1>12, <1>14 DEF Types
<1>16. Letters'
  <2>1. s' = [i \in 1 .. Len(open) |-> open[i].letter]
    BY <1>1 DEF Letters
  <2> QED
    BY <1>6, <2>1 DEF Letters
<1>17. (\E g : Laid(g, open, read, c, elem))'
  <2>1. Stacks(open', read', c', elem')
    BY <1>6, <1>7, <1>12, <1>14 DEF Stacks, Array
  <2>2. open[Len(open)].letter = "d" /\ open[Len(open)].key = 0
    BY <1>4 DEF Last
  <2>3. /\ Len(open') = Len(open) /\ open'[Len(open)].key = here
        /\ \A i \in 1 .. Len(open) :
              /\ open'[i].at = open[i].at /\ open'[i].letter = open[i].letter
              /\ i # Len(open) => open'[i].key = open[i].key
    BY <1>6
  <2>4. elem'[c'[Len(c) + 1]].tok = here /\ elem'[c'[Len(c) + 1]].type = "DICT_KEY"
    BY <1>13, <1>14
  <2>5. Keyed(here, open, c, open', c', elem')
    BY <1>3, <1>11, <1>14, <2>2, <2>3, <2>4 DEF Keyed
  <2>6. \E g : Laid(g, open', read', c', elem')
    BY <1>2, <1>3, <1>13, <2>1, <2>5, KeyAdded
  <2> QED
    BY <2>6
<1>18. StatusAgrees'
  <2>1. Last(open)' = open'[m]
    BY <1>6 DEF Last
  <2> QED
    BY <1>1, <1>6, <1>11, <2>1 DEF StatusAgrees
<1>19. AcceptsAtEnd'
  <2>1. open' # << >>
    BY <1>5, <1>6, <1>7
  <2> QED
    BY <1>1, <2>1 DEF AcceptsAtEnd
<1> QED
  BY <1>15, <1>16, <1>17, <1>18, <1>19 DEF IInv

\* A container begins, the first one or one inside another.
LEMMA OpenStep ==
    ASSUME IInv, ret = "running", NEW t \in {"d", "l"}, Send(t),
           s' = Append(s, t), elem' = With(TypeOf(t)), c' = Append(c, n),
           status' = (IF t = "d" THEN "WAIT_KEY" ELSE status), ret' = ret
    PROVE  IInv'
<1> DEFINE here == Len(read) + 1
           m == Len(open)
           y == [at |-> here, letter |-> t, key |-> 0]
           op == IF open = << >> THEN << >> ELSE KeyPlaced(here)
<1>1. /\ Types /\ Letters /\ AcceptsAtEnd /\ t \in Token
  BY DEF IInv, Token
<1>2. PICK f : Laid(f, open, read, c, elem)
  BY DEF IInv
<1>3. /\ Longer(read', read)
      /\ \A p \in 1 .. Len(read') : read'[p].in <= Len(read') /\ read'[p].key <= Len(read')
      /\ open # << >> => read'[Len(read) + 1].key = Last(open).key
      /\ open # << >> => ~ KeyExpected
      /\ open' = Append(KeyPlaced(here), y)
  BY <1>1, Sending
<1>4. /\ Len(read') = here /\ read' \in Seq(Sent) /\ Len(read) \in Nat /\ m \in Nat
      /\ Array(elem, Len(read)) /\ Len(elem) \in Nat /\ c \in Seq(1 .. Len(elem))
      /\ open \in Seq(Container) /\ s \in Seq({"d", "l"}) /\ Len(c) \in Nat
  <2>1. /\ Array(elem, Len(read)) /\ c \in Seq(1 .. Len(elem)) /\ read \in Seq(Sent)
        /\ open \in Seq(Container) /\ s \in Seq({"d", "l"})
    BY <1>1 DEF Types
  <2>2. elem \in Seq(Element)
    BY <2>1 DEF Array
  <2>3. Len(read) \in Nat /\ m \in Nat /\ Len(elem) \in Nat /\ Len(c) \in Nat
    BY <2>1, <2>2
  <2>4. read' \in Seq(Sent) /\ Len(read') = here
    BY <1>3 DEF Longer
  <2> QED
    BY <2>1, <2>3, <2>4
<1>5. /\ op \in Seq(Container) /\ Len(op) = m
      /\ \A i \in 1 .. m : /\ op[i].at = open[i].at /\ op[i].letter = open[i].letter
                           /\ op[i].key = 0
                           /\ op[i].at <= here /\ op[i].key <= here
  <2>1. CASE open = << >>
    BY <1>4, <2>1, EmptySeq
  <2>2. CASE open # << >>
    <3>0. op = KeyPlaced(Len(read) + 1) /\ ~ KeyExpected
      BY <1>3, <2>2
    <3> HIDE DEF op
    <3>1. /\ op \in Seq(Container) /\ Len(op) = m /\ op[m].key = 0
          /\ \A i \in 1 .. m : /\ op[i].at = open[i].at /\ op[i].letter = open[i].letter
                               /\ i # m => op[i].key = open[i].key
                               /\ op[i].at <= here /\ op[i].key <= here
      BY <2>2, <3>0, KeyPlacedIs
    <3>2. ASSUME NEW i \in 1 .. m, i # m PROVE open[i].key = 0
      BY <1>2, <1>4, <3>2, LaidAt
    <3> QED
      BY <3>1, <3>2
  <2> QED
    BY <2>1, <2>2
<1>6. open' = Append(op, y)
  BY <1>3 DEF KeyPlaced
<1>7. y \in Container /\ y.at = here /\ y.letter = t /\ y.key = 0
  BY <1>4 DEF Container
<1> HIDE DEF op, y
<1>8. /\ open' \in Seq(Container) /\ Len(open') = m + 1 /\ open'[m + 1] = y
      /\ \A i \in 1 .. m : open'[i] = op[i]
  BY <1>5, <1>6, <1>7, AppendIs
<1>9. /\ \A i \in 1 .. m : open'[i].at = open[i].at /\ open'[i].letter = open[i].letter
      /\ \A i \in 1 .. m + 1 : /\ open'[i].key = 0
                               /\ open'[i].at <= here /\ open'[i].key <= here
  <2>1. ASSUME NEW i \in 1 .. m
        PROVE  /\ open'[i].at = open[i].at /\ open'[i].letter = open[i].letter
               /\ open'[i].key = 0 /\ open'[i].at <= here /\ open'[i].key <= here
    BY <1>5, <1>8
  <2>2. open'[m + 1].key = 0 /\ open'[m + 1].at <= here /\ open'[m + 1].key <= here
    BY <1>4, <1>7, <1>8
  <2> QED
    BY <1>4, <2>1, <2>2
<1> DEFINE x == [type |-> TypeOf(t), tok |-> Len(read) + 1, val |-> 0, next |-> 0]
           d == Append(elem, x)
<1>10. /\ Array(d, here) /\ Kept(d, elem) /\ Len(d) = Len(elem) + 1 /\ d[Len(elem) + 1] = x
  <2>1. TypeOf(t) \in {"DICT", "LIST_HEAD", "DICT_KEY", "DICT_VAL"}
    BY DEF TypeOf
  <2> QED
    BY <1>4, <2>1, NewElement
<1>11. elem' = d /\ n = Len(elem) + 1
  BY DEF With, New, n
<1>12. x.type = TypeOf(t) /\ x.tok = here
  OBVIOUS
<1> HIDE DEF x, d
<1>13. /\ c' \in Seq(1 .. Len(elem')) /\ Len(c') = Len(c) + 1
       /\ \A k \in 1 .. Len(c) : c'[k] = c[k]
       /\ c'[Len(c) + 1] = n
  <2>1. 1 .. Len(elem) \subseteq 1 .. Len(elem') /\ n \in 1 .. Len(elem')
    BY <1>4, <1>10, <1>11
  <2>2. c \in Seq(1 .. Len(elem'))
    BY <1>4, <2>1, SeqMonotonic
  <2> QED
    BY <2>1, <2>2, AppendIs
<1>14. Types'
  <2>1. s' \in Seq({"d", "l"})
    BY <1>4, AppendIs
  <2> QED
    BY <1>1, <1>3, <1>4, <1>8, <1>9, <1>10, <1>11, <1>13, <2>1 DEF Types
<1>15. Letters'
  <2>1. /\ s' \in Seq({"d", "l"}) /\ Len(s') = Len(s) + 1 /\ s'[Len(s) + 1] = t
        /\ \A i \in 1 .. Len(s) : s'[i] = s[i]
    BY <1>4, AppendIs
  <2>2. Len(s) = m /\ \A i \in 1 .. m : s[i] = open[i].letter
    BY PeekIs
  <2>3. ASSUME NEW i \in 1 .. m + 1 PROVE s'[i] = open'[i].letter
    <3>1. CASE i = m + 1
      BY <1>7, <1>8, <2>1, <2>2, <3>1
    <3>2. CASE i \in 1 .. m
      BY <1>9, <2>1, <2>2, <3>2
    <3>3. i = m + 1 \/ i \in 1 .. m
      BY <1>4
    <3> QED
      BY <3>1, <3>2, <3>3
  <2>4. s' = [i \in 1 .. m + 1 |-> s'[i]]
    BY <2>1, <2>2, LenProperties
  <2>5. s' = [i \in 1 .. m + 1 |-> open'[i].letter]
    BY <2>3, <2>4
  <2> QED
    BY <1>8, <2>5 DEF Letters
<1>16. (\E g : Laid(g, open, read, c, elem))'
  <2>1. Stacks(open', read', c', elem')
    BY <1>4, <1>8, <1>10, <1>11, <1>13 DEF Stacks, Array
  <2>2. open # << >> => /\ open[m].letter = "d" => open[m].key # 0
                        /\ read'[Len(read) + 1].key = open[m].key
    BY <1>3 DEF Last, KeyExpected
  <2>3. open'[m + 1].at = Len(read) + 1 /\ open'[m + 1].letter = t
    BY <1>7, <1>8
  <2>4. /\ elem'[c'[Len(c) + 1]].tok = Len(read) + 1
        /\ elem'[c'[Len(c) + 1]].type = TypeOf(t)
    BY <1>10, <1>11, <1>12, <1>13
  <2>5. Opened(open, read, c, open', read', c', elem')
    BY <1>8, <1>9, <1>13, <2>2, <2>3, <2>4 DEF Opened
  <2>6. Kept(elem', elem)
    BY <1>10, <1>11
  <2>7. \E g : Laid(g, open', read', c', elem')
    BY <1>2, <1>3, <2>1, <2>5, <2>6, ContainerAdded
  <2> QED
    BY <2>7
<1>17. StatusAgrees'
  <2>1. Last(open)' = y
    BY <1>8 DEF Last
  <2> QED
    BY <1>7, <2>1 DEF StatusAgrees
<1>18. AcceptsAtEnd'
  <2>1. open' # << >>
    BY <1>4, <1>8
  <2> QED
    BY <1>1, <2>1 DEF AcceptsAtEnd
<1> QED
  BY <1>14, <1>15, <1>16, <1>17, <1>18 DEF IInv

\* A container ends: the outermost one, and the message is accepted, or the
\* next element of a list, or the value of the key below it on the stack.
LEMMA EndStep ==
    ASSUME IInv, ReadEnd
    PROVE  IInv'
<1> DEFINE here == Len(read) + 1
           m == Len(open)
<1>1. /\ Types /\ Letters /\ AcceptsAtEnd /\ "e" \in Token /\ ret = "running" /\ Send("e")
  BY DEF IInv, Token, ReadEnd
<1>2. PICK f : Laid(f, open, read, c, elem)
  BY DEF IInv
<1>3. /\ open # << >> /\ Longer(read', read) /\ open' = Front(open) /\ Last(open).key = 0
      /\ \A p \in 1 .. Len(read') : read'[p].in <= Len(read') /\ read'[p].key <= Len(read')
  BY <1>1, Sending
<1>4. /\ m \in 1 .. m /\ f[m] \in 1 .. Len(c) /\ c # << >> /\ Last(c) \in 1 .. Len(elem)
      /\ Len(c) = f[m]
  BY <1>2, <1>3, TopIs
<1>5. /\ Len(read') = here /\ read' \in Seq(Sent) /\ Len(read) \in Nat /\ m \in Nat
      /\ Array(elem, Len(read)) /\ Len(elem) \in Nat /\ c \in Seq(1 .. Len(elem))
      /\ open \in Seq(Container) /\ s \in Seq({"d", "l"}) /\ Len(c) \in Nat
      /\ \A i \in 1 .. m : open[i].at <= Len(read) /\ open[i].key <= Len(read)
  BY <1>1, <1>3 DEF Longer, Types, Array
<1>6. /\ open' \in Seq(Container) /\ Len(open') = m - 1
      /\ \A i \in 1 .. m - 1 : open'[i] = open[i]
  <2>1. open \in Seq(Container) /\ open # << >> /\ open' = Front(open)
    BY <1>3, <1>5
  <2> QED
    BY <2>1, FrontIs, Zenon
<1>7. \A i \in 1 .. m - 1 : i \in 1 .. m /\ open[i].key = 0 /\ open[i].at \in Nat
  <2>1. ASSUME NEW i \in 1 .. m - 1
        PROVE  i \in 1 .. m /\ i \in 1 .. Len(open) /\ i < Len(open)
    BY <1>5
  <2> QED
    BY <1>2, <2>1, LaidAt
<1>8. s # << >> /\ Len(s) = m /\ \A i \in 1 .. m : s[i] = open[i].letter /\ s[i] \in {"d", "l"}
  BY <1>3, PeekIs
<1>9. s' = Front(s)
  BY <1>4, <1>8 DEF ReadEnd
<1>10. /\ s' \in Seq({"d", "l"}) /\ Len(s') = m - 1 /\ \A i \in 1 .. m - 1 : s'[i] = s[i]
  BY <1>5, <1>8, <1>9, FrontIs
<1>11. Letters'
  <2>1. \A i \in 1 .. m - 1 : s'[i] = open'[i].letter
    BY <1>6, <1>7, <1>8, <1>10
  <2>2. s' = [i \in 1 .. m - 1 |-> s'[i]]
    BY <1>10, LenProperties
  <2>3. s' = [i \in 1 .. m - 1 |-> open'[i].letter]
    BY <2>1, <2>2
  <2> QED
    BY <1>6, <2>3 DEF Letters
<1>12. ASSUME NEW i \in 1 .. m - 1 PROVE open'[i].at <= here /\ open'[i].key <= here
  <2>1. open'[i] = open[i] /\ open[i].at <= Len(read) /\ open[i].key = 0 /\ open[i].at \in Nat
    BY <1>5, <1>6, <1>7
  <2> QED
    BY <1>5, <2>1
<1>13. ASSUME c' \in Seq(1 .. Len(elem')), status' \in {"WAIT_KEY", "WAIT_VAL"},
              Array(elem', here), ret' \in {"running", "accepted"}
       PROVE  Types'
  BY <1>3, <1>5, <1>6, <1>10, <1>12, <1>13 DEF Types
<1>14. CASE m = 1
  <2>1. f[1] = 1 /\ Len(c) = 1 /\ Len(s) = 1
    BY <1>2, <1>4, <1>8, <1>14 DEF Laid
  <2>2. ret' = "accepted" /\ c' = << >> /\ status' = status /\ elem' = elem
    BY <1>4, <1>8, <2>1 DEF ReadEnd
  <2>3. Array(elem', here)
    BY <1>5, <2>2, ArrayLasts
  <2>4. c' \in Seq(1 .. Len(elem'))
    BY <2>2
  <2>5. Types'
    BY <1>1, <1>13, <2>2, <2>3, <2>4 DEF Types
  <2>6. open' = << >> /\ Len(open') = 0 /\ read' # << >>
    BY <1>5, <1>6, <1>14, EmptySeq
  <2>7. (\E g : Laid(g, open, read, c, elem))'
    <3> DEFINE g == [i \in 1 .. 1 |-> 1]
    <3>1. Stacks(open', read', c', elem') /\ Len(c') = 0
      BY <1>5, <1>6, <2>2, <2>3, <2>4 DEF Stacks, Array
    <3>2. Laid(g, open', read', c', elem')
      BY <2>6, <3>1 DEF Laid
    <3> QED
      BY <3>2
  <2>8. StatusAgrees' /\ AcceptsAtEnd'
    BY <2>2, <2>6 DEF StatusAgrees, AcceptsAtEnd
  <2> QED
    BY <1>11, <2>5, <2>7, <2>8 DEF IInv
<1>15. CASE m > 1
  <2> DEFINE k == m - 1
             e == Last(c)
             top == c[Len(c) - 1]
  <2>1. k \in 1 .. m /\ k \in 1 .. k /\ k \in Nat /\ k < m /\ k + 1 = m
    BY <1>5, <1>15
  <2>2. /\ f[k] \in Nat \ {0} /\ f[m] = f[k] + 1 + Above(open, read, k)
        /\ elem[c[f[k]]].type = TypeOf(open[k].letter)
        /\ Waits(open, read, k) # 0 => /\ open[k].letter = "d"
                                       /\ elem[c[f[k] + 1]].type = "DICT_KEY"
        /\ open[k].letter = "d" => Waits(open, read, k) # 0
    BY <1>2, <2>1, LaidAt
  <2>3. open[k].letter \in {"d", "l"} /\ s[Len(s) - 1] = open[k].letter
    BY <1>8, <2>1
  <2>4. /\ open[k].letter = "d" => f[m] = f[k] + 2 /\ elem[top].type = "DICT_KEY"
        /\ open[k].letter = "l" => f[m] = f[k] + 1 /\ elem[top].type = "LIST_HEAD"
    <3>1. CASE open[k].letter = "d"
      <4>1. f[m] = f[k] + 2 /\ elem[c[f[k] + 1]].type = "DICT_KEY"
        BY <2>2, <3>1 DEF Above
      <4>2. Len(c) - 1 = f[k] + 1
        BY <1>4, <2>2, <4>1
      <4> QED
        BY <3>1, <4>1, <4>2
    <3>2. CASE open[k].letter = "l"
      <4>1. f[m] = f[k] + 1 /\ elem[c[f[k]]].type = "LIST_HEAD"
        BY <2>2, <3>2 DEF Above, TypeOf
      <4>2. Len(c) - 1 = f[k]
        BY <1>4, <2>2, <4>1
      <4> QED
        BY <3>2, <4>1, <4>2
    <3> QED
      BY <2>3, <3>1, <3>2
  <2>5. Len(c) > 1 /\ top \in 1 .. Len(elem) /\ f[k] \in 1 .. Len(c) - 1
    <3>1. Len(c) > 1 /\ f[k] \in 1 .. Len(c) - 1
      BY <1>4, <2>2, <2>3, <2>4
    <3>2. Len(c) - 1 \in 1 .. Len(c)
      BY <1>5, <3>1
    <3> QED
      BY <1>5, <3>1, <3>2, ElementOfSeq
  <2>6. Close(e, top) /\ ret' = ret
    BY <1>4, <1>8, <2>5 DEF ReadEnd
  <2> HIDE DEF e, top
  <2>7. e \in 1 .. Len(elem)
    BY <1>4 DEF e
  <2>8. /\ Front(c) \in Seq(1 .. Len(elem)) /\ Len(Front(c)) = Len(c) - 1
        /\ \A j \in 1 .. Len(c) - 1 : Front(c)[j] = c[j]
    BY <1>4, <1>5, FrontIs
  <2>9. /\ Array(elem', here) /\ Kept(elem', elem) /\ Len(elem') = Len(elem)
        /\ c' \in Seq(1 .. Len(elem)) /\ Len(c') = f[k] /\ \A j \in 1 .. f[k] : c'[j] = c[j]
        /\ status' = IF open[k].letter = "d" THEN "WAIT_KEY" ELSE status
    <3>1. CASE open[k].letter = "l"
      <4>1. elem' = Chained(elem, top, e) /\ c' = Front(c) /\ status' = status
        BY <2>4, <2>6, <3>1 DEF Close
      <4>2. Array(elem', Len(read)) /\ Kept(elem', elem) /\ Len(elem') = Len(elem)
        BY <1>5, <2>5, <2>7, <4>1, ChainGrows
      <4>3. Array(elem', here)
        BY <1>5, <4>2, ArrayLasts
      <4>4. Len(c) - 1 = f[k]
        BY <1>4, <2>2, <2>4, <3>1
      <4> QED
        BY <2>8, <3>1, <4>1, <4>2, <4>3, <4>4
    <3>2. CASE open[k].letter = "d"
      <4>1. elem' = [elem EXCEPT ![top].val = e] /\ c' = Front(Front(c)) /\ status' = "WAIT_KEY"
        BY <1>8, <1>15, <2>3, <2>4, <2>6, <3>2 DEF Close
      <4>2. Array(elem', Len(read)) /\ Kept(elem', elem) /\ Len(elem') = Len(elem)
        <5>1. Array(elem, Len(read)) /\ Len(read) \in Nat
          BY <1>5
        <5>2. /\ Array([elem EXCEPT ![top].val = e], Len(read))
              /\ Kept([elem EXCEPT ![top].val = e], elem)
              /\ Len([elem EXCEPT ![top].val = e]) = Len(elem)
          BY <2>5, <2>7, <5>1, ValueSet, Zenon
        <5> QED
          BY <4>1, <5>2, Zenon
      <4>3. Array(elem', here)
        BY <1>5, <4>2, ArrayLasts
      <4>4. Len(c) - 2 = f[k] /\ f[k] \in Nat \ {0}
        BY <1>4, <2>2, <2>4, <3>2
      <4>5. Front(c) # << >>
        BY <1>5, <2>5, <2>8, EmptySeq
      <4>6. /\ c' \in Seq(1 .. Len(elem)) /\ Len(c') = Len(Front(c)) - 1
            /\ \A j \in 1 .. Len(Front(c)) - 1 : c'[j] = Front(c)[j]
        BY <2>8, <4>1, <4>5, FrontIs
      <4>7. Len(Front(c)) - 1 = f[k] /\ \A j \in 1 .. f[k] : j \in 1 .. Len(c) - 1
        BY <1>5, <2>8, <4>4
      <4>8. Len(c') = f[k] /\ \A j \in 1 .. f[k] : c'[j] = c[j]
        BY <2>8, <4>6, <4>7
      <4> QED
        BY <3>2, <4>1, <4>2, <4>3, <4>6, <4>8
    <3> QED
      BY <2>3, <3>1, <3>2
  <2>10. Types'
    <3>1. status' \in {"WAIT_KEY", "WAIT_VAL"}
      BY <1>1, <2>3, <2>9 DEF Types
    <3> QED
      BY <1>1, <1>13, <2>6, <2>9, <3>1
  <2>11. (\E g : Laid(g, open, read, c, elem))'
    <3>1. Stacks(open', read', c', elem')
      BY <1>5, <1>6, <2>9 DEF Stacks, Array
    <3>2. Cut(f, k, open, c, open', c')
      BY <1>6, <1>7, <2>9 DEF Cut
    <3>3. \E g : Laid(g, open', read', c', elem')
      BY <1>2, <1>3, <2>1, <2>9, <3>1, <3>2, CutOff
    <3> QED
      BY <3>3
  <2>12. Last(open)' = open[k]
    BY <1>6, <2>1 DEF Last
  <2>13. StatusAgrees'
    BY <1>7, <2>1, <2>9, <2>12 DEF StatusAgrees
  <2>14. AcceptsAtEnd'
    <3>1. open' # << >>
      BY <1>6, <2>1
    <3> QED
      BY <1>1, <2>6, <3>1 DEF AcceptsAtEnd
  <2> QED
    BY <1>11, <2>10, <2>11, <2>13, <2>14 DEF IInv
<1>16. m = 1 \/ m > 1
  <2>1. m \in Nat /\ m \in 1 .. m
    BY <1>4, <1>5
  <2>2. \A k \in Nat : k \in 1 .. k => k = 1 \/ k > 1
    OBVIOUS
  <2> QED
    BY <2>1, <2>2, Zenon
<1> QED
  BY <1>14, <1>15, <1>16

\* A new value at the end of the array, which hangs on element head or nowhere.
LEMMA NewValue ==
    ASSUME IInv, NEW head \in 1 .. Len(elem)
    PROVE  /\ Array(With("DICT_VAL"), Len(read) + 1) /\ Kept(With("DICT_VAL"), elem)
           /\ Array([With("DICT_VAL") EXCEPT ![head].val = n], Len(read) + 1)
           /\ Kept([With("DICT_VAL") EXCEPT ![head].val = n], elem)
           /\ Array(Chained(With("DICT_VAL"), head, n), Len(read) + 1)
           /\ Kept(Chained(With("DICT_VAL"), head, n), elem)
<1>1. Array(elem, Len(read)) /\ Len(read) \in Nat /\ Len(elem) \in Nat
  BY DEF IInv, Types, Array
<1> DEFINE x == [type |-> "DICT_VAL", tok |-> Len(read) + 1, val |-> 0, next |-> 0]
           d == Append(elem, x)
           a == [d EXCEPT ![head].val = n]
           b == Chained(d, head, n)
<1>2. /\ Array(d, Len(read) + 1) /\ Kept(d, elem) /\ Len(d) = Len(elem) + 1
  BY <1>1, NewElement
<1>3. With("DICT_VAL") = d /\ n = Len(elem) + 1
  BY DEF With, New, n
<1> HIDE DEF x, d
<1>4. n \in 1 .. Len(d) /\ head \in 1 .. Len(d) /\ Len(d) \in Nat /\ Len(read) + 1 \in Nat
  BY <1>1, <1>2, <1>3
<1> DEFINE k == n
           here == Len(read) + 1
<1>5. Array(d, here) /\ here \in Nat /\ head \in 1 .. Len(d) /\ k \in 1 .. Len(d)
  BY <1>2, <1>4
<1> HIDE DEF k, here
<1>6. /\ Array(a, Len(read) + 1) /\ Kept(a, d) /\ Len(a) = Len(d)
      /\ Array(b, Len(read) + 1) /\ Kept(b, d) /\ Len(b) = Len(d)
  <2> DEFINE v == [d EXCEPT ![head].val = k]
             w == Chained(d, head, k)
  <2>1. Array(v, here) /\ Kept(v, d) /\ Len(v) = Len(d)
    BY <1>5, ValueSet
  <2>2. Array(w, here) /\ Kept(w, d) /\ Len(w) = Len(d)
    BY <1>5, ChainGrows
  <2> QED
    BY <2>1, <2>2 DEF k, here
<1> HIDE DEF a, b
<1>7. Kept(a, elem) /\ Kept(b, elem)
  <2>1. Len(a) \in Nat /\ Len(b) \in Nat
    BY <1>4, <1>6
  <2>2. Kept(a, elem)
    BY <1>1, <1>2, <1>4, <1>6, <2>1, KeptTwice, Zenon
  <2>3. Kept(b, elem)
    BY <1>1, <1>2, <1>4, <1>6, <2>1, KeptTwice, Zenon
  <2> QED
    BY <2>2, <2>3
<1> QED
  BY <1>2, <1>3, <1>6, <1>7 DEF a, b

\* Where a value is due: a key waits on top, or a list.
LEMMA ValueDue ==
    ASSUME IInv, open # << >>, ~ KeyExpected
    PROVE  /\ Last(c) \in 1 .. Len(elem)
           /\ Peek = Last(open).letter /\ Peek \in {"d", "l"}
           /\ Peek = "d" => elem[Last(c)].type = "DICT_KEY" /\ status = "WAIT_VAL"
           /\ Peek = "l" => elem[Last(c)].type = "LIST_HEAD"
<1>1. PICK f : Laid(f, open, read, c, elem)
  BY DEF IInv
<1>2. Peek = Last(open).letter
  BY PeekIs
<1>3. Peek = "d" => status = "WAIT_VAL"
  BY <1>2 DEF IInv, Types, StatusAgrees, KeyExpected
<1> QED
  BY <1>1, <1>2, <1>3, TopIs DEF KeyExpected

\* An integer: the value of a key, or an element of a list.
LEMMA IntStep ==
    ASSUME IInv, ReadInt
    PROVE  IInv'
<1>1. ret = "running" /\ Send("i") /\ UNCHANGED << s, ret >> /\ "i" \in Token
      /\ status' = IF Peek = "d" THEN Flip(status) ELSE status
  BY DEF ReadInt, Token
<1>2. open # << >> /\ ~ KeyExpected
  BY <1>1, Sending
<1>3. status' = IF Peek = "d" THEN "WAIT_KEY" ELSE status
  BY <1>1, <1>2, ValueDue DEF Flip
<1>4. c' = IF Last(open).letter = "d" THEN Front(c) ELSE c
  BY <1>2, ValueDue DEF ReadInt
<1>5. Array(elem', Len(read) + 1) /\ Kept(elem', elem)
  <2>1. CASE Peek = "d"
    <3>1. elem' = [With("DICT_VAL") EXCEPT ![Last(c)].val = n]
      BY <1>2, <2>1, ValueDue DEF ReadInt
    <3> QED
      BY <1>2, <3>1, ValueDue, NewValue
  <2>2. CASE Peek = "l"
    <3>1. elem' = Chained(With("DICT_VAL"), Last(c), n)
      BY <1>2, <2>2, ValueDue DEF ReadInt
    <3> QED
      BY <1>2, <3>1, ValueDue, NewValue
  <2> QED
    BY <1>2, <2>1, <2>2, ValueDue
<1> QED
  BY <1>1, <1>2, <1>3, <1>4, <1>5, ValueStep

\* A string that is not a key.
LEMMA StringStep ==
    ASSUME IInv, ReadValue \/ ReadElement
    PROVE  IInv'
<1>1. ret = "running" /\ Send("s") /\ UNCHANGED << s, ret >> /\ "s" \in Token
  BY DEF ReadValue, ReadElement, Token
<1>2. open # << >> /\ ~ KeyExpected
  <2>1. open # << >>
    BY <1>1, Sending
  <2>2. CASE ReadValue
    BY <2>1, <2>2, PeekIs DEF ReadValue, IInv, StatusAgrees, KeyExpected
  <2>3. CASE ReadElement
    BY <2>1, <2>3, PeekIs DEF ReadElement, KeyExpected
  <2> QED
    BY <2>1, <2>2, <2>3
<1>3. CASE ReadValue
  <2>1. Peek = "d" /\ status' = "WAIT_KEY"
    BY <1>3 DEF ReadValue
  <2>2. elem' = [With("DICT_VAL") EXCEPT ![Last(c)].val = n] /\ c' = Front(c)
    BY <1>2, <1>3, <2>1, ValueDue DEF ReadValue
  <2>3. Array(elem', Len(read) + 1) /\ Kept(elem', elem)
    BY <1>2, <2>2, ValueDue, NewValue
  <2>4. c' = IF Last(open).letter = "d" THEN Front(c) ELSE c
    BY <1>2, <2>1, <2>2, ValueDue
  <2>5. status' = IF Peek = "d" THEN "WAIT_KEY" ELSE status
    BY <2>1
  <2> QED
    BY <1>1, <1>2, <2>3, <2>4, <2>5, ValueStep
<1>4. CASE ReadElement
  <2>1. Peek = "l" /\ status' = status /\ c' = c
        /\ elem' = Chained(With("DICT_VAL"), Last(c), n)
    BY <1>4 DEF ReadElement
  <2>2. Array(elem', Len(read) + 1) /\ Kept(elem', elem)
    BY <1>2, <2>1, ValueDue, NewValue
  <2>3. c' = IF Last(open).letter = "d" THEN Front(c) ELSE c
    BY <1>2, <2>1, ValueDue
  <2>4. status' = IF Peek = "d" THEN "WAIT_KEY" ELSE status
    BY <2>1
  <2> QED
    BY <1>1, <1>2, <2>2, <2>3, <2>4, ValueStep
<1> QED
  BY <1>3, <1>4

\* The empty string, which takes its key from the stack but makes no element.
LEMMA EmptyStep ==
    ASSUME IInv, ReadEmpty
    PROVE  IInv'
<1>1. ret = "running" /\ Send("z") /\ UNCHANGED << s, elem, ret >> /\ "z" \in Token
      /\ status' = (IF Peek = "d" THEN Flip(status) ELSE status)
      /\ c' = IF Peek = "d" /\ status = "WAIT_VAL" THEN Front(c) ELSE c
  BY DEF ReadEmpty, Token
<1>2. open # << >> /\ ~ KeyExpected
  BY <1>1, Sending
<1>3. status' = IF Peek = "d" THEN "WAIT_KEY" ELSE status
  BY <1>1, <1>2, ValueDue DEF Flip
<1>4. c' = IF Last(open).letter = "d" THEN Front(c) ELSE c
  BY <1>1, <1>2, ValueDue
<1>5. Array(elem', Len(read) + 1) /\ Kept(elem', elem)
  <2>1. Array(elem, Len(read)) /\ Len(read) \in Nat /\ elem' = elem
    BY <1>1 DEF IInv, Types
  <2> QED
    BY <2>1, ArrayLasts
<1> QED
  BY <1>1, <1>2, <1>3, <1>4, <1>5, ValueStep

-----------------------------------------------------------------------------
(***************************************************************************)
(* The theorems.                                                           *)
(***************************************************************************)
LEMMA InitIInv ==
    ASSUME Init
    PROVE  IInv
<1>1. /\ read = <<>> /\ open = <<>> /\ s = <<>> /\ c = <<>> /\ elem = <<>> /\ ret = "running"
      /\ status \in {"WAIT_KEY", "WAIT_VAL"}
  BY DEF Init
<1>2. Types
  BY <1>1 DEF Types, Array
<1>3. Letters
  BY <1>1 DEF Letters
<1>4. \E f : Laid(f, open, read, c, elem)
  <2> DEFINE g == [i \in 1 .. 1 |-> 1]
  <2>1. Stacks(open, read, c, elem) /\ Len(open) = 0 /\ Len(c) = 0
    BY <1>1, <1>2 DEF Stacks, Types, Array
  <2>2. Laid(g, open, read, c, elem)
    BY <2>1 DEF Laid
  <2> QED
    BY <2>2
<1>5. StatusAgrees /\ AcceptsAtEnd
  BY <1>1 DEF StatusAgrees, AcceptsAtEnd
<1> QED
  BY <1>2, <1>3, <1>4, <1>5 DEF IInv

\* Every round of ben_coding keeps the invariant.
LEMMA NextIInv ==
    ASSUME IInv, [Next]_vars
    PROVE  IInv'
<1>1. CASE ReadDict
  <2>1. ret = "running" /\ Send("d") /\ s' = Append(s, "d") /\ elem' = With("DICT")
        /\ c' = Append(c, n) /\ status' = "WAIT_KEY" /\ ret' = ret
    BY <1>1 DEF ReadDict
  <2>2. TypeOf("d") = "DICT" /\ "d" \in {"d", "l"}
    BY DEF TypeOf
  <2> QED
    BY <2>1, <2>2, OpenStep
<1>2. CASE ReadList
  <2>1. ret = "running" /\ Send("l") /\ s' = Append(s, "l") /\ elem' = With("LIST_HEAD")
        /\ c' = Append(c, n) /\ status' = status /\ ret' = ret
    BY <1>2 DEF ReadList
  <2>2. TypeOf("l") = "LIST_HEAD" /\ "l" \in {"d", "l"} /\ "l" # "d"
    BY DEF TypeOf
  <2> QED
    BY <2>1, <2>2, OpenStep
<1>3. CASE ReadInt
  BY <1>3, IntStep
<1>4. CASE ReadKey
  BY <1>4, KeyStep
<1>5. CASE ReadValue \/ ReadElement
  BY <1>5, StringStep
<1>6. CASE ReadEmpty
  BY <1>6, EmptyStep
<1>7. CASE ReadEnd
  BY <1>7, EndStep
<1>8. CASE UNCHANGED vars
  BY <1>8 DEF IInv, Types, Letters, StatusAgrees, AcceptsAtEnd, KeyExpected, vars
<1> QED
  BY <1>1, <1>2, <1>3, <1>4, <1>5, <1>6, <1>7, <1>8 DEF Next

\* The stacks, the status, the array and the verdict of ben_coding always fit
\* the message read so far.
THEOREM ParserInvariance == Spec => []IInv
<1>1. Init => IInv
  BY InitIInv
<1>2. IInv /\ [Next]_vars => IInv'
  BY NextIInv
<1> QED
  BY <1>1, <1>2, PTL DEF Spec

\* The variables of ben_coding keep their types, and each element comes from a
\* token of its own: the array dict.e is never fuller than the packet is long.
THEOREM ParserTypeCorrect == Spec => []TypeOK
<1>1. IInv => TypeOK
  <2> SUFFICES ASSUME IInv PROVE TypeOK
    OBVIOUS
  <2>1. Types /\ Len(read) \in Nat /\ Array(elem, Len(read)) /\ Len(elem) \in Nat
    BY DEF IInv, Types, Array
  <2>2. ASSUME NEW p \in 1 .. Len(read)
        PROVE  read[p] \in [tok : Token, in : Place, key : Place]
    <3>1. read[p] \in Sent /\ read[p].in <= Len(read) /\ read[p].key <= Len(read)
      BY <2>1, ElementOfSeq DEF Types
    <3> QED
      BY <2>1, <3>1 DEF Sent, Place
  <2>3. ASSUME NEW i \in 1 .. Len(open)
        PROVE  open[i] \in [at : Place, letter : {"d", "l"}, key : Place]
    <3>1. open[i] \in Container /\ open[i].at <= Len(read) /\ open[i].key <= Len(read)
      BY <2>1, ElementOfSeq DEF Types
    <3> QED
      BY <2>1, <3>1 DEF Container, Place
  <2>4. ASSUME NEW i \in 1 .. Len(elem)
        PROVE  /\ elem[i] \in [type : {"DICT", "LIST_HEAD", "DICT_KEY", "DICT_VAL"}, tok : Place,
                               val : 0 .. Len(elem), next : 0 .. Len(elem)]
               /\ i < Len(elem) => elem[i].tok < elem[i + 1].tok
    <3>1. /\ elem \in Seq(Element) /\ elem[i].val <= Len(elem) /\ elem[i].next <= Len(elem)
          /\ elem[i].tok <= Len(read) /\ (i < Len(elem) => elem[i].tok < elem[i + 1].tok)
      BY <2>1 DEF Array
    <3>2. elem[i] \in Element
      BY <3>1, ElementOfSeq
    <3> QED
      BY <2>1, <3>1, <3>2 DEF Element, Place
  <2> QED
    BY <2>1, <2>2, <2>3, <2>4 DEF TypeOK, Types
<1> QED
  BY <1>1, ParserInvariance, PTL

\* In a dictionary, the one status variable says whether a key or a value comes
\* next, whatever was nested in it and has ended.
THEOREM StatusFollowsNesting == Spec => []StatusAgrees
<1>1. IInv => StatusAgrees
  BY DEF IInv
<1> QED
  BY <1>1, ParserInvariance, PTL

\* The stack of letters and the stack of elements describe the same containers,
\* with the keys that wait in between.
THEOREM StacksStayAligned == Spec => []StacksAgree
<1>1. IInv => StacksAgree
  <2> SUFFICES ASSUME IInv PROVE StacksAgree
    OBVIOUS
  <2>1. PICK f : Laid(f, open, read, c, elem)
    BY DEF IInv
  <2> QED
    BY <2>1, CtxForIs DEF IInv, Letters, StacksAgree
<1> QED
  BY <1>1, ParserInvariance, PTL

\* No token of a well-formed message is refused, and the message is accepted
\* with its last token and no earlier one, however deep it is nested.
THEOREM MessagesAreAccepted == Spec => []AcceptsAtEnd
<1>1. IInv => AcceptsAtEnd
  BY DEF IInv
<1> QED
  BY <1>1, ParserInvariance, PTL

-----------------------------------------------------------------------------
(***************************************************************************)
(* Descending lists and chains.                                            *)
(***************************************************************************)
\* The numbers of S above x, and the sequence Descending of BenParser.
Higher(x, S) == {y \in S : y > x}

Greatest(x, S) == IF S = {} THEN x = 0 ELSE x \in S /\ \A y \in S : y <= x

\* How many numbers of a set are above one of them tells which one it is, and
\* is one more for the next lower one.
LEMMA HigherIs ==
    ASSUME NEW m \in Nat, NEW S \in SUBSET (1 .. m)
    PROVE  /\ IsFiniteSet(S) /\ Cardinality(S) \in Nat
           /\ \A x \in S : Cardinality(Higher(x, S)) \in 0 .. Cardinality(S) - 1
           /\ \A x, y \in S : y < x => Cardinality(Higher(x, S)) < Cardinality(Higher(y, S))
<1>0. \A x \in S : x \in Nat
  OBVIOUS
<1>1. IsFiniteSet(1 .. m)
  BY FS_Interval
<1>2. IsFiniteSet(S) /\ Cardinality(S) \in Nat
  BY <1>1, FS_Subset, FS_CardinalityType
<1>3. ASSUME NEW R \in SUBSET S, NEW Q \in SUBSET R, NEW z \in R, z \notin Q
      PROVE  /\ Cardinality(Q) \in Nat /\ Cardinality(R) \in Nat
             /\ Cardinality(Q) < Cardinality(R)
  <2>1. IsFiniteSet(R) /\ Cardinality(R) \in Nat
    BY <1>2, FS_Subset, FS_CardinalityType
  <2>2. /\ IsFiniteSet(Q) /\ Cardinality(Q) \in Nat /\ Cardinality(Q) <= Cardinality(R)
        /\ Cardinality(R) = Cardinality(Q) => R = Q
    BY <2>1, FS_Subset, FS_CardinalityType
  <2>3. Cardinality(R) # Cardinality(Q)
    BY <1>3, <2>2
  <2> QED
    BY <2>1, <2>2, <2>3
<1>4. ASSUME NEW x \in S PROVE Cardinality(Higher(x, S)) \in 0 .. Cardinality(S) - 1
  <2>1. Higher(x, S) \in SUBSET S /\ x \notin Higher(x, S)
    BY DEF Higher
  <2>2. Cardinality(Higher(x, S)) \in Nat /\ Cardinality(Higher(x, S)) < Cardinality(S)
    BY <1>3, <2>1
  <2> QED
    BY <1>2, <2>2
<1>5. ASSUME NEW x \in S, NEW y \in S, y < x
      PROVE  Cardinality(Higher(x, S)) < Cardinality(Higher(y, S))
  <2>1. /\ Higher(y, S) \in SUBSET S /\ Higher(x, S) \in SUBSET Higher(y, S)
        /\ x \in Higher(y, S) /\ x \notin Higher(x, S)
    <3>1. x > y /\ ~ (x > x) /\ \A z \in S : z > x => z > y
      BY <1>0, <1>5
    <3> QED
      BY <3>1, Zenon DEF Higher
  <2> QED
    BY <1>3, <2>1
<1> QED
  BY <1>2, <1>4, <1>5

\* The greatest number has none above it; below x, either there is no number
\* left, or the greatest has one more above it than x.
LEMMA NextLower ==
    ASSUME NEW m \in Nat, NEW S \in SUBSET (1 .. m), NEW x \in S
    PROVE  /\ (\A y \in S : y <= x) => Cardinality(Higher(x, S)) = 0
           /\ {y \in S : y < x} = {} => Cardinality(S) = Cardinality(Higher(x, S)) + 1
           /\ \A y \in S : y < x /\ (\A z \in S : z < x => z <= y) =>
                 Cardinality(Higher(y, S)) = Cardinality(Higher(x, S)) + 1
<1>0. \A y \in S : y \in Nat
  OBVIOUS
<1>1. IsFiniteSet(S)
  BY HigherIs
<1>2. /\ IsFiniteSet(Higher(x, S)) /\ x \notin Higher(x, S)
      /\ Cardinality(Higher(x, S) \cup {x}) = Cardinality(Higher(x, S)) + 1
  <2>1. Higher(x, S) \in SUBSET S /\ x \notin Higher(x, S)
    BY DEF Higher
  <2>2. IsFiniteSet(Higher(x, S))
    BY <1>1, <2>1, FS_Subset
  <2> QED
    BY <2>1, <2>2, FS_AddElement
<1>3. ASSUME \A y \in S : y <= x PROVE Cardinality(Higher(x, S)) = 0
  <2>1. \A y \in S : ~ (y > x)
    BY <1>0, <1>3
  <2>2. Higher(x, S) = {}
    BY <2>1, Zenon DEF Higher
  <2> QED
    BY <2>2, FS_EmptySet
<1>4. ASSUME {y \in S : y < x} = {} PROVE Cardinality(S) = Cardinality(Higher(x, S)) + 1
  <2>1. \A y \in S : y = x \/ y > x
    BY <1>0, <1>4
  <2>2. S = Higher(x, S) \cup {x}
    BY <2>1 DEF Higher
  <2> QED
    BY <1>2, <2>2
<1>5. ASSUME NEW y \in S, y < x, \A z \in S : z < x => z <= y
      PROVE  Cardinality(Higher(y, S)) = Cardinality(Higher(x, S)) + 1
  <2>1. \A z \in S : z > y <=> z > x \/ z = x
    BY <1>0, <1>5
  <2>2. Higher(y, S) = Higher(x, S) \cup {x}
    BY <2>1 DEF Higher
  <2> QED
    BY <1>2, <2>2
<1> QED
  BY <1>3, <1>4, <1>5

\* What Descending lists: from the greatest number down, each the greatest
\* below the one before, and none is left out.
LEMMA DescendingIs ==
    ASSUME NEW m \in Nat, NEW S \in SUBSET (1 .. m)
    PROVE  LET d == Descending(S)
               k == Cardinality(S)
           IN  /\ k \in Nat /\ d = [i \in 0 .. k - 1 |-> d[i]]
               /\ S = {} <=> k = 0
               /\ \A i \in 0 .. k - 1 : d[i] \in S
               /\ S # {} => \A y \in S : y <= d[0] /\ d[k - 1] <= y
               /\ \A i \in 1 .. k - 1 : /\ d[i] < d[i - 1]
                                        /\ \A y \in S : y < d[i - 1] => y <= d[i]
<1> DEFINE k == Cardinality(S)
           R(x) == Cardinality(Higher(x, S))
           d == Descending(S)
<1>0. \A x \in S : x \in Nat
  OBVIOUS
<1>1. IsFiniteSet(S) /\ k \in Nat /\ \A x \in S : R(x) \in 0 .. k - 1
  BY HigherIs
<1>2. S = {} <=> k = 0
  BY <1>1, FS_EmptySet
<1>3. \A x, y \in S : y < x => R(x) < R(y)
  BY HigherIs
<1>4. \A x, y \in S : R(x) = R(y) => x = y
  <2>1. \A x, y \in S : x = y \/ x < y \/ y < x
    OBVIOUS
  <2>2. \A x \in S : R(x) \in Int
    BY <1>1
  <2> HIDE DEF R
  <2> QED
    BY <1>3, <2>1, <2>2
<1>5. /\ \A x \in S : (\A y \in S : y <= x) => R(x) = 0
      /\ \A x \in S : {y \in S : y < x} = {} => k = R(x) + 1
      /\ \A x, y \in S : y < x /\ (\A z \in S : z < x => z <= y) => R(y) = R(x) + 1
  BY NextLower
<1>6. d = [i \in 0 .. k - 1 |-> CHOOSE x \in S : R(x) = i]
  BY DEF Descending, Higher
<1> HIDE DEF R, d, k
<1>7. \A Q \in SUBSET S : Q # {} => \E x \in Q : \A y \in Q : y <= x
  <2> SUFFICES ASSUME NEW Q \in SUBSET S, Q # {} PROVE \E x \in Q : \A y \in Q : y <= x
    OBVIOUS
  <2>1. Q \in SUBSET (0 .. m)
    OBVIOUS
  <2> QED
    BY <2>1, GreatestNat
<1>8. ASSUME NEW i \in 0 .. k - 1 PROVE \E x \in S : R(x) = i
  <2> DEFINE Bad == {j \in 0 .. k - 1 : \A x \in S : R(x) # j}
  <2>1. SUFFICES ASSUME Bad # {} PROVE FALSE
    OBVIOUS
  <2>2. PICK j \in Bad : \A l \in Bad : j <= l
    <3>1. Bad \in SUBSET Nat
      BY <1>1
    <3> QED
      BY <2>1, <3>1, LeastNat
  <2>3. S # {}
    BY <1>1, <1>2
  <2>4. j \in 0 .. k - 1 /\ \A x \in S : R(x) # j
    OBVIOUS
  <2>5. CASE j = 0
    <3>1. PICK x \in S : \A y \in S : y <= x
      BY <1>7, <2>3
    <3> QED
      BY <1>5, <2>4, <2>5, <3>1
  <2>6. CASE j # 0
    <3>1. j - 1 \in 0 .. k - 1 /\ ~ (j <= j - 1)
      BY <1>1, <2>4, <2>6
    <3>2. j - 1 \notin Bad
      BY <2>2, <3>1
    <3>3. PICK x \in S : R(x) = j - 1
      BY <3>1, <3>2
    <3>4. {y \in S : y < x} # {}
      BY <1>1, <1>5, <2>4, <3>3
    <3>5. PICK y \in {z \in S : z < x} : \A z \in {z \in S : z < x} : z <= y
      <4>1. {z \in S : z < x} \in SUBSET S
        OBVIOUS
      <4> QED
        BY <1>7, <3>4, <4>1
    <3>6. R(y) = R(x) + 1
      BY <1>5, <3>5
    <3> QED
      BY <2>4, <3>3, <3>6
  <2> QED
    BY <2>5, <2>6
<1>9. \A i \in 0 .. k - 1 : d[i] \in S /\ R(d[i]) = i
  <2> SUFFICES ASSUME NEW i \in 0 .. k - 1 PROVE d[i] \in S /\ R(d[i]) = i
    OBVIOUS
  <2>1. d[i] = CHOOSE x \in S : R(x) = i
    BY <1>6
  <2> QED
    BY <1>8, <2>1
<1>10. ASSUME S # {}, NEW y \in S PROVE y <= d[0] /\ d[k - 1] <= y
  <2>1. k \in Nat \ {0} /\ 0 \in 0 .. k - 1 /\ k - 1 \in 0 .. k - 1
    BY <1>1, <1>2, <1>10
  <2>2. /\ d[0] \in S /\ R(d[0]) = 0 /\ d[k - 1] \in S /\ R(d[k - 1]) = k - 1
        /\ R(y) \in 0 .. k - 1
    BY <1>1, <1>9, <2>1
  <2>3. ~ (d[0] < y) /\ ~ (y < d[k - 1])
    <3>1. (d[0] < y => R(y) < R(d[0])) /\ (y < d[k - 1] => R(d[k - 1]) < R(y))
      BY <1>3, <2>2
    <3> QED
      BY <2>1, <2>2, <3>1
  <2>4. d[0] \in Nat /\ d[k - 1] \in Nat /\ y \in Nat
    BY <1>0, <2>2
  <2> QED
    BY <2>3, <2>4
<1>11. ASSUME NEW i \in 1 .. k - 1
       PROVE  d[i] < d[i - 1] /\ \A y \in S : y < d[i - 1] => y <= d[i]
  <2>1. i \in 0 .. k - 1 /\ i - 1 \in 0 .. k - 1
    BY <1>1
  <2>2. /\ d[i] \in S /\ R(d[i]) = i /\ d[i - 1] \in S /\ R(d[i - 1]) = i - 1
    BY <1>9, <2>1
  <2>3. ~ (d[i - 1] < d[i]) /\ d[i] # d[i - 1]
    <3>1. d[i - 1] < d[i] => R(d[i]) < R(d[i - 1])
      BY <1>3, <2>2
    <3>2. i - 1 # i /\ ~ (i < i - 1)
      OBVIOUS
    <3> QED
      BY <2>2, <3>1, <3>2
  <2>4. ASSUME NEW y \in S, y < d[i - 1] PROVE ~ (d[i] < y)
    <3>1. R(y) > i - 1 /\ (d[i] < y => R(y) < i)
      BY <1>3, <2>2, <2>4
    <3>2. R(y) \in 0 .. k - 1
      BY <1>1
    <3> QED
      BY <2>1, <3>1, <3>2
  <2>5. d[i] \in Nat /\ d[i - 1] \in Nat
    BY <1>0, <2>2
  <2> QED
    BY <1>0, <2>3, <2>4, <2>5
<1>12. d = [i \in 0 .. k - 1 |-> d[i]]
  BY <1>6
<1> QED
  BY <1>1, <1>2, <1>9, <1>10, <1>11, <1>12 DEF d, k

\* Elements stand in the array in the order of their tokens.
LEMMA ToksRise ==
    ASSUME NEW e, NEW last \in Nat, Array(e, last),
           NEW i \in 1 .. Len(e), NEW j \in 1 .. Len(e), i < j
    PROVE  e[i].tok < e[j].tok
<1> DEFINE Bad == {k \in i + 1 .. Len(e) : ~ (e[i].tok < e[k].tok)}
<1>1. Len(e) \in Nat /\ \A k \in 1 .. Len(e) : e[k].tok \in Nat
  <2>1. e \in Seq(Element)
    BY DEF Array
  <2> QED
    BY <2>1, ElementOfSeq, FieldTypes
<1>2. SUFFICES ASSUME Bad # {} PROVE FALSE
  BY <1>1
<1>3. PICK k \in Bad : \A l \in Bad : k <= l
  <2>1. Bad \in SUBSET Nat
    BY <1>1
  <2> QED
    BY <1>2, <2>1, LeastNat
<1>4. k \in i + 1 .. Len(e) /\ ~ (e[i].tok < e[k].tok)
  OBVIOUS
<1>5. k - 1 \in 1 .. Len(e) /\ k - 1 < Len(e) /\ (k - 1) + 1 = k
  BY <1>1, <1>4
<1>6. e[k - 1].tok < e[k].tok
  BY <1>5 DEF Array
<1>7. CASE k - 1 = i
  BY <1>4, <1>6, <1>7
<1>8. CASE k - 1 # i
  <2>1. k - 1 \in i + 1 .. Len(e) /\ ~ (k <= k - 1)
    BY <1>1, <1>4, <1>8
  <2>2. e[i].tok < e[k - 1].tok
    BY <1>3, <2>1
  <2>3. e[i].tok \in Nat /\ e[k - 1].tok \in Nat /\ e[k].tok \in Nat
    BY <1>1, <1>4, <1>5
  <2> QED
    BY <1>4, <1>6, <2>2, <2>3
<1> QED
  BY <1>7, <1>8

\* A chain that starts at the greatest of some elements and leads from each to
\* the next lower one shows all of them, the last token first.
LEMMA ChainIs ==
    ASSUME NEW last \in Nat, Array(elem, last), NEW M \in SUBSET (1 .. Len(elem)),
           NEW x, Greatest(x, M),
           \A j \in M : elem[j].tok # 0 /\ Greatest(elem[j].next, {l \in M : l < j})
    PROVE  ChainFrom(x) = Descending({elem[j].tok : j \in M})
<1> DEFINE L == Len(elem)
           S == {elem[j].tok : j \in M}
           d == Descending(S)
           k == Cardinality(S)
           At(t) == CHOOSE j \in M : elem[j].tok = t
           G == [i \in 0 .. L |-> IF i < k THEN At(d[i]) ELSE 0]
           Rec(h) == [i \in 0 .. L |-> IF i = 0 THEN x
                                       ELSE IF h[i - 1] = 0 THEN 0 ELSE elem[h[i - 1]].next]
<1>1. L \in Nat /\ \A j \in 1 .. L : elem[j].tok \in Nat /\ elem[j].tok <= last
  <2>1. elem \in Seq(Element)
    BY DEF Array
  <2> QED
    BY <2>1, ElementOfSeq, FieldTypes DEF Array
<1>2. \A i, j \in M : i < j <=> elem[i].tok < elem[j].tok
  <2>1. \A i, j \in 1 .. L : i < j => elem[i].tok < elem[j].tok
    BY ToksRise
  <2>2. \A i, j \in 1 .. L : i = j \/ i < j \/ j < i
    OBVIOUS
  <2> QED
    BY <1>1, <2>1, <2>2
<1>0. \A j \in M : j \in 1 .. L /\ j \in Nat
  OBVIOUS
<1>3. S \in SUBSET (1 .. last)
  <2>1. ASSUME NEW j \in M PROVE elem[j].tok \in 1 .. last
    <3>1. elem[j].tok \in Nat /\ elem[j].tok <= last /\ elem[j].tok # 0
      BY <1>0, <1>1
    <3> QED
      BY <3>1
  <2> QED
    BY <2>1
<1>4. /\ k \in Nat /\ d = [i \in 0 .. k - 1 |-> d[i]]
      /\ S = {} <=> k = 0
      /\ \A i \in 0 .. k - 1 : d[i] \in S
      /\ S # {} => \A y \in S : y <= d[0] /\ d[k - 1] <= y
      /\ \A i \in 1 .. k - 1 : /\ d[i] < d[i - 1]
                               /\ \A y \in S : y < d[i - 1] => y <= d[i]
  BY <1>3, DescendingIs
<1>5. k <= L
  <2> DEFINE g == [j \in M |-> elem[j].tok]
  <2>1. IsFiniteSet(M) /\ Cardinality(M) <= L /\ Cardinality(M) \in Nat
    <3>1. IsFiniteSet(1 .. L) /\ Cardinality(1 .. L) = L
      <4>1. /\ IsFiniteSet(1 .. L)
            /\ Cardinality(1 .. L) = IF 1 > L THEN 0 ELSE L - 1 + 1
        <5>1. 1 \in Int /\ L \in Int
          BY <1>1
        <5> HIDE DEF L
        <5> QED
          BY <5>1, FS_Interval
      <4>2. \A l \in Nat : (IF 1 > l THEN 0 ELSE l - 1 + 1) = l
        OBVIOUS
      <4> QED
        BY <1>1, <4>1, <4>2, Zenon
    <3> QED
      BY <3>1, FS_Subset, FS_CardinalityType
  <2>2. g \in Surjection(M, S)
    BY DEF Surjection
  <2>3. k <= Cardinality(M)
    BY <2>1, <2>2, FS_Surjection
  <2> QED
    BY <1>1, <1>4, <2>1, <2>3
<1> HIDE DEF d, k
<1>6. /\ \A t \in S : At(t) \in M /\ elem[At(t)].tok = t
      /\ \A j \in M : elem[j].tok \in S /\ At(elem[j].tok) = j
  <2>1. \A t \in S : At(t) \in M /\ elem[At(t)].tok = t
    OBVIOUS
  <2>2. \A j \in M : elem[j].tok \in S
    OBVIOUS
  <2>3. \A i, j \in M : elem[i].tok = elem[j].tok => i = j
    <3>1. \A i, j \in M : i = j \/ i < j \/ j < i
      OBVIOUS
    <3>2. \A j \in M : ~ (elem[j].tok < elem[j].tok)
      BY <1>1
    <3> HIDE DEF S, At
    <3> QED
      BY <1>2, <3>1, <3>2
  <2> HIDE DEF At
  <2> QED
    BY <2>1, <2>2, <2>3
<1>7. S = {} <=> M = {}
  OBVIOUS
<1> HIDE DEF S, At
<1>8. \A t \in S : t \in 1 .. last
  BY <1>3
<1>9. \A i \in 0 .. L : G[i] = IF i < k THEN At(d[i]) ELSE 0
  OBVIOUS
<1>10. \A i \in 0 .. L : i < k => G[i] \in M /\ G[i] # 0 /\ elem[G[i]].tok = d[i]
  <2> SUFFICES ASSUME NEW i \in 0 .. L, i < k
               PROVE  G[i] \in M /\ G[i] # 0 /\ elem[G[i]].tok = d[i]
    OBVIOUS
  <2>1. i \in 0 .. k - 1
    BY <1>4
  <2>2. d[i] \in S
    BY <1>4, <2>1
  <2>3. G[i] = At(d[i])
    BY <1>9
  <2>4. G[i] \in M /\ elem[G[i]].tok = d[i]
    BY <1>6, <2>2, <2>3
  <2> QED
    BY <2>4
<1> HIDE DEF G
<1>11. G[0] = x
  <2>1. 0 \in 0 .. L
    BY <1>1
  <2>2. CASE M = {}
    BY <1>4, <1>7, <1>9, <2>1, <2>2 DEF Greatest
  <2>3. CASE M # {}
    <3>1. 0 < k
      BY <1>4, <1>7, <2>3
    <3>2. G[0] \in M /\ elem[G[0]].tok = d[0] /\ x \in M /\ G[0] <= x
      BY <1>10, <2>1, <2>3, <3>1 DEF Greatest
    <3>3. elem[x].tok <= d[0]
      BY <1>4, <1>6, <1>7, <2>3, <3>2
    <3>4. ~ (G[0] < x)
      <4>1. elem[x].tok \in Nat /\ elem[G[0]].tok \in Nat
        BY <1>1, <3>2
      <4> QED
        BY <1>2, <3>2, <3>3, <4>1
    <3>5. G[0] \in Nat /\ x \in Nat
      BY <1>0, <3>2
    <3> QED
      BY <3>2, <3>4, <3>5
  <2> QED
    BY <2>2, <2>3
<1>12. ASSUME NEW i \in 1 .. L
       PROVE  G[i] = IF G[i - 1] = 0 THEN 0 ELSE elem[G[i - 1]].next
  <2>1. i \in 0 .. L /\ i - 1 \in 0 .. L
    BY <1>1
  <2>2. CASE ~ (i - 1 < k)
    <3>1. ~ (i < k)
      BY <1>4, <2>2
    <3> QED
      BY <1>9, <2>1, <2>2, <3>1
  <2>3. CASE i - 1 < k
    <3> DEFINE j == G[i - 1]
               B == {l \in M : l < j}
    <3>1. j \in M /\ j # 0 /\ elem[j].tok = d[i - 1] /\ Greatest(elem[j].next, B)
      BY <1>10, <2>1, <2>3
    <3>2. CASE i = k
      <4>1. \A l \in M : d[i - 1] <= elem[l].tok
        BY <1>4, <1>6, <1>7, <3>1, <3>2
      <4>2. \A l \in M : ~ (elem[l].tok < d[i - 1])
        <5>1. d[i - 1] \in Nat /\ \A l \in M : elem[l].tok \in Nat
          BY <1>1, <3>1
        <5> HIDE DEF j
        <5> QED
          BY <4>1, <5>1
      <4>3. \A l \in M : ~ (l < j)
        BY <1>2, <3>1, <4>2
      <4>4. B = {}
        BY <4>3
      <4>5. elem[j].next = 0 /\ G[i] = 0
        BY <1>9, <2>1, <3>1, <3>2, <4>4 DEF Greatest
      <4> QED
        BY <3>1, <4>5
    <3>3. CASE i < k
      <4>1. i \in 1 .. k - 1
        BY <1>4, <3>3
      <4>2. d[i] < d[i - 1] /\ \A y \in S : y < d[i - 1] => y <= d[i]
        BY <1>4, <4>1
      <4>3. G[i] \in M /\ elem[G[i]].tok = d[i]
        BY <1>10, <2>1, <3>3
      <4>4. G[i] \in B
        BY <1>2, <3>1, <4>2, <4>3
      <4> DEFINE v == elem[j].next
      <4>5. v \in M /\ v < j /\ G[i] <= v
        BY <3>1, <4>4 DEF Greatest
      <4> HIDE DEF v, j
      <4>6. elem[v].tok <= d[i]
        BY <1>2, <1>6, <3>1, <4>2, <4>5
      <4>7. ~ (G[i] < v)
        <5>1. elem[v].tok \in Nat /\ elem[G[i]].tok \in Nat
          BY <1>1, <4>3, <4>5
        <5> QED
          BY <1>2, <1>4, <4>3, <4>5, <4>6, <5>1
      <4>8. G[i] = v
        <5>1. G[i] \in Nat /\ v \in Nat
          BY <1>0, <4>3, <4>5
        <5> QED
          BY <4>5, <4>7, <5>1
      <4> QED
        BY <3>1, <4>8 DEF v, j
    <3>4. i = k \/ i < k
      BY <1>4, <2>3
    <3> QED
      BY <3>2, <3>3, <3>4
  <2> QED
    BY <2>2, <2>3
<1>13. G = Rec(G)
  <2>1. ASSUME NEW i \in 0 .. L PROVE G[i] = Rec(G)[i]
    <3>1. CASE i = 0
      BY <1>11, <3>1
    <3>2. CASE i # 0
      <4>1. i \in 1 .. L
        BY <1>1, <3>2
      <4> QED
        BY <1>12, <3>2, <4>1
    <3> QED
      BY <3>1, <3>2
  <2>2. G = [i \in 0 .. L |-> G[i]]
    BY DEF G
  <2> QED
    BY <2>1, <2>2
<1>14. ASSUME NEW h, h = Rec(h) PROVE h = G
  <2> DEFINE Bad == {i \in 0 .. L : h[i] # G[i]}
  <2>1. SUFFICES ASSUME Bad # {} PROVE FALSE
    <3>1. h = [i \in 0 .. L |-> h[i]] /\ G = [i \in 0 .. L |-> G[i]]
      BY <1>14 DEF G
    <3> QED
      BY <2>1, <3>1
  <2>2. PICK i \in Bad : \A l \in Bad : i <= l
    <3>1. Bad \in SUBSET Nat
      BY <1>1
    <3> QED
      BY <2>1, <3>1, LeastNat
  <2>3. i \in 0 .. L /\ h[i] = Rec(h)[i] /\ G[i] = Rec(G)[i]
    BY <1>13, <1>14
  <2>4. CASE i = 0
    BY <2>2, <2>3, <2>4
  <2>5. CASE i # 0
    <3>1. i - 1 \in 0 .. L /\ i - 1 \notin Bad
      BY <1>1, <2>2, <2>3, <2>5
    <3>2. h[i - 1] = G[i - 1]
      BY <3>1
    <3>3. Rec(h)[i] = Rec(G)[i]
      BY <2>3, <2>5, <3>2
    <3> QED
      BY <2>2, <2>3, <3>3
  <2> QED
    BY <2>4, <2>5
<1>15. ChainFrom(x) = LET w == CHOOSE h : h = Rec(h)
                      IN  [i \in {j \in 0 .. L : w[j] # 0} |-> elem[w[i]].tok]
  BY DEF ChainFrom
<1> HIDE DEF Rec
<1>16. ChainFrom(x) = [i \in {j \in 0 .. L : G[j] # 0} |-> elem[G[i]].tok]
  <2>1. (CHOOSE h : h = Rec(h)) = G
    BY <1>13, <1>14
  <2> QED
    BY <1>15, <2>1
<1>17. {j \in 0 .. L : G[j] # 0} = 0 .. k - 1
  <2>1. \A j \in 0 .. L : G[j] # 0 <=> j < k
    BY <1>9, <1>10
  <2>2. \A j : j \in 0 .. k - 1 <=> j \in 0 .. L /\ j < k
    BY <1>1, <1>4, <1>5
  <2> QED
    BY <2>1, <2>2
<1>18. \A i \in 0 .. k - 1 : elem[G[i]].tok = d[i]
  <2>1. \A i \in 0 .. k - 1 : i \in 0 .. L /\ i < k
    BY <1>1, <1>4, <1>5
  <2> QED
    BY <1>10, <2>1
<1>19. ChainFrom(x) = d
  BY <1>4, <1>16, <1>17, <1>18
<1> QED
  BY <1>19 DEF d, S

-----------------------------------------------------------------------------
(***************************************************************************)
(* The invariant of the tree, and what a token does to the containers.     *)
(***************************************************************************)
\* Token q is a key: a string in a dictionary that is no value.
Key(rd, q) == rd[q].in # 0 /\ rd[rd[q].in].tok = "d" /\ rd[q].key = 0 /\ rd[q].tok = "s"

\* Token q does not begin a container that is still open.
Done(op, rd, q) == rd[q].tok \in {"d", "l"} => ~ \E i \in 1 .. Len(op) : op[i].at = q

\* Token q belongs under element i: in the chain of a container, or as the
\* value of a key.
Holds(op, rd, el, i, q) ==
    \/ el[i].type = "DICT" /\ rd[q].in = el[i].tok /\ Key(rd, q)
    \/ /\ el[i].type = "LIST_HEAD" /\ rd[q].in = el[i].tok
       /\ rd[q].tok \notin {"e", "z"} /\ Done(op, rd, q)
    \/ /\ el[i].type = "DICT_KEY" /\ rd[q].key = el[i].tok
       /\ rd[q].tok # "z" /\ Done(op, rd, q)

\* The elements that should hang on element i.
Hung(op, rd, el, i) == {j \in 1 .. Len(el) : Holds(op, rd, el, i, el[j].tok)}

\* An element points to the last of those that hang on it, and in a chain each
\* to the one before it.
Linked(op, rd, el) ==
    \A i \in 1 .. Len(el) :
        /\ el[i].type # "DICT_VAL" => Greatest(el[i].val, Hung(op, rd, el, i))
        /\ el[i].type \in {"DICT", "LIST_HEAD"} =>
              \A j \in Hung(op, rd, el, i) :
                 Greatest(el[j].next, {k \in Hung(op, rd, el, i) : k < j})

\* The open containers are nested: what a container holds comes before the
\* container open in it, and that one is the last.
Nested(op, rd) ==
    /\ \A i \in 1 .. Len(op) : rd[op[i].at].tok = op[i].letter
    /\ \A i, j \in 1 .. Len(op) : i < j => op[i].at < op[j].at
    /\ \A i \in 1 .. Len(op) - 1 :
          /\ rd[op[i + 1].at].in = op[i].at
          /\ \A q \in 1 .. Len(rd) : rd[q].in = op[i].at => q <= op[i + 1].at
    /\ Len(op) > 0 => rd[op[1].at].in = 0 /\ rd[op[1].at].key = 0

\* A key has one value, and none yet while it waits; an end is the value of none.
KeysOnce(op, rd) ==
    /\ \A p, q \in 1 .. Len(rd) : rd[p].key = rd[q].key /\ rd[p].key # 0 => p = q
    /\ Len(op) > 0 => \A q \in 1 .. Len(rd) : rd[q].key = op[Len(op)].key => rd[q].key = 0
    /\ \A q \in 1 .. Len(rd) : rd[q].tok = "e" => rd[q].key = 0

\* Every token but an end and the empty string has its element.
Made(rd, el) ==
    /\ \A j \in 1 .. Len(el) : el[j].tok # 0
    /\ \A q \in 1 .. Len(rd) :
          rd[q].tok \notin {"e", "z"} => \E j \in 1 .. Len(el) : el[j].tok = q

\* The invariant of the tree.
TreeInv ==
    /\ Nested(open, read) /\ KeysOnce(open, read)
    /\ Made(read, elem) /\ Linked(open, read, elem)

\* The token that is sent, and the containers that are open then.
LEMMA SentIs ==
    ASSUME IInv, ret = "running", NEW t \in Token, Send(t)
    PROVE  /\ Len(read) \in Nat /\ Len(open) \in Nat /\ Len(read') = Len(read) + 1
           /\ \A q \in 1 .. Len(read) :
                 /\ read'[q] = read[q]
                 /\ read[q].in \in 0 .. Len(read) /\ read[q].key \in 0 .. Len(read)
           /\ \A i \in 1 .. Len(open) : open[i].at \in 1 .. Len(read)
           /\ read'[Len(read) + 1].tok = t
           /\ open = << >> <=> Len(open) = 0
           /\ open = << >> => /\ read'[Len(read) + 1].in = 0
                              /\ read'[Len(read) + 1].key = 0
           /\ open # << >> => /\ read'[Len(read) + 1].in = open[Len(open)].at
                              /\ read'[Len(read) + 1].key = open[Len(open)].key
                              /\ open[Len(open)].key \in 0 .. Len(read)
<1>1. /\ read \in Seq(Sent) /\ open \in Seq(Container)
      /\ \A q \in 1 .. Len(read) : read[q].in <= Len(read) /\ read[q].key <= Len(read)
      /\ \A i \in 1 .. Len(open) : open[i].at <= Len(read) /\ open[i].key <= Len(read)
  BY DEF IInv, Types
<1>2. Longer(read', read) /\ Len(read) \in Nat /\ Len(open) \in Nat
  <2>1. Longer(read', read)
    BY Sending
  <2> QED
    BY <1>1, <2>1
<1>3. ASSUME NEW q \in 1 .. Len(read)
      PROVE  /\ read'[q] = read[q]
             /\ read[q].in \in 0 .. Len(read) /\ read[q].key \in 0 .. Len(read)
  <2>1. read[q] \in Sent
    BY <1>1, ElementOfSeq
  <2>2. read[q].in \in Nat /\ read[q].key \in Nat
    BY <2>1 DEF Sent
  <2> QED
    BY <1>1, <1>2, <2>2 DEF Longer
<1>4. ASSUME NEW i \in 1 .. Len(open)
      PROVE  open[i].at \in 1 .. Len(read) /\ open[i].key \in 0 .. Len(read)
  <2>1. PICK f : Laid(f, open, read, c, elem)
    BY DEF IInv
  <2>2. open[i].at \in 1 .. Len(read)
    BY <2>1, LaidAt
  <2>3. open[i] \in Container
    BY <1>1, ElementOfSeq
  <2>4. open[i].key \in Nat
    BY <2>3 DEF Container
  <2> QED
    BY <1>1, <1>2, <2>2, <2>4
<1> DEFINE x == [tok |-> t, in  |-> IF open = <<>> THEN 0 ELSE Last(open).at,
                 key |-> IF open = <<>> THEN 0 ELSE Last(open).key]
<1>5. read' = Append(read, x)
  BY DEF Send
<1>6. x.tok = t /\ (open = << >> => x.in = 0 /\ x.key = 0)
      /\ (open # << >> => x.in = open[Len(open)].at /\ x.key = open[Len(open)].key)
  BY DEF Last
<1> HIDE DEF x
<1>7. read'[Len(read) + 1] = x
  BY <1>1, <1>2, <1>5
<1>8. open = << >> <=> Len(open) = 0
  BY <1>1, EmptySeq
<1>9. open # << >> => Len(open) \in 1 .. Len(open)
  BY <1>2, <1>8
<1> QED
  BY <1>2, <1>3, <1>4, <1>6, <1>7, <1>8, <1>9 DEF Longer

\* The containers that are open after a token: one more, the same, or one less;
\* only the innermost can have come to wait for a value, or stopped.
LEMMA OpenAfter ==
    ASSUME IInv, ret = "running", NEW t \in Token, Send(t)
    PROVE  LET m == Len(open)
           IN  /\ \A i \in 1 .. m : i <= Len(open') =>
                     open'[i].at = open[i].at /\ open'[i].letter = open[i].letter
               /\ t \in {"d", "l"} => /\ Len(open') = m + 1
                                      /\ open'[m + 1].at = Len(read) + 1
                                      /\ open'[m + 1].letter = t
               /\ t \in {"s", "i", "z"} => Len(open') = m
               /\ t = "e" => Len(open') = m - 1
               /\ t # "d" => m > 0
               /\ Len(open') > 0 => open'[Len(open')].key
                                       = IF t = "s" /\ KeyExpected THEN Len(read) + 1 ELSE 0
<1> DEFINE m == Len(open)
<1>1. /\ open \in Seq(Container) /\ m \in Nat /\ Len(read) \in Nat /\ (open = << >> <=> m = 0)
  <2>1. open \in Seq(Container)
    BY DEF IInv, Types
  <2> QED
    BY <2>1, SentIs
<1>2. /\ open = << >> => t = "d"
      /\ open # << >> /\ KeyExpected => t \in {"s", "e"}
      /\ t = "e" => open' = Front(open)
      /\ t \in {"s", "i", "z"} => open' = KeyPlaced(Len(read) + 1)
      /\ t \in {"d", "l"} =>
            open' = Append(KeyPlaced(Len(read) + 1),
                           [at |-> Len(read) + 1, letter |-> t, key |-> 0])
  BY Sending
<1>3. CASE t \in {"s", "i", "z"}
  <2>1. open # << >>
    BY <1>2, <1>3
  <2>2. /\ Len(open') = m
        /\ \A i \in 1 .. m : open'[i].at = open[i].at /\ open'[i].letter = open[i].letter
        /\ open'[m].key = IF KeyExpected THEN Len(read) + 1 ELSE 0
    BY <1>2, <1>3, <2>1, KeyPlacedIs
  <2>3. KeyExpected => t = "s"
    BY <1>2, <1>3, <2>1
  <2>4. m > 0
    BY <1>1, <2>1
  <2> QED
    BY <1>3, <2>2, <2>3, <2>4
<1>4. CASE t = "e"
  <2>1. open # << >> /\ m > 0
    BY <1>1, <1>2, <1>4
  <2>2. Len(open') = m - 1 /\ \A i \in 1 .. m - 1 : open'[i] = open[i]
    BY <1>1, <1>2, <1>4, <2>1, FrontIs
  <2>3. Len(open') > 0 => open'[Len(open')].key = 0
    <3> SUFFICES ASSUME Len(open') > 0 PROVE open[m - 1].key = 0
      BY <1>1, <2>2
    <3>1. m - 1 \in 1 .. m /\ m - 1 < m
      BY <1>1, <2>2
    <3>2. PICK f : Laid(f, open, read, c, elem)
      BY DEF IInv
    <3> QED
      BY <3>1, <3>2, LaidAt
  <2> QED
    BY <1>1, <1>4, <2>1, <2>2, <2>3
<1>5. CASE t \in {"d", "l"}
  <2> DEFINE op == KeyPlaced(Len(read) + 1)
             y == [at |-> Len(read) + 1, letter |-> t, key |-> 0]
  <2>1. /\ op \in Seq(Container) /\ Len(op) = m
        /\ \A i \in 1 .. m : op[i].at = open[i].at /\ op[i].letter = open[i].letter
    <3>1. CASE open = << >>
      BY <1>1, <3>1, EmptySeq DEF KeyPlaced
    <3>2. CASE open # << >>
      BY <3>2, KeyPlacedIs
    <3> QED
      BY <3>1, <3>2
  <2>2. y \in Container /\ y.at = Len(read) + 1 /\ y.letter = t /\ y.key = 0
    BY <1>1, <1>5 DEF Container
  <2>3. open' = Append(op, y)
    BY <1>2, <1>5
  <2> HIDE DEF op, y
  <2>4. Len(open') = m + 1 /\ open'[m + 1] = y /\ \A i \in 1 .. m : open'[i] = op[i]
    BY <2>1, <2>2, <2>3, AppendIs
  <2>5. t = "l" => m > 0
    BY <1>1, <1>2
  <2> QED
    BY <1>1, <1>5, <2>1, <2>2, <2>4, <2>5
<1> QED
  BY <1>3, <1>4, <1>5 DEF Token

\* A token goes into the innermost container, or that one ends.
LEMMA NestedStep ==
    ASSUME IInv, ret = "running", NEW t \in Token, Send(t), Nested(open, read)
    PROVE  Nested(open', read')
<1> DEFINE m == Len(open)
           here == Len(read) + 1
<1>1. /\ Len(read) \in Nat /\ m \in Nat /\ Len(read') = here
      /\ \A q \in 1 .. Len(read) : read'[q] = read[q]
      /\ \A i \in 1 .. m : open[i].at \in 1 .. Len(read)
      /\ read'[here].tok = t
      /\ m = 0 => read'[here].in = 0 /\ read'[here].key = 0
      /\ m # 0 => read'[here].in = open[m].at
  BY SentIs
<1>2. /\ \A i \in 1 .. m : i <= Len(open') =>
            open'[i].at = open[i].at /\ open'[i].letter = open[i].letter
      /\ t \in {"d", "l"} => Len(open') = m + 1 /\ open'[m + 1].at = here /\ open'[m + 1].letter = t
      /\ t \in {"s", "i", "z"} => Len(open') = m
      /\ t = "e" => Len(open') = m - 1
      /\ t # "d" => m > 0
  BY OpenAfter
<1>3. /\ \A i \in 1 .. m : read[open[i].at].tok = open[i].letter
      /\ \A i, j \in 1 .. m : i < j => open[i].at < open[j].at
      /\ \A i \in 1 .. m - 1 :
            /\ read[open[i + 1].at].in = open[i].at
            /\ \A q \in 1 .. Len(read) : read[q].in = open[i].at => q <= open[i + 1].at
      /\ m > 0 => read[open[1].at].in = 0 /\ read[open[1].at].key = 0
  BY DEF Nested
<1>4. /\ Len(open') \in Nat /\ Len(open') <= m + 1
      /\ \A i \in 1 .. Len(open') : i \in 1 .. m \/ (i = m + 1 /\ t \in {"d", "l"})
  BY <1>1, <1>2 DEF Token
<1> HIDE DEF m, here
<1>5. \A i \in 1 .. m : i <= Len(open') =>
         /\ open'[i].at = open[i].at /\ open'[i].letter = open[i].letter
         /\ read'[open[i].at] = read[open[i].at]
  BY <1>1, <1>2
<1>6. ASSUME NEW i \in 1 .. Len(open') PROVE read'[open'[i].at].tok = open'[i].letter
  <2>1. CASE i \in 1 .. m
    <3>1. i <= Len(open')
      BY <1>4
    <3> QED
      BY <1>3, <1>5, <2>1, <3>1
  <2>2. CASE i = m + 1 /\ t \in {"d", "l"}
    BY <1>1, <1>2, <2>2
  <2> QED
    BY <1>4, <2>1, <2>2
<1>7. ASSUME NEW i \in 1 .. Len(open'), NEW j \in 1 .. Len(open'), i < j
      PROVE  open'[i].at < open'[j].at
  <2>1. i \in 1 .. m /\ open'[i].at = open[i].at /\ open[i].at \in 1 .. Len(read)
    BY <1>1, <1>2, <1>4, <1>7
  <2>2. CASE j \in 1 .. m
    BY <1>2, <1>3, <1>4, <1>7, <2>1, <2>2
  <2>3. CASE j = m + 1
    <3>1. open'[j].at = here
      BY <1>1, <1>2, <1>4, <2>3
    <3> QED
      BY <1>1, <2>1, <3>1 DEF here
  <2> QED
    BY <1>4, <2>2, <2>3
<1>8. ASSUME NEW i \in 1 .. Len(open') - 1
      PROVE  /\ read'[open'[i + 1].at].in = open'[i].at
             /\ \A q \in 1 .. Len(read') : read'[q].in = open'[i].at => q <= open'[i + 1].at
  <2>1. i \in 1 .. m /\ i + 1 \in 1 .. Len(open') /\ i <= Len(open')
    BY <1>1, <1>4
  <2>2. open'[i].at = open[i].at /\ read'[open[i].at] = read[open[i].at]
    BY <1>5, <2>1
  <2>3. CASE i + 1 \in 1 .. m
    <3>1. i \in 1 .. m - 1 /\ m \in 1 .. m /\ i < m /\ m # 0
      BY <1>1, <2>1, <2>3
    <3>2. open'[i + 1].at = open[i + 1].at /\ read'[open[i + 1].at] = read[open[i + 1].at]
      BY <1>4, <1>5, <2>1, <2>3
    <3>3. ASSUME NEW q \in 1 .. Len(read'), read'[q].in = open'[i].at
          PROVE  q <= open'[i + 1].at
      <4>1. CASE q = here
        <5>1. open[i].at < open[m].at /\ open[i].at = open[m].at
          BY <1>1, <1>3, <2>2, <3>1, <3>3, <4>1
        <5>2. open[m].at \in Nat
          BY <1>1, <3>1
        <5> QED
          BY <5>1, <5>2
      <4>2. CASE q \in 1 .. Len(read)
        BY <1>1, <1>3, <2>2, <3>1, <3>2, <3>3, <4>2
      <4> QED
        BY <1>1, <4>1, <4>2 DEF here
    <3> QED
      BY <1>3, <2>2, <3>1, <3>2, <3>3
  <2>4. CASE i + 1 = m + 1
    <3>1. i = m /\ m # 0 /\ open'[i + 1].at = here
      BY <1>1, <1>2, <1>4, <2>1, <2>4
    <3> QED
      BY <1>1, <2>2, <3>1 DEF here
  <2> QED
    BY <1>4, <2>1, <2>3, <2>4
<1>9. ASSUME Len(open') > 0 PROVE read'[open'[1].at].in = 0 /\ read'[open'[1].at].key = 0
  <2>1. CASE m = 0
    <3>1. open'[1].at = here
      BY <1>1, <1>2, <1>9, <2>1
    <3> QED
      BY <1>1, <2>1, <3>1
  <2>2. CASE m # 0
    <3>1. m > 0 /\ 1 \in 1 .. m /\ 1 <= Len(open')
      BY <1>1, <1>4, <1>9, <2>2
    <3> QED
      BY <1>3, <1>5, <3>1
  <2> QED
    BY <2>1, <2>2
<1> QED
  BY <1>6, <1>7, <1>8, <1>9 DEF Nested

\* A value goes to the key that waits, and that key waits no longer.
LEMMA KeysOnceStep ==
    ASSUME IInv, ret = "running", NEW t \in Token, Send(t), KeysOnce(open, read)
    PROVE  KeysOnce(open', read')
<1> DEFINE m == Len(open)
           here == Len(read) + 1
<1>1. /\ Len(read) \in Nat /\ m \in Nat /\ Len(read') = here
      /\ \A q \in 1 .. Len(read) : read'[q] = read[q] /\ read[q].key \in 0 .. Len(read)
      /\ read'[here].tok = t
      /\ m = 0 => read'[here].key = 0
      /\ m # 0 => read'[here].key = open[m].key /\ open[m].key \in 0 .. Len(read)
  BY SentIs
<1>2. /\ Len(open') > 0 => open'[Len(open')].key = 0 \/ open'[Len(open')].key = here
      /\ t = "e" => open # << >> /\ open[m].key = 0 /\ m # 0
  <2>1. t = "e" => m > 0 /\ Last(open).key = 0
    BY OpenAfter, Sending
  <2>2. Len(open') > 0 => open'[Len(open')].key = 0 \/ open'[Len(open')].key = here
    BY OpenAfter
  <2> QED
    BY <1>1, <2>1, <2>2, SentIs DEF Last
<1>3. /\ \A p, q \in 1 .. Len(read) : read[p].key = read[q].key /\ read[p].key # 0 => p = q
      /\ m > 0 => \A q \in 1 .. Len(read) : read[q].key = open[m].key => read[q].key = 0
      /\ \A q \in 1 .. Len(read) : read[q].tok = "e" => read[q].key = 0
  BY DEF KeysOnce
<1> HIDE DEF m
<1>4. \A q \in 1 .. Len(read') : q = here \/ q \in 1 .. Len(read)
  BY <1>1
<1>5. \A q \in 1 .. Len(read) : read'[q].key = read'[here].key => read'[q].key = 0
  BY <1>1, <1>3
<1> HIDE DEF here
<1>6. \A p, q \in 1 .. Len(read') : read'[p].key = read'[q].key /\ read'[p].key # 0 => p = q
  BY <1>1, <1>3, <1>4, <1>5
<1>7. \A q \in 1 .. Len(read') : read'[q].tok = "e" => read'[q].key = 0
  BY <1>1, <1>2, <1>3, <1>4
<1>8. \A q \in 1 .. Len(read') : read'[q].key # here
  BY <1>1, <1>4 DEF here
<1> QED
  BY <1>2, <1>6, <1>7, <1>8 DEF KeysOnce

-----------------------------------------------------------------------------
(***************************************************************************)
(* What hangs on an element, before a token and after it.                  *)
(***************************************************************************)
\* No two elements have the same token.
LEMMA TokOnce ==
    ASSUME NEW e, NEW last \in Nat, Array(e, last),
           NEW i \in 1 .. Len(e), NEW j \in 1 .. Len(e), e[i].tok = e[j].tok
    PROVE  i = j
<1>1. e \in Seq(Element) /\ e[i].tok \in Nat
  <2>1. e \in Seq(Element)
    BY DEF Array
  <2> QED
    BY <2>1, ElementOfSeq, FieldTypes
<1>2. ~ (i < j) /\ ~ (j < i)
  <2>1. ~ (e[i].tok < e[j].tok) /\ ~ (e[j].tok < e[i].tok)
    BY <1>1
  <2> QED
    BY <2>1, ToksRise
<1> QED
  BY <1>2

\* The token of the element on top of the stack, and of the container it is in.
LEMMA TopTokens ==
    ASSUME IInv, open # << >>
    PROVE  LET m == Len(open)
           IN  /\ m \in 1 .. m /\ m \in Nat /\ Last(c) \in 1 .. Len(elem) /\ c # << >>
               /\ Last(open) = open[m] /\ open[m].letter \in {"d", "l"}
               /\ open[m].letter = "l" =>
                     /\ open[m].key = 0
                     /\ elem[Last(c)].type = "LIST_HEAD" /\ elem[Last(c)].tok = open[m].at
               /\ open[m].letter = "d" /\ open[m].key = 0 =>
                     /\ elem[Last(c)].type = "DICT" /\ elem[Last(c)].tok = open[m].at
               /\ open[m].letter = "d" /\ open[m].key # 0 =>
                     /\ elem[Last(c)].type = "DICT_KEY" /\ elem[Last(c)].tok = open[m].key
                     /\ \E j \in 1 .. Len(elem) :
                           elem[j].type = "DICT" /\ elem[j].tok = open[m].at
<1> DEFINE m == Len(open)
<1>1. PICK f : Laid(f, open, read, c, elem)
  BY DEF IInv
<1>2. /\ m \in 1 .. m /\ f[m] \in 1 .. Len(c) /\ Last(c) \in 1 .. Len(elem) /\ c # << >>
      /\ Last(open).letter \in {"d", "l"}
      /\ Last(open).letter = "l" =>
            /\ Last(open).key = 0 /\ Len(c) = f[m]
            /\ elem[Last(c)].type = "LIST_HEAD"
      /\ Last(open).letter = "d" /\ Last(open).key = 0 =>
            Len(c) = f[m] /\ elem[Last(c)].type = "DICT"
      /\ Last(open).letter = "d" /\ Last(open).key # 0 =>
            /\ Len(c) = f[m] + 1
            /\ elem[Last(c)].type = "DICT_KEY"
  BY <1>1, TopIs
<1>3. Last(open) = open[m] /\ Last(c) = c[Len(c)]
  BY DEF Last
<1>4. m \in Nat
  BY <1>1 DEF Laid, Stacks
<1>5. Waits(open, read, m) = open[m].key
  BY <1>4 DEF Waits
<1>6. /\ elem[c[f[m]]].tok = open[m].at
      /\ elem[c[f[m]]].type = TypeOf(open[m].letter)
      /\ open[m].key # 0 => elem[c[f[m] + 1]].tok = open[m].key
  <2>1. /\ elem[c[f[m]]].tok = open[m].at
        /\ elem[c[f[m]]].type = TypeOf(open[m].letter)
        /\ Waits(open, read, m) # 0 => elem[c[f[m] + 1]].tok = Waits(open, read, m)
    BY <1>1, <1>2, LaidAt
  <2> QED
    BY <1>5, <2>1
<1>7. c[f[m]] \in 1 .. Len(elem)
  BY <1>1, <1>2, PlacesOnStack
<1> HIDE DEF m
<1>8. open[m].letter = "d" => TypeOf(open[m].letter) = "DICT"
  BY DEF TypeOf
<1> QED
  BY <1>2, <1>3, <1>4, <1>6, <1>7, <1>8 DEF m

\* What belonged under an element still does, and nothing more that was read
\* before, but for the container that ends.
LEMMA HoldsOld ==
    ASSUME IInv, ret = "running", NEW t \in Token, Send(t), Nested(open, read),
           Kept(elem', elem), NEW i \in 1 .. Len(elem), NEW q \in 1 .. Len(read),
           t = "e" => q # open[Len(open)].at
    PROVE  Holds(open', read', elem', i, q) <=> Holds(open, read, elem, i, q)
<1> DEFINE m == Len(open)
<1>1. /\ Len(read) \in Nat /\ m \in Nat /\ read'[q] = read[q] /\ read[q].in \in 0 .. Len(read)
      /\ \A p \in 1 .. Len(read) : read'[p] = read[p]
  BY SentIs
<1>2. elem'[i].type = elem[i].type /\ elem'[i].tok = elem[i].tok
  BY DEF Kept
<1>3. Key(read', q) <=> Key(read, q)
  BY <1>1 DEF Key
<1>4. /\ \A j \in 1 .. m : j <= Len(open') => open'[j].at = open[j].at
      /\ t \in {"d", "l"} => Len(open') = m + 1 /\ open'[m + 1].at = Len(read) + 1
      /\ t \in {"s", "i", "z"} => Len(open') = m
      /\ t = "e" => Len(open') = m - 1
  BY OpenAfter
<1>5. (\E j \in 1 .. Len(open') : open'[j].at = q) <=> (\E j \in 1 .. m : open[j].at = q)
  <2>1. q # Len(read) + 1
    BY <1>1
  <2>2. CASE t \in {"d", "l"}
    <3>1. \A j : j \in 1 .. m + 1 <=> j \in 1 .. m \/ j = m + 1
      BY <1>1
    <3>2. \A j \in 1 .. m : j <= m + 1
      BY <1>1
    <3> QED
      BY <1>4, <2>1, <2>2, <3>1, <3>2
  <2>3. CASE t \in {"s", "i", "z"}
    <3>1. \A j \in 1 .. m : j <= m
      BY <1>1
    <3> QED
      BY <1>4, <2>3, <3>1
  <2>4. CASE t = "e"
    <3>1. \A j : j \in 1 .. m => j \in 1 .. m - 1 \/ j = m
      BY <1>1
    <3>2. \A j \in 1 .. m - 1 : j <= m - 1 /\ j \in 1 .. m
      BY <1>1
    <3> QED
      BY <1>4, <2>4, <3>1, <3>2
  <2> QED
    BY <2>2, <2>3, <2>4 DEF Token
<1>6. Done(open', read', q) <=> Done(open, read, q)
  BY <1>1, <1>5 DEF Done
<1> QED
  BY <1>1, <1>2, <1>3, <1>6 DEF Holds

\* A container that ends belongs under the list it is in, or under its key.
LEMMA HoldsClosed ==
    ASSUME IInv, ret = "running", Send("e"), Nested(open, read), Made(read, elem),
           Kept(elem', elem), NEW i \in 1 .. Len(elem),
           NEW q, q = open[Len(open)].at
    PROVE  /\ q \in 1 .. Len(read) /\ ~ Holds(open, read, elem, i, q)
           /\ Len(open) = 1 => ~ Holds(open', read', elem', i, q)
           /\ Len(open) > 1 =>
                 /\ c[Len(c) - 1] \in 1 .. Len(elem)
                 /\ Holds(open', read', elem', i, q) <=> i = c[Len(c) - 1]
<1> DEFINE m == Len(open)
<1>1. /\ Len(read) \in Nat /\ m \in Nat /\ m > 0 /\ open # << >>
      /\ \A p \in 1 .. Len(read) : read'[p] = read[p]
      /\ \A j \in 1 .. m : open[j].at \in 1 .. Len(read)
      /\ \A j \in 1 .. m : j <= Len(open') => open'[j].at = open[j].at
      /\ Len(open') = m - 1
  BY SentIs, OpenAfter DEF Token
<1>2. elem'[i].type = elem[i].type /\ elem'[i].tok = elem[i].tok /\ elem[i].tok # 0
  BY DEF Kept, Made
<1>3. /\ q \in 1 .. Len(read) /\ read'[q] = read[q] /\ m \in 1 .. m
      /\ read[q].tok = open[m].letter /\ open[m].letter \in {"d", "l"}
  <2>1. m \in 1 .. m /\ open[m].letter \in {"d", "l"}
    BY <1>1, TopTokens
  <2> QED
    BY <1>1, <2>1 DEF Nested
<1>4. ~ Holds(open, read, elem, i, q)
  BY <1>3 DEF Holds, Key, Done
<1>5. Done(open', read', q)
  <2>1. ASSUME NEW j \in 1 .. m - 1 PROVE open'[j].at # q
    <3>1. j \in 1 .. m /\ j < m /\ j <= Len(open')
      BY <1>1
    <3>2. open'[j].at = open[j].at /\ open[j].at < q /\ q \in Nat
      BY <1>1, <1>3, <3>1 DEF Nested
    <3> QED
      BY <1>1, <3>1, <3>2
  <2> QED
    BY <1>1, <2>1 DEF Done
<1>6. Holds(open', read', elem', i, q) <=>
         \/ elem[i].type = "LIST_HEAD" /\ read[q].in = elem[i].tok
         \/ elem[i].type = "DICT_KEY" /\ read[q].key = elem[i].tok
  BY <1>2, <1>3, <1>5 DEF Holds, Key
<1>7. m = 1 => ~ Holds(open', read', elem', i, q)
  <2>1. m = 1 => read[q].in = 0 /\ read[q].key = 0
    BY <1>1 DEF Nested
  <2> QED
    BY <1>2, <1>6, <2>1
<1>8. ASSUME m > 1
      PROVE  /\ c[Len(c) - 1] \in 1 .. Len(elem)
             /\ Holds(open', read', elem', i, q) <=> i = c[Len(c) - 1]
  <2> DEFINE k == m - 1
             top == c[Len(c) - 1]
  <2>1. k \in 1 .. m /\ k < m /\ k \in 1 .. m - 1 /\ k + 1 = m
    BY <1>1, <1>8
  <2>2. PICK f : Laid(f, open, read, c, elem)
    BY DEF IInv
  <2>3. /\ f[k] \in Nat \ {0} /\ f[m] = f[k] + 1 + Above(open, read, k)
        /\ elem[c[f[k]]].tok = open[k].at
        /\ elem[c[f[k]]].type = TypeOf(open[k].letter)
        /\ Waits(open, read, k) # 0 =>
              /\ open[k].letter = "d"
              /\ elem[c[f[k] + 1]].tok = Waits(open, read, k)
              /\ elem[c[f[k] + 1]].type = "DICT_KEY"
        /\ open[k].key = 0 /\ (open[k].letter = "d" => Waits(open, read, k) # 0)
    BY <2>1, <2>2, LaidAt
  <2>4. Waits(open, read, k) = read[q].key
    BY <2>1, <2>3 DEF Waits
  <2>5. read[q].in = open[k].at
    BY <2>1 DEF Nested
  <2>6. /\ c[f[k]] \in 1 .. Len(elem)
        /\ Waits(open, read, k) # 0 => c[f[k] + 1] \in 1 .. Len(elem)
    BY <2>1, <2>2, PlacesOnStack
  <2>7. Len(c) = f[m]
    <3>1. Last(open).key = 0
      BY <1>1, Sending DEF Token
    <3> QED
      BY <1>1, <2>2, <3>1, TopIs
  <2>8. Array(elem, Len(read))
    BY DEF IInv, Types
  <2>9. CASE open[k].letter = "d"
    <3>1. f[m] - 1 = f[k] + 1 /\ read[q].key # 0
      BY <2>3, <2>4, <2>9 DEF Above
    <3>2. top = c[f[k] + 1]
      BY <2>7, <3>1
    <3>3. top \in 1 .. Len(elem) /\ elem[top].tok = read[q].key /\ elem[top].type = "DICT_KEY"
      BY <2>3, <2>4, <2>6, <3>1, <3>2
    <3>4. elem[c[f[k]]].type = "DICT"
      BY <2>3, <2>9 DEF TypeOf
    <3>5. elem[i].tok = read[q].in => i = c[f[k]]
      BY <1>1, <2>3, <2>5, <2>6, <2>8, TokOnce
    <3>6. elem[i].tok = read[q].key => i = top
      BY <1>1, <2>8, <3>3, TokOnce
    <3> HIDE DEF top
    <3> QED
      BY <1>6, <3>3, <3>4, <3>5, <3>6 DEF top
  <2>10. CASE open[k].letter # "d"
    <3>1. f[m] - 1 = f[k] /\ read[q].key = 0
      BY <2>3, <2>4, <2>10 DEF Above
    <3>2. top = c[f[k]]
      BY <2>7, <3>1
    <3>3. top \in 1 .. Len(elem) /\ elem[top].tok = read[q].in /\ elem[top].type = "LIST_HEAD"
      BY <2>3, <2>5, <2>6, <2>10, <3>2 DEF TypeOf
    <3>4. elem[i].tok = read[q].in => i = top
      BY <1>1, <2>8, <3>3, TokOnce
    <3> HIDE DEF top
    <3> QED
      BY <1>2, <1>6, <3>1, <3>3, <3>4 DEF top
  <2> QED
    BY <2>9, <2>10
<1> QED
  BY <1>3, <1>4, <1>7, <1>8

\* A token just read belongs under an element only when it is a string or an
\* integer, and then under the one on top of the stack.
LEMMA HoldsHere ==
    ASSUME IInv, ret = "running", NEW t \in Token, Send(t), Nested(open, read),
           Made(read, elem), Kept(elem', elem), NEW i \in 1 .. Len(elem),
           NEW q, q = Len(read) + 1
    PROVE  Holds(open', read', elem', i, q) <=> t \in {"s", "i"} /\ i = Last(c)
<1> DEFINE m == Len(open)
<1>1. /\ Len(read) \in Nat /\ m \in Nat /\ read'[q].tok = t
      /\ \A p \in 1 .. Len(read) : read'[p] = read[p]
      /\ \A j \in 1 .. m : open[j].at \in 1 .. Len(read)
      /\ open = << >> <=> m = 0
      /\ open = << >> => read'[q].in = 0 /\ read'[q].key = 0
      /\ open # << >> => read'[q].in = open[m].at /\ read'[q].key = open[m].key
  BY SentIs
<1>2. elem'[i].type = elem[i].type /\ elem'[i].tok = elem[i].tok /\ elem[i].tok # 0
  BY DEF Kept, Made
<1>3. CASE t \in {"d", "l"}
  <2>1. Len(open') = m + 1 /\ open'[m + 1].at = q /\ m + 1 \in 1 .. m + 1
    BY <1>1, <1>3, OpenAfter
  <2>2. ~ Done(open', read', q)
    BY <1>1, <1>3, <2>1 DEF Done
  <2> QED
    BY <1>1, <1>3, <2>2 DEF Holds, Key
<1>4. CASE t = "z"
  BY <1>1, <1>4 DEF Holds, Key
<1>5. CASE t = "e"
  <2>1. open # << >> /\ open[m].key = 0
    <3>1. m > 0 /\ Last(open).key = 0
      BY <1>5, OpenAfter, Sending
    <3> QED
      BY <1>1, <3>1 DEF Last
  <2> QED
    BY <1>1, <1>2, <1>5, <2>1 DEF Holds, Key
<1>6. CASE t \in {"s", "i"}
  <2>1. open # << >>
    BY <1>6, Sending
  <2>2. /\ m \in 1 .. m /\ Last(c) \in 1 .. Len(elem) /\ open[m].letter \in {"d", "l"}
        /\ Last(open) = open[m]
        /\ open[m].letter = "l" =>
              /\ open[m].key = 0
              /\ elem[Last(c)].type = "LIST_HEAD" /\ elem[Last(c)].tok = open[m].at
        /\ open[m].letter = "d" /\ open[m].key = 0 =>
              /\ elem[Last(c)].type = "DICT" /\ elem[Last(c)].tok = open[m].at
        /\ open[m].letter = "d" /\ open[m].key # 0 =>
              /\ elem[Last(c)].type = "DICT_KEY" /\ elem[Last(c)].tok = open[m].key
              /\ \E j \in 1 .. Len(elem) :
                    elem[j].type = "DICT" /\ elem[j].tok = open[m].at
    BY <2>1, TopTokens
  <2>3. /\ read'[q].in = open[m].at /\ read'[q].key = open[m].key /\ open[m].at # 0
        /\ read'[open[m].at].tok = open[m].letter /\ Done(open', read', q)
    <3>1. read[open[m].at].tok = open[m].letter /\ open[m].at \in 1 .. Len(read)
      BY <1>1, <2>2 DEF Nested
    <3>2. Done(open', read', q)
      BY <1>1, <1>6 DEF Done
    <3> QED
      BY <1>1, <2>1, <3>1, <3>2
  <2>4. KeyExpected => t = "s"
    BY <1>6, <2>1, Sending
  <2>5. Array(elem, Len(read))
    BY DEF IInv, Types
  <2>6. \A j \in 1 .. Len(elem) : elem[i].tok = elem[j].tok => i = j
    BY <1>1, <2>5, TokOnce
  <2>7. Holds(open', read', elem', i, q) <=>
           \/ /\ elem[i].type = "DICT" /\ open[m].at = elem[i].tok
              /\ open[m].letter = "d" /\ open[m].key = 0 /\ t = "s"
           \/ elem[i].type = "LIST_HEAD" /\ open[m].at = elem[i].tok
           \/ elem[i].type = "DICT_KEY" /\ open[m].key = elem[i].tok
    BY <1>1, <1>2, <1>6, <2>3 DEF Holds, Key
  <2> HIDE DEF m
  <2>8. CASE open[m].letter = "l"
    BY <1>2, <1>6, <2>2, <2>6, <2>7, <2>8
  <2>9. CASE open[m].letter = "d" /\ open[m].key = 0
    <3>1. t = "s"
      BY <2>2, <2>4, <2>9 DEF KeyExpected
    <3> QED
      BY <1>2, <2>2, <2>6, <2>7, <2>9, <3>1
  <2>10. CASE open[m].letter = "d" /\ open[m].key # 0
    BY <1>2, <1>6, <2>2, <2>6, <2>7, <2>10
  <2> QED
    BY <2>2, <2>8, <2>9, <2>10
<1> QED
  BY <1>3, <1>4, <1>5, <1>6 DEF Token

\* Nothing belongs under an element that is just made.
LEMMA HoldsNothing ==
    ASSUME IInv, ret = "running", NEW t \in Token, Send(t),
           NEW i, elem'[i].tok = Len(read) + 1, NEW q \in 1 .. Len(read')
    PROVE  ~ Holds(open', read', elem', i, q)
<1>1. /\ Len(read) \in Nat /\ Len(read') = Len(read) + 1
      /\ \A p \in 1 .. Len(read) :
            /\ read'[p] = read[p]
            /\ read[p].in \in 0 .. Len(read) /\ read[p].key \in 0 .. Len(read)
      /\ open = << >> => read'[Len(read) + 1].in = 0 /\ read'[Len(read) + 1].key = 0
      /\ open # << >> => /\ read'[Len(read) + 1].in = open[Len(open)].at
                         /\ read'[Len(read) + 1].key = open[Len(open)].key
                         /\ open[Len(open)].key \in 0 .. Len(read)
      /\ \A j \in 1 .. Len(open) : open[j].at \in 1 .. Len(read)
  BY SentIs
<1>2. open # << >> => open[Len(open)].at \in 1 .. Len(read)
  BY <1>1, TopTokens
<1>3. read'[q].in \in 0 .. Len(read) /\ read'[q].key \in 0 .. Len(read)
  <2>1. CASE q = Len(read) + 1
    BY <1>1, <1>2, <2>1
  <2>2. CASE q \in 1 .. Len(read)
    BY <1>1, <2>2
  <2> QED
    BY <1>1, <2>1, <2>2
<1>4. read'[q].in # Len(read) + 1 /\ read'[q].key # Len(read) + 1
  BY <1>1, <1>3
<1> QED
  BY <1>4 DEF Holds

\* Of the array el2, only element h, if it is not 0, points to another one than
\* in el, to x; x then leads where h pointed, unless h is a key.
Links(el, el2, h, x) ==
    /\ \A i \in 1 .. Len(el2) : i # h => el2[i].val = IF i > Len(el) THEN 0 ELSE el[i].val
    /\ \A j \in 1 .. Len(el) : h = 0 \/ j # x => el2[j].next = el[j].next
    /\ h # 0 => /\ el2[h].val = x
                /\ el[h].type # "DICT_KEY" => el2[x].next = el[h].val

\* What hangs on the elements of el2: on h also x, which comes last.
Hangs(op, rd, el, op2, rd2, el2, h, x) ==
    /\ \A i \in 1 .. Len(el2) :
          Hung(op2, rd2, el2, i) = IF i > Len(el) THEN {}
                                   ELSE IF i = h THEN Hung(op, rd, el, i) \cup {x}
                                   ELSE Hung(op, rd, el, i)
    /\ h # 0 => /\ \A i \in 1 .. Len(el) : x \notin Hung(op, rd, el, i)
                /\ \A j \in Hung(op, rd, el, h) : j < x

\* Where something is put in front of a chain or becomes a value, the links are
\* right again.
LEMMA LinkedStep ==
    ASSUME NEW op, NEW rd, NEW el, NEW op2, NEW rd2, NEW el2, NEW h, NEW x \in Nat,
           Len(el) \in Nat, Len(el2) \in Nat, h \in 0 .. Len(el),
           Kept(el2, el), Linked(op, rd, el), Links(el, el2, h, x),
           Hangs(op, rd, el, op2, rd2, el2, h, x)
    PROVE  Linked(op2, rd2, el2)
<1> DEFINE A(i) == Hung(op, rd, el, i)
           B(i) == Hung(op2, rd2, el2, i)
           Below(S, j) == {k \in S : k < j}
<1>1. \A i \in 1 .. Len(el) :
         /\ el2[i].type = el[i].type
         /\ el[i].type # "DICT_VAL" => Greatest(el[i].val, A(i))
         /\ el[i].type \in {"DICT", "LIST_HEAD"} =>
               \A j \in A(i) : Greatest(el[j].next, Below(A(i), j))
         /\ A(i) \subseteq 1 .. Len(el)
  BY DEF Kept, Linked, Hung
<1>2. \A i \in 1 .. Len(el2) :
         B(i) = IF i > Len(el) THEN {} ELSE IF i = h THEN A(i) \cup {x} ELSE A(i)
  BY DEF Hangs
<1>3. h # 0 => /\ \A i \in 1 .. Len(el) : x \notin A(i)
               /\ \A j \in A(h) : j < x
  BY DEF Hangs
<1> HIDE DEF A, B, Below
<1>4. ASSUME NEW i \in 1 .. Len(el2), i > Len(el)
      PROVE  Greatest(el2[i].val, B(i)) /\ B(i) = {}
  <2>1. B(i) = {} /\ i # h
    BY <1>2, <1>4
  <2>2. el2[i].val = 0
    BY <1>4, <2>1 DEF Links
  <2> QED
    BY <2>1, <2>2 DEF Greatest
<1>5. ASSUME NEW i \in 1 .. Len(el), i # h, i \in 1 .. Len(el2)
      PROVE  /\ el2[i].type # "DICT_VAL" => Greatest(el2[i].val, B(i))
             /\ el2[i].type \in {"DICT", "LIST_HEAD"} =>
                   \A j \in B(i) : Greatest(el2[j].next, Below(B(i), j))
  <2>1. ~ (i > Len(el))
    OBVIOUS
  <2>2. B(i) = A(i) /\ el2[i].val = el[i].val
    BY <1>2, <1>5, <2>1 DEF Links
  <2>3. \A j \in A(i) : j \in 1 .. Len(el) /\ (h = 0 \/ j # x)
    BY <1>1, <1>3
  <2>4. \A j \in A(i) : el2[j].next = el[j].next
    BY <2>3 DEF Links
  <2> QED
    BY <1>1, <2>2, <2>4
<1>6. ASSUME NEW i \in 1 .. Len(el), i = h, i \in 1 .. Len(el2)
      PROVE  /\ el2[i].type # "DICT_VAL" => Greatest(el2[i].val, B(i))
             /\ el2[i].type \in {"DICT", "LIST_HEAD"} =>
                   \A j \in B(i) : Greatest(el2[j].next, Below(B(i), j))
  <2>1. ~ (i > Len(el)) /\ h # 0
    BY <1>6
  <2>2. B(i) = A(i) \cup {x} /\ el2[i].val = x /\ (\A j \in A(i) : j < x /\ j \in 1 .. Len(el))
    BY <1>1, <1>2, <1>3, <1>6, <2>1 DEF Links
  <2>3. Greatest(x, B(i))
    <3>1. \A j \in B(i) : j <= x
      BY <2>2
    <3> QED
      BY <2>2, <3>1 DEF Greatest
  <2>4. ASSUME el2[i].type \in {"DICT", "LIST_HEAD"}, NEW j \in B(i)
        PROVE  Greatest(el2[j].next, Below(B(i), j))
    <3>1. /\ el[i].type \in {"DICT", "LIST_HEAD"} /\ el[i].type # "DICT_KEY"
          /\ el[i].type # "DICT_VAL"
      BY <1>1, <2>4
    <3>2. CASE j = x
      <4>1. Below(B(i), j) = A(i)
        <5>1. \A k \in B(i) : k < x <=> k \in A(i)
          BY <2>2
        <5> QED
          BY <2>2, <3>2, <5>1 DEF Below
      <4>2. el2[x].next = el[i].val
        BY <1>6, <2>1, <3>1 DEF Links
      <4> QED
        BY <1>1, <3>1, <3>2, <4>1, <4>2
    <3>3. CASE j # x
      <4>1. j \in A(i) /\ j < x /\ j \in 1 .. Len(el)
        BY <2>2, <3>3
      <4>2. Below(B(i), j) = Below(A(i), j)
        <5>1. \A k \in B(i) : k < j => k \in A(i)
          BY <2>2, <4>1
        <5> QED
          BY <2>2, <5>1 DEF Below
      <4>3. el2[j].next = el[j].next
        BY <3>3, <4>1 DEF Links
      <4> QED
        BY <1>1, <3>1, <4>1, <4>2, <4>3
    <3> QED
      BY <3>2, <3>3
  <2> QED
    BY <2>2, <2>3, <2>4
<1>7. ASSUME NEW i \in 1 .. Len(el2)
      PROVE  /\ el2[i].type # "DICT_VAL" => Greatest(el2[i].val, B(i))
             /\ el2[i].type \in {"DICT", "LIST_HEAD"} =>
                   \A j \in B(i) : Greatest(el2[j].next, Below(B(i), j))
  <2>1. i > Len(el) \/ i \in 1 .. Len(el)
    OBVIOUS
  <2> QED
    BY <1>4, <1>5, <1>6, <2>1
<1> QED
  BY <1>7 DEF Linked, B, Below

\* Element x hangs on element h after token t; 0: nothing does.
Hanging(t, h, x) ==
    \/ t \in {"s", "i"} /\ h = Last(c) /\ x = Len(elem) + 1
    \/ t \in {"d", "l", "z"} /\ h = 0
    \/ t = "e" /\ Len(open) = 1 /\ h = 0
    \/ t = "e" /\ Len(open) > 1 /\ h = c[Len(c) - 1] /\ x = Last(c)

\* el has an element more than old, for a token that gets one.
Grown(t, here, el, old) ==
    /\ Len(el) = Len(old) + IF t \in {"e", "z"} THEN 0 ELSE 1
    /\ t \notin {"e", "z"} => el[Len(old) + 1].tok = here

\* What hangs on the elements after a token.
LEMMA HangsStep ==
    ASSUME IInv, TreeInv, ret = "running", NEW t \in Token, Send(t),
           Array(elem', Len(read) + 1), Kept(elem', elem),
           Grown(t, Len(read) + 1, elem', elem), NEW h, NEW x, Hanging(t, h, x)
    PROVE  Hangs(open, read, elem, open', read', elem', h, x)
<1> DEFINE here == Len(read) + 1
           L == Len(elem)
           q == open[Len(open)].at
           Old(i, j) == Holds(open, read, elem, i, elem[j].tok)
           After(i, j) == Holds(open', read', elem', i, elem'[j].tok)
<1>1. /\ Nested(open, read) /\ KeysOnce(open, read) /\ Made(read, elem)
      /\ Array(elem, Len(read)) /\ Len(read) \in Nat /\ Len(read') = here
      /\ L \in Nat /\ Len(elem') \in Nat
      /\ elem \in Seq(Element)
  BY SentIs DEF TreeInv, IInv, Types, Array
<1>2. \A j \in 1 .. L : elem[j].tok \in 1 .. Len(read) /\ elem'[j].tok = elem[j].tok
  <2> SUFFICES ASSUME NEW j \in 1 .. L
               PROVE  elem[j].tok \in 1 .. Len(read) /\ elem'[j].tok = elem[j].tok
    OBVIOUS
  <2>1. elem[j].tok \in Nat /\ elem[j].tok # 0 /\ elem[j].tok <= Len(read)
    BY <1>1, ElementOfSeq, FieldTypes DEF Array, Made
  <2> QED
    BY <1>1, <2>1 DEF Kept
<1>3. \A j \in 1 .. Len(elem') : j \in 1 .. L \/ (j = L + 1 /\ elem'[j].tok = here)
  BY <1>1 DEF Grown
<1>4. \A i \in 1 .. L, j \in 1 .. L : t = "e" /\ elem[j].tok # q => (After(i, j) <=> Old(i, j))
  BY <1>1, <1>2, HoldsOld
<1>5. t # "e" => \A i \in 1 .. L, j \in 1 .. L : After(i, j) <=> Old(i, j)
  BY <1>1, <1>2, HoldsOld
<1>6. ASSUME NEW i \in 1 .. L, NEW j, j = L + 1, j \in 1 .. Len(elem')
      PROVE  After(i, j) <=> t \in {"s", "i"} /\ i = Last(c)
  <2>1. elem'[j].tok = here
    BY <1>1, <1>3, <1>6
  <2>2. \A p : p = here => (Holds(open', read', elem', i, p) <=> t \in {"s", "i"} /\ i = Last(c))
    BY <1>1, HoldsHere
  <2> QED
    BY <2>1, <2>2
<1>7. ASSUME NEW i \in 1 .. Len(elem'), i > L PROVE Hung(open', read', elem', i) = {}
  <2>1. elem'[i].tok = here
    BY <1>1, <1>3, <1>7
  <2>2. \A j \in 1 .. Len(elem') : elem'[j].tok \in 1 .. Len(read')
    BY <1>1, <1>2, <1>3
  <2>3. \A j \in 1 .. Len(elem') : ~ After(i, j)
    BY <2>1, <2>2, HoldsNothing
  <2> QED
    BY <2>3 DEF Hung
<1>8. CASE t \in {"s", "i"}
  <2>1. h = Last(c) /\ x = L + 1 /\ Len(elem') = L + 1 /\ t # "e"
    BY <1>8 DEF Hanging, Grown
  <2>2. ASSUME NEW i \in 1 .. L
        PROVE  Hung(open', read', elem', i) = IF i = h THEN Hung(open, read, elem, i) \cup {x}
                                              ELSE Hung(open, read, elem, i)
    <3>1. \A j : j \in 1 .. Len(elem') <=> j \in 1 .. L \/ j = x
      BY <1>1, <2>1
    <3>2. x \in 1 .. Len(elem') /\ (After(i, x) <=> i = h)
      BY <1>6, <1>8, <2>1, <3>1
    <3>3. \A j \in 1 .. L : After(i, j) <=> Old(i, j)
      BY <1>5, <2>1
    <3> HIDE DEF L
    <3> QED
      BY <3>1, <3>2, <3>3 DEF Hung, L
  <2>3. \A i \in 1 .. L : \A j \in Hung(open, read, elem, i) : j < x /\ j # x
    BY <1>1, <2>1 DEF Hung
  <2>4. h \in 1 .. L
    BY <1>8, <2>1, Sending, TopTokens
  <2>5. \A i \in 1 .. Len(elem') : i > L \/ (i \in 1 .. L /\ ~ (i > L))
    BY <1>1
  <2> QED
    BY <1>7, <2>2, <2>3, <2>4, <2>5 DEF Hangs
<1>9. CASE t \in {"d", "l", "z"}
  <2>1. h = 0 /\ t # "e"
    BY <1>9 DEF Hanging
  <2>2. ASSUME NEW i \in 1 .. L
        PROVE  Hung(open', read', elem', i) = Hung(open, read, elem, i)
    <3>1. \A j \in 1 .. Len(elem') : After(i, j) => j \in 1 .. L
      BY <1>3, <1>6, <1>9
    <3>2. \A j \in 1 .. L : j \in 1 .. Len(elem') /\ (After(i, j) <=> Old(i, j))
      BY <1>1, <1>5, <2>1 DEF Kept
    <3> QED
      BY <3>1, <3>2 DEF Hung
  <2>3. \A i \in 1 .. Len(elem') : i > L \/ (i \in 1 .. L /\ ~ (i > L) /\ i # h)
    BY <1>1, <2>1
  <2> QED
    BY <1>7, <2>1, <2>2, <2>3 DEF Hangs
<1>10. CASE t = "e"
  <2>1. /\ Len(elem') = L /\ open # << >> /\ Len(open) > 0 /\ Len(open) \in Nat
    BY <1>10, SentIs, OpenAfter DEF Grown
  <2>2. /\ q \in 1 .. Len(read)
        /\ \A i \in 1 .. L : ~ Holds(open, read, elem, i, q)
        /\ Len(open) = 1 => \A i \in 1 .. L : ~ Holds(open', read', elem', i, q)
        /\ Len(open) > 1 =>
              /\ \A i \in 1 .. L : c[Len(c) - 1] \in 1 .. L
              /\ \A i \in 1 .. L : Holds(open', read', elem', i, q) <=> i = c[Len(c) - 1]
    <3>1. ASSUME NEW i \in 1 .. L
          PROVE  /\ q \in 1 .. Len(read) /\ ~ Holds(open, read, elem, i, q)
                 /\ Len(open) = 1 => ~ Holds(open', read', elem', i, q)
                 /\ Len(open) > 1 =>
                       /\ c[Len(c) - 1] \in 1 .. L
                       /\ Holds(open', read', elem', i, q) <=> i = c[Len(c) - 1]
      BY <1>1, <1>10, HoldsClosed
    <3>2. Last(c) \in 1 .. L
      BY <2>1, TopTokens
    <3> HIDE DEF q, L
    <3>3. q \in 1 .. Len(read)
      BY <3>1, <3>2
    <3> QED
      BY <3>1, <3>3
  <2>3. Last(c) \in 1 .. L /\ elem[Last(c)].tok = q
    <3>1. Last(open).key = 0
      BY <1>10, Sending
    <3> QED
      BY <2>1, <3>1, TopTokens
  <2>4. \A j \in 1 .. L : elem[j].tok = q <=> j = Last(c)
    BY <1>1, <2>3, TokOnce
  <2>5. CASE Len(open) = 1
    <3>1. h = 0
      BY <1>10, <2>5 DEF Hanging
    <3>2. ASSUME NEW i \in 1 .. L
          PROVE  Hung(open', read', elem', i) = Hung(open, read, elem, i)
      <4>1. \A j \in 1 .. L : After(i, j) <=> Old(i, j)
        BY <1>2, <1>4, <1>10, <2>2, <2>5
      <4> QED
        BY <2>1, <4>1 DEF Hung
    <3>3. \A i \in 1 .. Len(elem') : i \in 1 .. L /\ ~ (i > L) /\ i # h
      BY <1>1, <2>1, <3>1
    <3> QED
      BY <3>1, <3>2, <3>3 DEF Hangs
  <2>6. CASE Len(open) > 1
    <3>1. h = c[Len(c) - 1] /\ x = Last(c) /\ h \in 1 .. L /\ h # 0
      BY <1>10, <2>2, <2>3, <2>6 DEF Hanging
    <3>2. ASSUME NEW i \in 1 .. L
          PROVE  Hung(open', read', elem', i) = IF i = h THEN Hung(open, read, elem, i) \cup {x}
                                                ELSE Hung(open, read, elem, i)
      <4>1. \A j \in 1 .. L : j # x => (After(i, j) <=> Old(i, j))
        BY <1>4, <1>10, <2>4, <3>1
      <4>2. x \in 1 .. L /\ ~ Old(i, x) /\ (After(i, x) <=> i = h)
        BY <1>2, <2>2, <2>3, <2>6, <3>1
      <4> QED
        BY <2>1, <4>1, <4>2 DEF Hung
    <3>3. \A i \in 1 .. L : x \notin Hung(open, read, elem, i)
      BY <2>2, <2>3, <3>1 DEF Hung
    <3>4. ASSUME NEW j \in Hung(open, read, elem, h) PROVE j < x
      <4>1. j \in 1 .. L /\ Old(h, j) /\ j # x /\ elem[j].tok \in 1 .. Len(read)
        BY <1>2, <3>1, <3>3 DEF Hung
      <4>2. /\ \/ elem[h].type = "LIST_HEAD" /\ read[q].in = elem[h].tok
               \/ elem[h].type = "DICT_KEY" /\ read[q].key = elem[h].tok
            /\ elem[h].tok # 0
        <5>1. Holds(open', read', elem', h, q)
          BY <2>2, <2>6, <3>1
        <5>2. read'[q] = read[q] /\ read[q].tok # "s"
          <6>1. read[q].tok = open[Len(open)].letter /\ open[Len(open)].letter \in {"d", "l"}
            BY <1>1, <2>1, TopTokens DEF Nested
          <6> QED
            BY <2>2, <6>1, SentIs
        <5>3. elem'[h].type = elem[h].type /\ elem'[h].tok = elem[h].tok /\ elem[h].tok # 0
          BY <1>1, <3>1 DEF Kept, Made
        <5> QED
          BY <5>1, <5>2, <5>3 DEF Holds, Key
      <4>3. elem[j].tok <= q
        <5>1. CASE elem[h].type = "LIST_HEAD" /\ read[q].in = elem[h].tok
          <6> DEFINE k == Len(open) - 1
          <6>1. k \in 1 .. k /\ k + 1 = Len(open)
            BY <2>1, <2>6
          <6>2. read[q].in = open[k].at
            BY <1>1, <6>1 DEF Nested
          <6>3. read[elem[j].tok].in = elem[h].tok
            BY <4>1, <5>1 DEF Holds
          <6> QED
            BY <1>1, <4>1, <5>1, <6>1, <6>2, <6>3 DEF Nested
        <5>2. CASE elem[h].type = "DICT_KEY" /\ read[q].key = elem[h].tok
          <6>1. read[elem[j].tok].key = read[q].key /\ read[q].key # 0
            BY <4>1, <4>2, <5>2 DEF Holds
          <6>2. elem[j].tok = q
            BY <1>1, <2>2, <4>1, <6>1 DEF KeysOnce
          <6> QED
            BY <2>2, <6>2
        <5> QED
          BY <4>2, <5>1, <5>2
      <4>4. x \in 1 .. L /\ elem[x].tok = q /\ elem[j].tok # q
        BY <2>3, <2>4, <3>1, <4>1
      <4>5. ~ (x < j)
        <5>1. x < j => elem[x].tok < elem[j].tok
          BY <1>1, <4>1, <4>4, ToksRise
        <5> QED
          BY <2>2, <4>1, <4>3, <4>4, <5>1
      <4> QED
        BY <4>1, <4>4, <4>5
    <3>5. \A i \in 1 .. Len(elem') : i \in 1 .. L /\ ~ (i > L)
      BY <1>1, <2>1
    <3> QED
      BY <3>2, <3>3, <3>4, <3>5 DEF Hangs
  <2> QED
    BY <2>1, <2>5, <2>6
<1> QED
  BY <1>8, <1>9, <1>10 DEF Token

-----------------------------------------------------------------------------
(***************************************************************************)
(* The steps of the parser, and the theorems about the tree.               *)
(***************************************************************************)
\* An array with an element more, which points nowhere.
LEMMA WithIs ==
    ASSUME IInv, NEW type \in {"DICT", "LIST_HEAD", "DICT_KEY", "DICT_VAL"}
    PROVE  LET d == With(type)
           IN  /\ d \in Seq(Element) /\ Len(d) = n /\ n = Len(elem) + 1 /\ Len(elem) \in Nat
               /\ d[n].type = type /\ d[n].tok = Len(read) + 1
               /\ d[n].val = 0 /\ d[n].next = 0
               /\ \A i \in 1 .. Len(elem) : d[i] = elem[i]
               /\ Array(d, Len(read) + 1) /\ Kept(d, elem)
<1>1. Array(elem, Len(read)) /\ Len(read) \in Nat /\ elem \in Seq(Element)
  BY DEF IInv, Types, Array
<1> DEFINE y == [type |-> type, tok |-> Len(read) + 1, val |-> 0, next |-> 0]
           d == Append(elem, y)
<1>2. Array(d, Len(read) + 1) /\ Kept(d, elem)
  BY <1>1, NewElement
<1>3. With(type) = d /\ n = Len(elem) + 1
  BY DEF With, New, n
<1>4. y \in Element /\ y.type = type /\ y.tok = Len(read) + 1 /\ y.val = 0 /\ y.next = 0
  BY <1>1 DEF Element
<1> HIDE DEF y
<1>5. /\ d \in Seq(Element) /\ Len(d) = Len(elem) + 1 /\ d[Len(elem) + 1] = y
      /\ \A i \in 1 .. Len(elem) : d[i] = elem[i]
  BY <1>1, <1>4, AppendIs
<1> HIDE DEF d
<1> QED
  BY <1>1, <1>2, <1>3, <1>4, <1>5

\* What an array points to when a value is set in it.
LEMMA ValueSetIs ==
    ASSUME NEW e \in Seq(Element), NEW k \in 1 .. Len(e), NEW x \in Nat
    PROVE  LET d == [e EXCEPT ![k].val = x]
           IN  \A i \in 1 .. Len(e) : /\ d[i].val = IF i = k THEN x ELSE e[i].val
                                      /\ d[i].next = e[i].next
                                      /\ d[i].tok = e[i].tok /\ d[i].type = e[i].type
<1> DEFINE y == [e[k] EXCEPT !.val = x]
           d == [e EXCEPT ![k] = y]
<1>1. e[k] \in Element
  BY ElementOfSeq
<1>2. y \in Element /\ y.type = e[k].type /\ y.tok = e[k].tok /\ y.val = x /\ y.next = e[k].next
  BY <1>1, NewFields
<1>3. [e EXCEPT ![k].val = x] = d
  OBVIOUS
<1> HIDE DEF y
<1>4. \A i \in 1 .. Len(e) : d[i] = IF i = k THEN y ELSE e[i]
  BY <1>2, ExceptSeq
<1> HIDE DEF d
<1>5. ASSUME NEW i \in 1 .. Len(e)
      PROVE  /\ d[i].val = IF i = k THEN x ELSE e[i].val
             /\ d[i].next = e[i].next
             /\ d[i].tok = e[i].tok /\ d[i].type = e[i].type
  BY <1>2, <1>4
<1> QED
  BY <1>3, <1>5

\* What an array points to when an element is put in front of a chain.
LEMMA ChainedIs ==
    ASSUME NEW e \in Seq(Element), NEW head \in 1 .. Len(e), NEW x \in 1 .. Len(e), head # x
    PROVE  LET d == Chained(e, head, x)
           IN  /\ Len(d) = Len(e)
               /\ \A i \in 1 .. Len(e) : /\ d[i].val = IF i = head THEN x ELSE e[i].val
                                         /\ d[i].next = IF i = x THEN e[head].val ELSE e[i].next
                                         /\ d[i].tok = e[i].tok /\ d[i].type = e[i].type
<1> DEFINE d == Chained(e, head, x)
           a == [e[x] EXCEPT !.next = e[head].val]
           b == [e[head] EXCEPT !.val = x]
<1>1. e[head] \in Element /\ e[x] \in Element /\ Len(e) \in Nat
  BY ElementOfSeq
<1>2. /\ a.type = e[x].type /\ a.tok = e[x].tok
      /\ a.val = e[x].val /\ a.next = e[head].val
      /\ b.type = e[head].type /\ b.tok = e[head].tok
      /\ b.val = x /\ b.next = e[head].next
  <2>1. e[head].val \in Nat /\ x \in Nat
    BY <1>1, FieldTypes
  <2> DEFINE y == e[x]
             z == e[head]
             k == z.val
  <2>2. y \in Element /\ z \in Element /\ k \in Nat
    BY <1>1, <2>1
  <2> HIDE DEF y, z, k
  <2>3. LET w == [y EXCEPT !.next = k]
        IN  w \in Element /\ w.type = y.type /\ w.tok = y.tok /\ w.val = y.val /\ w.next = k
    BY <2>2, NewFields
  <2>4. LET w == [z EXCEPT !.val = x]
        IN  w \in Element /\ w.type = z.type /\ w.tok = z.tok /\ w.val = x /\ w.next = z.next
    BY <2>1, <2>2, NewFields
  <2> QED
    BY <2>3, <2>4 DEF y, z, k
<1>3. d = [i \in 1 .. Len(e) |-> IF i = x THEN a ELSE IF i = head THEN b ELSE e[i]]
  BY DEF Chained
<1> HIDE DEF a, b, d
<1>4. \A i \in 1 .. Len(e) : d[i] = (IF i = x THEN a ELSE IF i = head THEN b ELSE e[i])
  BY <1>3
<1>5. Len(d) = Len(e)
  BY <1>1, <1>3
<1>6. ASSUME NEW i \in 1 .. Len(e)
      PROVE  /\ d[i].val = IF i = head THEN x ELSE e[i].val
             /\ d[i].next = IF i = x THEN e[head].val ELSE e[i].next
             /\ d[i].tok = e[i].tok /\ d[i].type = e[i].type
  <2>1. CASE i = x
    BY <1>2, <1>4, <2>1
  <2>2. CASE i = head
    BY <1>2, <1>4, <2>2
  <2>3. CASE i # x /\ i # head
    BY <1>4, <2>3
  <2> QED
    BY <2>1, <2>2, <2>3
<1> QED
  BY <1>5, <1>6 DEF d

\* The tree is right after a token, where the array changes as it should.
LEMMA TreeStep ==
    ASSUME IInv, TreeInv, ret = "running", NEW t \in Token, Send(t),
           Array(elem', Len(read) + 1), Kept(elem', elem),
           Grown(t, Len(read) + 1, elem', elem),
           NEW h, NEW x \in Nat, h \in 0 .. Len(elem), Hanging(t, h, x), Links(elem, elem', h, x)
    PROVE  TreeInv'
<1> DEFINE here == Len(read) + 1
<1>1. /\ Nested(open, read) /\ KeysOnce(open, read) /\ Made(read, elem)
      /\ Linked(open, read, elem)
  BY DEF TreeInv
<1>2. /\ Len(elem) \in Nat /\ Len(elem') \in Nat /\ Len(read) \in Nat /\ Len(read') = here
      /\ \A q \in 1 .. Len(read) : read'[q] = read[q]
      /\ read'[here].tok = t
  <2>1. Len(elem) \in Nat /\ Len(elem') \in Nat
    BY DEF IInv, Types, Array
  <2> QED
    BY <2>1, SentIs
<1>3. Linked(open', read', elem')
  <2>1. Hangs(open, read, elem, open', read', elem', h, x)
    BY HangsStep
  <2> QED
    BY <1>1, <1>2, <2>1, LinkedStep
<1>4. Made(read', elem')
  <2>1. \A j \in 1 .. Len(elem) : j \in 1 .. Len(elem') /\ elem'[j].tok = elem[j].tok
    BY <1>2 DEF Kept
  <2>2. \A j \in 1 .. Len(elem') : elem'[j].tok # 0
    <3>1. \A j \in 1 .. Len(elem') :
             j \in 1 .. Len(elem) \/ (j = Len(elem) + 1 /\ elem'[j].tok = here)
      BY <1>2 DEF Grown
    <3> QED
      BY <1>1, <1>2, <2>1, <3>1 DEF Made
  <2>3. ASSUME NEW q \in 1 .. Len(read'), read'[q].tok \notin {"e", "z"}
        PROVE  \E j \in 1 .. Len(elem') : elem'[j].tok = q
    <3>1. CASE q = here
      <4>1. Len(elem') = Len(elem) + 1 /\ elem'[Len(elem) + 1].tok = here
        BY <1>2, <2>3, <3>1 DEF Grown
      <4>2. Len(elem) + 1 \in 1 .. Len(elem')
        BY <1>2, <4>1
      <4> QED
        BY <3>1, <4>1, <4>2
    <3>2. CASE q \in 1 .. Len(read)
      BY <1>1, <1>2, <2>1, <2>3, <3>2 DEF Made
    <3> QED
      BY <1>2, <3>1, <3>2
  <2> QED
    BY <2>2, <2>3 DEF Made
<1>5. Nested(open', read') /\ KeysOnce(open', read')
  BY <1>1, NestedStep, KeysOnceStep
<1> QED
  BY <1>3, <1>4, <1>5 DEF TreeInv

\* A container begins.
LEMMA TreeOpens ==
    ASSUME IInv, TreeInv, ReadDict \/ ReadList
    PROVE  TreeInv'
<1>1. PICK t \in {"d", "l"} : ret = "running" /\ Send(t) /\ elem' = With(TypeOf(t))
  BY DEF ReadDict, ReadList, TypeOf
<1>2. t \in Token /\ TypeOf(t) \in {"DICT", "LIST_HEAD", "DICT_KEY", "DICT_VAL"}
  BY DEF Token, TypeOf
<1>3. /\ elem' \in Seq(Element) /\ Len(elem') = n /\ n = Len(elem) + 1 /\ Len(elem) \in Nat
      /\ elem'[n].tok = Len(read) + 1 /\ elem'[n].val = 0
      /\ \A i \in 1 .. Len(elem) : elem'[i] = elem[i]
      /\ Array(elem', Len(read) + 1) /\ Kept(elem', elem)
  BY <1>1, <1>2, WithIs
<1>4. Grown(t, Len(read) + 1, elem', elem)
  BY <1>1, <1>3 DEF Grown
<1>5. Links(elem, elem', 0, 1)
  BY <1>3 DEF Links
<1>6. Hanging(t, 0, 1) /\ 0 \in 0 .. Len(elem)
  BY <1>3 DEF Hanging
<1> QED
  BY <1>1, <1>2, <1>3, <1>4, <1>5, <1>6, TreeStep

\* A key, or a value that is complete with its token.
LEMMA TreeGrows ==
    ASSUME IInv, TreeInv, ret = "running", NEW t \in {"s", "i"}, Send(t),
           NEW type \in {"DICT_KEY", "DICT_VAL"},
           \/ /\ elem[Last(c)].type = "DICT_KEY"
              /\ elem' = [With(type) EXCEPT ![Last(c)].val = n]
           \/ elem' = Chained(With(type), Last(c), n)
    PROVE  TreeInv'
<1> DEFINE d == With(type)
           h == Last(c)
<1>1. t \in Token /\ open # << >>
  BY Sending DEF Token
<1>2. h \in 1 .. Len(elem)
  BY <1>1, TopTokens
<1>3. /\ d \in Seq(Element) /\ Len(d) = n /\ n = Len(elem) + 1 /\ Len(elem) \in Nat
      /\ d[n].tok = Len(read) + 1 /\ d[n].val = 0
      /\ \A i \in 1 .. Len(elem) : d[i] = elem[i]
      /\ Array(d, Len(read) + 1) /\ Kept(d, elem) /\ Len(read) + 1 \in Nat
  <2>1. Len(read) \in Nat
    BY DEF IInv, Types
  <2> QED
    BY <2>1, WithIs
<1> HIDE DEF d, h
<1>4. h \in 1 .. Len(d) /\ n \in 1 .. Len(d) /\ h # n /\ n \in Nat /\ h # 0
      /\ h \in 0 .. Len(elem)
  BY <1>2, <1>3
<1>5. /\ Array(elem', Len(read) + 1) /\ Kept(elem', d) /\ Len(elem') = Len(d)
      /\ Links(elem, elem', h, n)
  <2>1. CASE elem[h].type = "DICT_KEY" /\ elem' = [d EXCEPT ![h].val = n]
    <3>1. /\ Array([d EXCEPT ![h].val = n], Len(read) + 1)
          /\ Kept([d EXCEPT ![h].val = n], d)
          /\ Len([d EXCEPT ![h].val = n]) = Len(d)
      <4>1. /\ Array(d, Len(read) + 1) /\ Len(read) + 1 \in Nat
            /\ h \in 1 .. Len(d) /\ n \in 1 .. Len(d)
        BY <1>3, <1>4
      <4> QED
        BY <4>1, ValueSet, Zenon
    <3>2. \A i \in 1 .. Len(d) : /\ elem'[i].val = IF i = h THEN n ELSE d[i].val
                                 /\ elem'[i].next = d[i].next
      BY <1>3, <1>4, <2>1, ValueSetIs
    <3>3. Len(elem') = Len(d) /\ Array(elem', Len(read) + 1) /\ Kept(elem', d)
      BY <2>1, <3>1, Zenon
    <3>4. Links(elem, elem', h, n)
      <4>1. elem[h].type = "DICT_KEY" /\ elem'[h].val = n
        BY <1>4, <2>1, <3>2
      <4>2. ASSUME NEW i \in 1 .. Len(elem'), i # h
            PROVE  elem'[i].val = IF i > Len(elem) THEN 0 ELSE elem[i].val
        BY <1>3, <3>2, <3>3, <4>2
      <4>3. ASSUME NEW j \in 1 .. Len(elem) PROVE elem'[j].next = elem[j].next
        BY <1>3, <3>2
      <4> QED
        BY <4>1, <4>2, <4>3 DEF Links
    <3> QED
      BY <3>3, <3>4
  <2>2. CASE elem' = Chained(d, h, n)
    <3>1. Array(elem', Len(read) + 1) /\ Kept(elem', d) /\ Len(elem') = Len(d)
      <4> DEFINE w == Chained(d, h, n)
      <4>1. /\ Array(d, Len(read) + 1) /\ Len(read) + 1 \in Nat
            /\ h \in 1 .. Len(d) /\ n \in 1 .. Len(d)
        BY <1>3, <1>4
      <4>2. Array(w, Len(read) + 1) /\ Kept(w, d) /\ Len(w) = Len(d)
        BY <4>1, ChainGrows, Zenon
      <4> QED
        BY <2>2, <4>2, Zenon
    <3>2. \A i \in 1 .. Len(d) : /\ elem'[i].val = IF i = h THEN n ELSE d[i].val
                                 /\ elem'[i].next = IF i = n THEN d[h].val ELSE d[i].next
      <4>1. d \in Seq(Element)
        BY <1>3 DEF Array
      <4> QED
        BY <1>4, <2>2, <4>1, ChainedIs
    <3>3. Links(elem, elem', h, n)
      BY <1>2, <1>3, <1>4, <3>1, <3>2 DEF Links
    <3> QED
      BY <3>1, <3>3
  <2> QED
    BY <2>1, <2>2 DEF d, h
<1>6. Kept(elem', elem)
  BY <1>3, <1>5, KeptTwice
<1>7. Grown(t, Len(read) + 1, elem', elem)
  BY <1>3, <1>4, <1>5 DEF Grown, Kept
<1>8. Hanging(t, h, n)
  BY <1>3 DEF Hanging, h
<1> QED
  BY <1>1, <1>4, <1>5, <1>6, <1>7, <1>8, TreeStep

\* A token that adds nothing to the tree: the empty string, or the end of the
\* message.
LEMMA TreeStays ==
    ASSUME IInv, TreeInv, ret = "running", NEW t \in {"z", "e"}, Send(t),
           t = "e" => Len(open) = 1, elem' = elem
    PROVE  TreeInv'
<1>1. t \in Token /\ Array(elem, Len(read)) /\ Len(read) \in Nat /\ Len(elem) \in Nat
  BY DEF Token, IInv, Types, Array
<1>2. Array(elem', Len(read) + 1) /\ Kept(elem', elem)
  BY <1>1, ArrayLasts
<1>3. Grown(t, Len(read) + 1, elem', elem)
  BY <1>1 DEF Grown
<1>4. Links(elem, elem', 0, 1)
  BY <1>1 DEF Links
<1>5. Hanging(t, 0, 1) /\ 0 \in 0 .. Len(elem)
  BY <1>1 DEF Hanging
<1> QED
  BY <1>1, <1>2, <1>3, <1>4, <1>5, TreeStep

\* A container ends.
LEMMA TreeCloses ==
    ASSUME IInv, TreeInv, ReadEnd
    PROVE  TreeInv'
<1> DEFINE m == Len(open)
           e == Last(c)
           top == c[Len(c) - 1]
<1>1. ret = "running" /\ Send("e") /\ "e" \in Token
  BY DEF ReadEnd, Token
<1>2. /\ m \in Nat /\ m > 0 /\ open # << >> /\ Last(open).key = 0
  BY <1>1, SentIs, OpenAfter, Sending
<1>3. /\ e \in 1 .. Len(elem) /\ c # << >> /\ m \in 1 .. m
      /\ elem[e].tok = open[m].at
  BY <1>2, TopTokens
<1>4. s # << >>
  BY <1>2, PeekIs
<1>5. PICK f : Laid(f, open, read, c, elem)
  BY DEF IInv
<1>6. Len(c) = f[m] /\ f[1] = 1 /\ Len(c) \in Nat
  <2>1. Len(c) = f[m]
    BY <1>2, <1>5, TopIs
  <2> QED
    BY <1>5, <2>1 DEF Laid, Stacks
<1>7. CASE m = 1
  <2>1. elem' = elem
    BY <1>3, <1>4, <1>6, <1>7 DEF ReadEnd
  <2> QED
    BY <1>1, <1>7, <2>1, TreeStays
<1>8. CASE m > 1
  <2>1. Array(elem, Len(read)) /\ Len(read) \in Nat /\ elem \in Seq(Element) /\ Len(elem) \in Nat
    BY DEF IInv, Types, Array
  <2>2. Len(c) # 1
    <3>1. 1 \in 1 .. m + 1 /\ m \in 1 .. m + 1
      BY <1>2
    <3>2. f[1] < f[m]
      BY <1>5, <1>8, <3>1, PlacesRise
    <3> QED
      BY <1>6, <3>2
  <2>3. Close(e, top)
    BY <1>3, <1>4, <2>2 DEF ReadEnd
  <2>4. Nested(open, read) /\ Made(read, elem)
    BY DEF TreeInv
  <2>5. /\ top \in 1 .. Len(elem)
        /\ \/ elem[top].type = "LIST_HEAD" /\ top # e
           \/ elem[top].type = "DICT_KEY"
    <3>0. Kept(elem, elem)
      BY <2>1, ArrayLasts
    <3>1. PICK k \in 1 .. m - 1 : k + 1 = m
      BY <1>2, <1>8
    <3>2. open[k].at < open[m].at /\ read[open[m].at].in = open[k].at /\ open[k].at \in Nat
      <4>1. k \in 1 .. m /\ k < m
        BY <1>2, <3>1
      <4>2. open[k].at \in Nat
        BY <1>5, <4>1, LaidAt
      <4> QED
        BY <2>4, <3>1, <4>1, <4>2 DEF Nested
    <3>3. /\ f[k] \in Nat \ {0} /\ f[m] = f[k] + 1 + Above(open, read, k)
          /\ elem[c[f[k]]].tok = open[k].at
          /\ elem[c[f[k]]].type = TypeOf(open[k].letter)
          /\ Waits(open, read, k) # 0 => elem[c[f[k] + 1]].type = "DICT_KEY"
          /\ open[k].letter = "d" => Waits(open, read, k) # 0
          /\ Waits(open, read, k) # 0 => open[k].letter = "d"
      <4>1. k \in 1 .. m /\ k < m
        BY <1>2, <3>1
      <4> QED
        BY <1>5, <3>1, <4>1, LaidAt
    <3>4. /\ c[f[k]] \in 1 .. Len(elem)
          /\ Waits(open, read, k) # 0 => c[f[k] + 1] \in 1 .. Len(elem)
      <4>1. k \in 1 .. m
        BY <1>2, <3>1
      <4> QED
        BY <1>5, <4>1, PlacesOnStack
    <3>5. CASE Waits(open, read, k) # 0
      <4>1. Len(c) - 1 = f[k] + 1
        BY <1>6, <3>3, <3>5 DEF Above
      <4> QED
        BY <3>3, <3>4, <3>5, <4>1
    <3>6. CASE Waits(open, read, k) = 0
      <4>1. Len(c) - 1 = f[k] /\ open[k].letter # "d"
        BY <1>6, <3>3, <3>6 DEF Above
      <4>2. top = c[f[k]] /\ elem[top].type = "LIST_HEAD" /\ elem[top].tok = open[k].at
        BY <3>3, <4>1 DEF TypeOf
      <4>3. top # e
        BY <1>3, <3>2, <4>2
      <4> QED
        BY <3>4, <4>2, <4>3
    <3> QED
      BY <3>5, <3>6
  <2> HIDE DEF e, top, m
  <2>6. e \in Nat /\ top \in 0 .. Len(elem) /\ top # 0 /\ e \in 1 .. Len(elem)
    BY <1>3, <2>1, <2>5
  <2>7. /\ Array(elem', Len(read) + 1) /\ Kept(elem', elem) /\ Len(elem') = Len(elem)
        /\ Links(elem, elem', top, e)
    <3>1. CASE elem[top].type = "LIST_HEAD" /\ top # e
      <4>1. elem' = Chained(elem, top, e)
        BY <2>3, <3>1 DEF Close
      <4>2. Array(elem', Len(read)) /\ Kept(elem', elem) /\ Len(elem') = Len(elem)
        BY <2>1, <2>5, <2>6, <4>1, ChainGrows, Zenon
      <4>3. Array(elem', Len(read) + 1)
        BY <2>1, <4>2, ArrayLasts
      <4>4. \A i \in 1 .. Len(elem) : /\ elem'[i].val = IF i = top THEN e ELSE elem[i].val
                                      /\ elem'[i].next = IF i = e THEN elem[top].val ELSE elem[i].next
        BY <2>1, <2>5, <2>6, <3>1, <4>1, ChainedIs
      <4>5. Links(elem, elem', top, e)
        BY <2>1, <2>5, <2>6, <4>2, <4>4 DEF Links
      <4> QED
        BY <4>2, <4>3, <4>5
    <3>2. CASE elem[top].type = "DICT_KEY"
      <4>1. elem' = [elem EXCEPT ![top].val = e]
        BY <2>3, <3>2 DEF Close
      <4>2. /\ Array([elem EXCEPT ![top].val = e], Len(read))
            /\ Kept([elem EXCEPT ![top].val = e], elem)
            /\ Len([elem EXCEPT ![top].val = e]) = Len(elem)
        BY <2>1, <2>5, <2>6, ValueSet, Zenon
      <4>3. Array(elem', Len(read)) /\ Kept(elem', elem) /\ Len(elem') = Len(elem)
        BY <4>1, <4>2, Zenon
      <4>4. Array(elem', Len(read) + 1)
        BY <2>1, <4>3, ArrayLasts
      <4>5. \A i \in 1 .. Len(elem) : /\ elem'[i].val = IF i = top THEN e ELSE elem[i].val
                                      /\ elem'[i].next = elem[i].next
        BY <2>1, <2>5, <2>6, <4>1, ValueSetIs
      <4>6. Links(elem, elem', top, e)
        BY <2>1, <2>6, <3>2, <4>3, <4>5 DEF Links
      <4> QED
        BY <4>3, <4>4, <4>6
    <3> QED
      BY <2>5, <3>1, <3>2
  <2>8. Grown("e", Len(read) + 1, elem', elem)
    BY <2>1, <2>7 DEF Grown
  <2>9. Hanging("e", top, e)
    BY <1>8 DEF Hanging, top, e, m
  <2> QED
    BY <1>1, <2>6, <2>7, <2>8, <2>9, TreeStep
<1>9. m = 1 \/ m > 1
  <2>1. \A k \in Nat : k > 0 => k = 1 \/ k > 1
    OBVIOUS
  <2> QED
    BY <1>2, <2>1, Zenon
<1> QED
  BY <1>7, <1>8, <1>9

\* Before the first token there is neither an element nor an open container.
LEMMA InitTreeInv ==
    ASSUME Init
    PROVE  TreeInv
<1>1. Len(read) = 0 /\ Len(open) = 0 /\ Len(elem) = 0
  BY DEF Init
<1> QED
  BY <1>1 DEF TreeInv, Nested, KeysOnce, Made, Linked

\* Every token keeps the invariant of the tree.
LEMMA NextTreeInv ==
    ASSUME IInv, TreeInv, [Next]_vars
    PROVE  TreeInv'
<1>1. CASE ReadDict \/ ReadList
  BY <1>1, TreeOpens
<1>2. CASE ReadInt
  <2>1. ret = "running" /\ Send("i")
    BY <1>2 DEF ReadInt
  <2>2. open # << >> /\ ~ KeyExpected
    BY <2>1, Sending DEF Token
  <2>3. \/ /\ elem[Last(c)].type = "DICT_KEY"
           /\ elem' = [With("DICT_VAL") EXCEPT ![Last(c)].val = n]
        \/ elem' = Chained(With("DICT_VAL"), Last(c), n)
    BY <1>2, <2>2, ValueDue DEF ReadInt
  <2> QED
    BY <2>1, <2>3, TreeGrows
<1>3. CASE ReadKey
  BY <1>3, TreeGrows DEF ReadKey
<1>4. CASE ReadValue
  <2>1. ret = "running" /\ Send("s") /\ Peek = "d"
    BY <1>4 DEF ReadValue
  <2>2. open # << >>
    BY <2>1, PeekIs
  <2>3. ~ KeyExpected
    BY <1>4, <2>2 DEF ReadValue, IInv, StatusAgrees, KeyExpected
  <2>4. /\ elem[Last(c)].type = "DICT_KEY"
        /\ elem' = [With("DICT_VAL") EXCEPT ![Last(c)].val = n]
    BY <1>4, <2>1, <2>2, <2>3, ValueDue DEF ReadValue
  <2> QED
    BY <2>1, <2>4, TreeGrows
<1>5. CASE ReadElement
  BY <1>5, TreeGrows DEF ReadElement
<1>6. CASE ReadEmpty
  BY <1>6, TreeStays DEF ReadEmpty
<1>7. CASE ReadEnd
  BY <1>7, TreeCloses
<1>8. CASE UNCHANGED vars
  BY <1>8 DEF TreeInv, vars
<1> QED
  BY <1>1, <1>2, <1>3, <1>4, <1>5, <1>6, <1>7, <1>8 DEF Next

\* The tree that ben_coding builds is, after every token, the one the message
\* describes: the elements that hang on each, the links between them and the
\* place of each open container.
THEOREM TreeInvariance == Spec => []TreeInv
<1>1. Init => TreeInv
  BY InitTreeInv
<1>2. IInv /\ TreeInv /\ [Next]_vars => TreeInv'
  BY NextTreeInv
<1> QED
  BY <1>1, <1>2, ParserInvariance, PTL DEF Spec

\* However long a message is and however deep its nesting, the chain of every
\* dictionary and list shows what was read into it, the last one first, and a
\* key points to its own value.
THEOREM TreeFollowsMessage == Spec => []TreeAgrees
<1>1. IInv /\ TreeInv => TreeAgrees
  <2> SUFFICES ASSUME IInv, TreeInv PROVE TreeAgrees
    OBVIOUS
  <2>1. /\ Nested(open, read) /\ KeysOnce(open, read) /\ Made(read, elem)
        /\ Linked(open, read, elem)
        /\ Array(elem, Len(read)) /\ Len(read) \in Nat /\ elem \in Seq(Element)
    BY DEF TreeInv, IInv, Types, Array
  <2>2. \A j \in 1 .. Len(elem) : elem[j].tok \in 1 .. Len(read)
    <3> SUFFICES ASSUME NEW j \in 1 .. Len(elem) PROVE elem[j].tok \in 1 .. Len(read)
      OBVIOUS
    <3>1. elem[j].tok \in Nat /\ elem[j].tok # 0 /\ elem[j].tok <= Len(read)
      BY <2>1, ElementOfSeq, FieldTypes DEF Array, Made
    <3> QED
      BY <2>1, <3>1
  <2>3. \A q : (IsKey(q) <=> Key(read, q)) /\ (Complete(q) <=> Done(open, read, q))
    BY DEF IsKey, Key, Complete, Done, IsOpen
  <2>4. ASSUME NEW i \in 1 .. Len(elem)
        PROVE  LET p == elem[i].tok
                   inside == {q \in 1 .. Len(read) : read[q].in = p /\ read[q].tok # "e"}
               IN  /\ elem[i].type = "DICT" =>
                          ChainFrom(elem[i].val) = Descending({q \in inside : IsKey(q)})
                   /\ elem[i].type = "LIST_HEAD" =>
                          ChainFrom(elem[i].val)
                             = Descending({q \in inside : Complete(q) /\ read[q].tok # "z"})
                   /\ elem[i].type = "DICT_KEY" =>
                          {q \in 1 .. Len(read) : read[q].key = p /\ Complete(q) /\ read[q].tok # "z"}
                             = IF elem[i].val = 0 THEN {} ELSE {elem[elem[i].val].tok}
    <3> DEFINE p == elem[i].tok
               inside == {q \in 1 .. Len(read) : read[q].in = p /\ read[q].tok # "e"}
               S == {q \in 1 .. Len(read) : Holds(open, read, elem, i, q)}
               M == Hung(open, read, elem, i)
    <3>1. \A q \in S : read[q].tok \notin {"e", "z"}
      <4>1. p # 0
        BY <2>1 DEF Made
      <4> QED
        BY <2>1, <4>1 DEF Holds, Key, KeysOnce
    <3>2. S = {elem[j].tok : j \in M}
      <4>1. \A j \in M : elem[j].tok \in S
        BY <2>2 DEF Hung
      <4>2. \A q \in S : \E j \in M : elem[j].tok = q
        BY <2>1, <3>1 DEF Made, Hung
      <4> QED
        BY <4>1, <4>2
    <3>3. M \in SUBSET (1 .. Len(elem)) /\ \A j \in M : elem[j].tok # 0
      BY <2>1 DEF Hung, Made
    <3>4. /\ elem[i].type # "DICT_VAL" => Greatest(elem[i].val, M)
          /\ elem[i].type \in {"DICT", "LIST_HEAD"} =>
                \A j \in M : Greatest(elem[j].next, {k \in M : k < j})
      BY <2>1 DEF Linked
    <3>5. ASSUME elem[i].type \in {"DICT", "LIST_HEAD"}
          PROVE  ChainFrom(elem[i].val) = Descending(S)
      <4>1. Greatest(elem[i].val, M) /\ \A j \in M : Greatest(elem[j].next, {k \in M : k < j})
        BY <3>4, <3>5
      <4> HIDE DEF S, M
      <4> QED
        BY <2>1, <3>2, <3>3, <4>1, ChainIs
    <3>6. ASSUME elem[i].type = "DICT" PROVE S = {q \in inside : IsKey(q)}
      BY <2>3, <3>1, <3>6 DEF Holds
    <3>7. ASSUME elem[i].type = "LIST_HEAD"
          PROVE  S = {q \in inside : Complete(q) /\ read[q].tok # "z"}
      BY <2>3, <3>7 DEF Holds
    <3>8. ASSUME elem[i].type = "DICT_KEY"
          PROVE  {q \in 1 .. Len(read) : read[q].key = p /\ Complete(q) /\ read[q].tok # "z"}
                    = IF elem[i].val = 0 THEN {} ELSE {elem[elem[i].val].tok}
      <4>1. S = {q \in 1 .. Len(read) : read[q].key = p /\ Complete(q) /\ read[q].tok # "z"}
        BY <2>3, <3>8 DEF Holds
      <4>2. \A q, r \in S : q = r
        <5>1. p # 0 /\ \A q \in S : read[q].key = p
          BY <2>1, <3>8 DEF Made, Holds
        <5> QED
          BY <2>1, <5>1 DEF KeysOnce
      <4>3. Greatest(elem[i].val, M)
        BY <3>4, <3>8
      <4> HIDE DEF S, M
      <4>4. CASE M = {}
        <5>1. elem[i].val = 0 /\ S = {}
          BY <3>2, <4>3, <4>4 DEF Greatest
        <5> QED
          BY <4>1, <5>1
      <4>5. CASE M # {}
        <5>1. elem[i].val \in M /\ elem[i].val # 0
          BY <3>3, <4>3, <4>5 DEF Greatest
        <5>2. S = {elem[elem[i].val].tok}
          BY <3>2, <4>2, <5>1
        <5> QED
          BY <4>1, <5>1, <5>2
      <4> QED
        BY <4>4, <4>5
    <3> QED
      BY <3>5, <3>6, <3>7, <3>8
  <2> QED
    BY <2>4 DEF TreeAgrees
<1> QED
  BY <1>1, ParserInvariance, TreeInvariance, PTL

=============================================================================
