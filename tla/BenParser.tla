----------------------------- MODULE BenParser -----------------------------
(***************************************************************************)
(* ben_coding of platform/bt_parser.c: the parser every packet goes        *)
(* through.  It keeps two stacks, the letters of the open containers and   *)
(* the elements that wait for their contents, and a status variable that   *)
(* tells keys from values, and builds the tree in the array dict.e.        *)
(*                                                                         *)
(* The input is a stream of tokens: d, l, e, an integer i, a string s and  *)
(* the empty string z ("0:"), which the code treats apart.  What a string  *)
(* or an integer says is left out: an element remembers the position of    *)
(* the token it was made from.  The sender writes one message, a           *)
(* dictionary without empty keys, and the packet may end after any token.  *)
(***************************************************************************)
EXTENDS Integers, Sequences, FiniteSets

CONSTANTS
    MaxStack,  \* MAX_STACK_SIZE
    MaxTokens  \* bound: tokens of a packet explored

\* A packet has 500 bytes, so at most 500 tokens: push never fails.
ASSUME StackAssumption == MaxTokens \in Nat /\ MaxStack \in Nat /\ MaxTokens <= MaxStack

VARIABLES
    read,    \* the tokens read, each with its place in the message
    open,    \* the sender's side: the containers that are open in the message
    s,       \* g_stack: "d" and "l"
    c,       \* g_ctx_stack: indices of elements
    status,  \* status
    elem,    \* dict.e, ele_cnt of them
    ret      \* how ben_coding ended

vars == <<read, open, s, c, status, elem, ret>>
parser == <<s, c, status, elem, ret>>

Last(stack)  == stack[Len(stack)]
Front(stack) == SubSeq(stack, 1, Len(stack) - 1)

-----------------------------------------------------------------------------
(***************************************************************************)
(* The message.  open has a record for every open container: the position  *)
(* of its first token, its letter, and the position of a key that waits    *)
(* for its value (0: none).  A token is recorded with the container it is  *)
(* in and the key it is the value of.                                      *)
(***************************************************************************)
KeyExpected == Last(open).letter = "d" /\ Last(open).key = 0

MaySend(t) ==
    IF read = <<>> THEN t = "d"
    ELSE /\ open # <<>>
         /\ IF KeyExpected THEN t \in {"s", "e"}
            ELSE t = "e" => Last(open).letter = "l"

\* The message after a string, an integer or the first token of a container.
KeyPlaced(here) ==
    IF open = <<>> THEN <<>>
    ELSE [open EXCEPT ![Len(open)].key = IF KeyExpected THEN here ELSE 0]

Send(t) ==
    LET here == Len(read) + 1
    IN  /\ here <= MaxTokens
        /\ MaySend(t)
        /\ read' = Append(read, [tok |-> t,
                                 in  |-> IF open = <<>> THEN 0 ELSE Last(open).at,
                                 key |-> IF open = <<>> THEN 0 ELSE Last(open).key])
        /\ open' = IF t = "e" THEN Front(open)
                   ELSE IF t \in {"d", "l"}
                   THEN Append(KeyPlaced(here), [at |-> here, letter |-> t, key |-> 0])
                   ELSE KeyPlaced(here)

-----------------------------------------------------------------------------
(***************************************************************************)
(* ben_coding, one round of its loop per token.                            *)
(***************************************************************************)
Flip(st) == IF st = "WAIT_KEY" THEN "WAIT_VAL" ELSE "WAIT_KEY"

\* peek(s)
Peek == IF s = <<>> THEN "none" ELSE Last(s)

New(type) == [type |-> type, tok |-> Len(read) + 1, val |-> 0, next |-> 0]

\* dict.e with one element more, and the index of that one.
With(type) == Append(elem, New(type))

nBefore == Len(elem)    \* Mutant: ele_cnt is read before it is one more

n == Len(elem) + 1

\* The element x is put in front of the chain that hangs on element head.
Chained(e, head, x) ==
    [i \in 1 .. Len(e) |->
        IF i = x THEN [e[i] EXCEPT !.next = e[head].val]
        ELSE IF i = head THEN [e[i] EXCEPT !.val = x] ELSE e[i]]

ReadDictKeepsStatus ==    \* Mutant: status is not set at a d
    /\ ret = "running"
    /\ Send("d")
    /\ s' = Append(s, "d")
    /\ elem' = With("DICT")
    /\ c' = Append(c, n)
    /\ UNCHANGED <<status, ret>>

ReadDict ==
    /\ ret = "running"
    /\ Send("d")
    /\ s' = Append(s, "d")
    /\ status' = "WAIT_KEY"
    /\ elem' = With("DICT")
    /\ c' = Append(c, n)
    /\ UNCHANGED ret

ReadList ==
    /\ ret = "running"
    /\ Send("l")
    /\ s' = Append(s, "l")
    /\ elem' = With("LIST_HEAD")
    /\ c' = Append(c, n)
    /\ UNCHANGED <<status, ret>>

ReadIntKeepsKey ==    \* Mutant: the key stays on the stack
    /\ ret = "running"
    /\ Send("i")
    /\ status' = IF Peek = "d" THEN Flip(status) ELSE status
    /\ c' = c
    /\ elem' = CASE elem[Last(c)].type = "DICT_KEY" ->
                        [With("DICT_VAL") EXCEPT ![Last(c)].val = n]
                 [] elem[Last(c)].type = "LIST_HEAD" ->
                        Chained(With("DICT_VAL"), Last(c), n)
                 [] OTHER -> With("DICT_VAL")
    /\ UNCHANGED <<s, ret>>

\* process_a_int: the value of a key, or an element of a list.
ReadInt ==
    /\ ret = "running"
    /\ Send("i")
    /\ status' = IF Peek = "d" THEN Flip(status) ELSE status
    /\ c' = IF elem[Last(c)].type = "DICT_KEY" THEN Front(c) ELSE c
    /\ elem' = CASE elem[Last(c)].type = "DICT_KEY" ->
                        [With("DICT_VAL") EXCEPT ![Last(c)].val = n]
                 [] elem[Last(c)].type = "LIST_HEAD" ->
                        Chained(With("DICT_VAL"), Last(c), n)
                 [] OTHER -> With("DICT_VAL")
    /\ UNCHANGED <<s, ret>>

\* process_a_string with DICT_KEY: the key goes in front of the keys of the
\* dictionary on top of the stack, and on the stack.
ReadKey ==
    /\ ret = "running"
    /\ Peek = "d" /\ status = "WAIT_KEY"
    /\ Send("s")
    /\ status' = "WAIT_VAL"
    /\ elem' = Chained(With("DICT_KEY"), Last(c), n)
    /\ c' = Append(c, n)
    /\ UNCHANGED <<s, ret>>

\* With DICT_VAL.  When no key waits, the element is made and left alone.
ReadValue ==
    /\ ret = "running"
    /\ Peek = "d" /\ status = "WAIT_VAL"
    /\ Send("s")
    /\ status' = "WAIT_KEY"
    /\ IF elem[Last(c)].type = "DICT_KEY"
       THEN /\ elem' = [With("DICT_VAL") EXCEPT ![Last(c)].val = n]
            /\ c' = Front(c)
       ELSE elem' = With("DICT_VAL") /\ c' = c
    /\ UNCHANGED <<s, ret>>

\* With LIST_ELE.
ReadElement ==
    /\ ret = "running"
    /\ Peek = "l"
    /\ Send("s")
    /\ elem' = Chained(With("DICT_VAL"), Last(c), n)
    /\ UNCHANGED <<s, c, status, ret>>

ReadEmptyKeepsKey ==    \* Mutant: the key of an empty value stays on the stack
    /\ ret = "running"
    /\ Send("z")
    /\ status' = IF Peek = "d" THEN Flip(status) ELSE status
    /\ UNCHANGED <<s, c, elem, ret>>

\* The empty string makes no element: a key keeps val NULL, a list drops it.
ReadEmpty ==
    /\ ret = "running"
    /\ Send("z")
    /\ status' = IF Peek = "d" THEN Flip(status) ELSE status
    /\ c' = IF Peek = "d" /\ status = "WAIT_VAL" THEN Front(c) ELSE c
    /\ UNCHANGED <<s, elem, ret>>

CloseWaitsForValue(e, top) ==    \* Mutant: status is left alone when a container ends
    CASE elem[top].type = "LIST_HEAD" ->
            /\ elem' = Chained(elem, top, e)
            /\ c' = Front(c)
            /\ UNCHANGED status
      [] elem[top].type = "DICT_KEY" ->
            /\ elem' = [elem EXCEPT ![top].val = e]
            /\ c' = Front(Front(c))
            /\ UNCHANGED status
      [] OTHER ->
            /\ c' = Front(c)
            /\ UNCHANGED <<elem, status>>

\* End of a container that is not the outermost: its element e goes where the
\* top of the stack says.
Close(e, top) ==
    CASE elem[top].type = "LIST_HEAD" ->
            /\ elem' = Chained(elem, top, e)
            /\ c' = Front(c)
            /\ UNCHANGED status
      [] elem[top].type = "DICT_KEY" ->
            /\ elem' = [elem EXCEPT ![top].val = e]
            /\ c' = Front(Front(c))
            /\ status' = IF Len(s) > 1 /\ s[Len(s) - 1] = "d" THEN "WAIT_KEY" ELSE status
      [] OTHER ->
            /\ c' = Front(c)
            /\ UNCHANGED <<elem, status>>

ReadEnd ==
    /\ ret = "running"
    /\ Send("e")
    /\ IF s = <<>> \/ c = <<>>
       THEN /\ ret' = "rejected"
            /\ UNCHANGED <<s, c, status, elem>>
       ELSE /\ s' = Front(s)
            /\ IF Len(c) = 1
               THEN /\ ret' = IF Len(s) = 1 THEN "accepted" ELSE "rejected"
                    /\ c' = <<>>
                    /\ UNCHANGED <<status, elem>>
               ELSE Close(Last(c), c[Len(c) - 1]) /\ UNCHANGED ret

-----------------------------------------------------------------------------
Init ==
    /\ read = <<>>
    /\ open = <<>>
    /\ s = <<>>
    /\ c = <<>>
    /\ status \in {"WAIT_KEY", "WAIT_VAL"}   \* as the last packet left it
    /\ elem = <<>>
    /\ ret = "running"

Next == ReadDict \/ ReadList \/ ReadInt \/ ReadKey \/ ReadValue \/ ReadElement
           \/ ReadEmpty \/ ReadEnd

Spec == Init /\ [][Next]_vars

-----------------------------------------------------------------------------
(***************************************************************************)
(* Properties                                                              *)
(***************************************************************************)
Token == {"d", "l", "i", "s", "z", "e"}
Place == 0 .. Len(read)

\* Every variable stays in its type; an element comes from a token of its own,
\* so that 500 bytes never need more than 500 of the 1000 elements.
TypeOK ==
    /\ \A p \in 1 .. Len(read) : read[p] \in [tok : Token, in : Place, key : Place]
    /\ \A i \in 1 .. Len(open) : open[i] \in [at : Place, letter : {"d", "l"}, key : Place]
    /\ s \in Seq({"d", "l"})
    /\ c \in Seq(1 .. Len(elem))
    /\ status \in {"WAIT_KEY", "WAIT_VAL"}
    /\ \A i \in 1 .. Len(elem) :
          /\ elem[i] \in [type : {"DICT", "LIST_HEAD", "DICT_KEY", "DICT_VAL"}, tok : Place,
                          val : 0 .. Len(elem), next : 0 .. Len(elem)]
          /\ i < Len(elem) => elem[i].tok < elem[i + 1].tok
    /\ ret \in {"running", "accepted", "rejected"}

\* status is one variable for all dictionaries that are open.  In a dictionary
\* it still says whether a key or a value comes next, also when a container of
\* any depth has just ended.
StatusAgrees ==
    open # <<>> /\ Last(open).letter = "d" =>
        (status = "WAIT_KEY" <=> Last(open).key = 0)

\* What the stack of elements should hold for the containers open: each of
\* them, with the key that waits for a value above its dictionary, or the key
\* that the container inside is the value of.
Waiting(i) == IF open[i].key # 0 THEN open[i].key
              ELSE IF i < Len(open) THEN read[open[i + 1].at].key ELSE 0

CtxFor[i \in 0 .. Len(open)] ==
    IF i = 0 THEN <<>>
    ELSE CtxFor[i - 1] \o <<open[i].at>> \o IF Waiting(i) = 0 THEN <<>> ELSE <<Waiting(i)>>

\* The two stacks, one of letters and one of elements, are pushed and popped in
\* different branches; they always describe the same open containers.
StacksAgree ==
    /\ s = [i \in 1 .. Len(open) |-> open[i].letter]
    /\ [i \in 1 .. Len(c) |-> elem[c[i]].tok] = CtxFor[Len(open)]

\* A well-formed message is accepted with its last token, not before, and no
\* token of it is refused.
AcceptsAtEnd ==
    /\ ret # "rejected"
    /\ ret = "accepted" <=> read # <<>> /\ open = <<>>

\* The chain of elements from x on, as tokens; longer than any it would be a ring.
ChainFrom(x) ==
    LET walk[k \in 0 .. Len(elem)] == IF k = 0 THEN x
                                      ELSE IF walk[k - 1] = 0 THEN 0 ELSE elem[walk[k - 1]].next
    IN  [k \in {j \in 0 .. Len(elem) : walk[j] # 0} |-> elem[walk[k]].tok]

IsOpen(p)   == \E i \in 1 .. Len(open) : open[i].at = p
Complete(p) == read[p].tok \in {"d", "l"} => ~IsOpen(p)
IsKey(p)    == read[p].in # 0 /\ read[read[p].in].tok = "d" /\ read[p].key = 0 /\ read[p].tok = "s"

\* The k-th largest of a finite set of numbers, from 0.
Descending(S) == [k \in 0 .. Cardinality(S) - 1 |->
                     CHOOSE x \in S : Cardinality({y \in S : y > x}) = k]

\* At every token, the tree holds what has been read: a dictionary's chain its
\* keys and a list's chain its complete elements other than empty strings, the
\* last one first; a key points to its own value, once that is complete and
\* unless it is the empty string.
TreeAgrees ==
    \A i \in 1 .. Len(elem) :
        LET p == elem[i].tok
            inside == {q \in 1 .. Len(read) : read[q].in = p /\ read[q].tok # "e"}
        IN  CASE elem[i].type = "DICT" ->
                    ChainFrom(elem[i].val) = Descending({q \in inside : IsKey(q)})
              [] elem[i].type = "LIST_HEAD" ->
                    ChainFrom(elem[i].val) = Descending({q \in inside : Complete(q) /\ read[q].tok # "z"})
              [] elem[i].type = "DICT_KEY" ->
                    {q \in 1 .. Len(read) : read[q].key = p /\ Complete(q) /\ read[q].tok # "z"}
                        = IF elem[i].val = 0 THEN {} ELSE {elem[elem[i].val].tok}
              [] OTHER -> TRUE
=============================================================================
