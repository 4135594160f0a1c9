---------------------------- MODULE Markup_proofs ----------------------------
(***************************************************************************)
(* Theorems about the module Markup.                                       *)
(*                                                                         *)
(* The program keeps no stack, so the proof says what stack its flags      *)
(* stand for: the block that is open, with the text of a line on top.      *)
(* A line closes a tail of that stack, and only a tail.                    *)
(***************************************************************************)
EXTENDS Markup, SequenceTheorems, TLAPS

Elements == {"h3", "h4", "p", "li", "a", "figure", "figcaption",
             "ul", "blockquote", "pre", "code", "em"}

Block == If(in_code, <<"pre", "code">>) \o OpenMarkup
Inner == IF pc = "text" THEN Around[kind] \o If(in_emphasis, <<"em">>) ELSE <<>>

TypeInv ==
    /\ in_list \in BOOLEAN /\ in_quote \in BOOLEAN
    /\ in_code \in BOOLEAN /\ in_emphasis \in BOOLEAN
    /\ open \in Seq(Elements) /\ crossed \in BOOLEAN
    /\ pc \in {"line", "text", "end"}
    /\ pc = "text" => kind \in Kinds

FlagsInv ==
    /\ in_code => ~in_list /\ ~in_quote
    /\ ~(in_list /\ in_quote)
    /\ pc = "text" => ~in_code
    /\ pc = "text" => (in_list <=> kind = "item") /\ (in_quote <=> kind = "quote")

StackInv == ~crossed /\ open = IF pc = "end" THEN <<>> ELSE Block \o Inner

IInv == TypeInv /\ FlagsInv /\ StackInv

-----------------------------------------------------------------------------
(* Sequences. *)

LEMMA ClosingTail ==
    ASSUME NEW s \in Seq(Elements), NEW t \in Seq(Elements)
    PROVE  /\ EndsWith(s \o t, t)
           /\ SubSeq(s \o t, 1, Len(s \o t) - Len(t)) = s
<1>1. s \o t \in Seq(Elements) /\ Len(s \o t) = Len(s) + Len(t)
      /\ Len(s) \in Nat /\ Len(t) \in Nat
  OBVIOUS
<1>2. SubSeq(s \o t, Len(s) + 1, Len(s) + Len(t)) = t
  OBVIOUS
<1>3. SubSeq(s \o t, 1, Len(s)) = s
  OBVIOUS
<1> QED
  BY <1>1, <1>2, <1>3 DEF EndsWith

LEMMA Joined ==
    ASSUME NEW s \in Seq(Elements), NEW t \in Seq(Elements), NEW u \in Seq(Elements)
    PROVE  /\ s \o t \in Seq(Elements)
           /\ s \o <<>> = s /\ <<>> \o s = s
           /\ (s \o t) \o u = s \o (t \o u)
  OBVIOUS

(* What closes the tail c of the stack s \o c leaves s and what it opens. *)
LEMMA Writing ==
    ASSUME NEW s \in Seq(Elements), NEW c \in Seq(Elements), NEW o \in Seq(Elements),
           ~crossed, crossed \in BOOLEAN, open = s \o c, Write(c, o)
    PROVE  open' = s \o o /\ ~crossed' /\ crossed' \in BOOLEAN /\ open' \in Seq(Elements)
<1>1. EndsWith(open, c) /\ SubSeq(open, 1, Len(open) - Len(c)) = s
  BY ClosingTail
<1>2. open' = s \o o /\ crossed' = FALSE
  BY <1>1 DEF Write
<1> QED
  BY <1>2, Joined

LEMMA WritingAll ==
    ASSUME NEW c \in Seq(Elements), NEW o \in Seq(Elements),
           ~crossed, crossed \in BOOLEAN, open = c, Write(c, o)
    PROVE  open' = o /\ ~crossed' /\ crossed' \in BOOLEAN /\ open' \in Seq(Elements)
<1>1. <<>> \in Seq(Elements) /\ c = <<>> \o c /\ o = <<>> \o o
  OBVIOUS
<1>2. open = <<>> \o c
  BY <1>1
<1> QED
  BY <1>1, <1>2, Writing

LEMMA WritingOnly ==
    ASSUME NEW o \in Seq(Elements), open \in Seq(Elements),
           ~crossed, crossed \in BOOLEAN, Write(<<>>, o)
    PROVE  open' = open \o o /\ ~crossed' /\ crossed' \in BOOLEAN
           /\ open' \in Seq(Elements)
<1>1. <<>> \in Seq(Elements) /\ open = open \o <<>>
  OBVIOUS
<1> QED
  BY <1>1, Writing

LEMMA Parts ==
    /\ <<>> \in Seq(Elements) /\ <<"pre", "code">> \in Seq(Elements)
    /\ <<"ul">> \in Seq(Elements) /\ <<"blockquote">> \in Seq(Elements)
    /\ <<"em">> \in Seq(Elements)
    /\ \A k \in Kinds : Around[k] \in Seq(Elements)
<1>1. \A k \in Kinds : Around[k] \in Seq(Elements)
  <2> SUFFICES ASSUME NEW k \in Kinds PROVE Around[k] \in Seq(Elements)
    OBVIOUS
  <2>1. CASE k = "h3"
    <3>1. Around[k] = <<"h3">>
      BY <2>1 DEF Around
    <3> QED
      BY <3>1 DEF Elements
  <2>2. CASE k = "h4"
    <3>1. Around[k] = <<"h4">>
      BY <2>2 DEF Around
    <3> QED
      BY <3>1 DEF Elements
  <2>3. CASE k = "quote"
    <3>1. Around[k] = <<"p">>
      BY <2>3 DEF Around
    <3> QED
      BY <3>1 DEF Elements
  <2>4. CASE k = "item"
    <3>1. Around[k] = <<"li">>
      BY <2>4 DEF Around
    <3> QED
      BY <3>1 DEF Elements
  <2>5. CASE k = "link"
    <3>1. Around[k] = <<"p", "a">>
      BY <2>5 DEF Around
    <3> QED
      BY <3>1 DEF Elements
  <2>6. CASE k = "caption"
    <3>1. Around[k] = <<"figure", "figcaption">>
      BY <2>6 DEF Around
    <3> QED
      BY <3>1 DEF Elements
  <2>7. CASE k = "paragraph"
    <3>1. Around[k] = <<"p">>
      BY <2>7 DEF Around
    <3> QED
      BY <3>1 DEF Elements
  <2> QED
    BY <2>1, <2>2, <2>3, <2>4, <2>5, <2>6, <2>7 DEF Kinds
<1> QED
  BY <1>1 DEF Elements

(* The stack of the blocks has one of four forms. *)
LEMMA BlockForm ==
    ASSUME TypeInv, FlagsInv
    PROVE  /\ Block \in Seq(Elements) /\ Inner \in Seq(Elements)
           /\ ~in_code => Block = OpenMarkup
           /\ in_quote => Block = <<"blockquote">>
           /\ in_list => Block = <<"ul">>
           /\ ~in_code /\ ~in_list /\ ~in_quote => Block = <<>>
           /\ in_code => Block = <<"pre", "code">>
<1> USE Parts, Joined
<1>1. CASE in_quote
  <2>1. Block = <<>> \o (<<"blockquote">> \o <<>>) /\ OpenMarkup = <<"blockquote">> \o <<>>
    BY <1>1 DEF Block, OpenMarkup, If, TypeInv, FlagsInv
  <2> QED
    BY <2>1, <1>1 DEF TypeInv, FlagsInv, Inner, If
<1>2. CASE in_list
  <2>1. Block = <<>> \o (<<>> \o <<"ul">>) /\ OpenMarkup = <<>> \o <<"ul">>
    BY <1>2 DEF Block, OpenMarkup, If, TypeInv, FlagsInv
  <2> QED
    BY <2>1, <1>2 DEF TypeInv, FlagsInv, Inner, If
<1>3. CASE in_code
  <2>1. Block = <<"pre", "code">> \o (<<>> \o <<>>)
    BY <1>3 DEF Block, OpenMarkup, If, TypeInv, FlagsInv
  <2> QED
    BY <2>1, <1>3 DEF TypeInv, FlagsInv, Inner, If
<1>4. CASE ~in_quote /\ ~in_list /\ ~in_code
  <2>1. Block = <<>> \o (<<>> \o <<>>) /\ OpenMarkup = <<>> \o <<>>
    BY <1>4 DEF Block, OpenMarkup, If
  <2> QED
    BY <2>1, <1>4 DEF TypeInv, FlagsInv, Inner, If
<1> QED
  BY <1>1, <1>2, <1>3, <1>4 DEF TypeInv

-----------------------------------------------------------------------------
(* The steps. *)

LEMMA FenceInv ==
    ASSUME IInv, Fence
    PROVE  IInv'
<1>1. open = Block /\ Block \in Seq(Elements) /\ ~crossed /\ crossed \in BOOLEAN
  BY BlockForm, Joined DEF IInv, TypeInv, StackInv, Inner, Fence, NewLine
<1>2. Write(Block, If(~in_code, <<"pre", "code">>))
  BY DEF Fence, Block
<1>3. If(~in_code, <<"pre", "code">>) \in Seq(Elements)
  BY Parts DEF If
<1>4. open' = If(~in_code, <<"pre", "code">>) /\ ~crossed' /\ crossed' \in BOOLEAN
      /\ open' \in Seq(Elements)
  BY <1>1, <1>2, <1>3, WritingAll
<1>5. TypeInv' /\ FlagsInv'
  BY <1>4 DEF IInv, TypeInv, FlagsInv, Fence, NewLine
<1>6. Block' = If(~in_code, <<"pre", "code">>) \o (<<>> \o <<>>)
  BY DEF Fence, Block, OpenMarkup, If
<1>7. StackInv'
  BY <1>3, <1>4, <1>6, Parts, Joined DEF StackInv, Inner, Fence, NewLine
<1> QED
  BY <1>5, <1>7 DEF IInv

LEMMA BreakLineInv ==
    ASSUME IInv, BreakLine
    PROVE  IInv'
<1>1. open = OpenMarkup /\ OpenMarkup \in Seq(Elements) /\ ~crossed /\ crossed \in BOOLEAN
  BY BlockForm, Joined DEF IInv, TypeInv, StackInv, Inner, BreakLine, NewLine
<1>2. open' = <<>> /\ ~crossed' /\ crossed' \in BOOLEAN /\ open' \in Seq(Elements)
  BY <1>1, Parts, WritingAll DEF BreakLine
<1>3. TypeInv' /\ FlagsInv'
  BY <1>2 DEF IInv, TypeInv, FlagsInv, BreakLine, NewLine
<1>4. Block' = <<>> \o (<<>> \o <<>>)
  BY DEF BreakLine, Block, OpenMarkup, If
<1>5. StackInv'
  BY <1>2, <1>4, Parts, Joined DEF StackInv, Inner, BreakLine, NewLine
<1> QED
  BY <1>3, <1>5 DEF IInv

LEMMA BlockLineInv ==
    ASSUME IInv, NEW k \in Kinds \ {"quote", "item"}, BlockLine(k)
    PROVE  IInv'
<1>1. open = OpenMarkup /\ OpenMarkup \in Seq(Elements) /\ ~crossed /\ crossed \in BOOLEAN
  BY BlockForm, Joined DEF IInv, TypeInv, StackInv, Inner, BlockLine, NewLine
<1>2. open' = Around[k] /\ ~crossed' /\ crossed' \in BOOLEAN /\ open' \in Seq(Elements)
  BY <1>1, Parts, WritingAll DEF BlockLine
<1>3. TypeInv' /\ FlagsInv'
  BY <1>2 DEF IInv, TypeInv, FlagsInv, BlockLine, Text, NewLine
<1>4. Block' = <<>> \o (<<>> \o <<>>) /\ Inner' = Around[k] \o <<>>
  BY DEF BlockLine, Block, OpenMarkup, If, Inner, Text
<1>5. StackInv'
  BY <1>2, <1>4, Parts, Joined DEF StackInv, BlockLine, Text
<1> QED
  BY <1>3, <1>5 DEF IInv

LEMMA QuoteLineInv ==
    ASSUME IInv, QuoteLine
    PROVE  IInv'
<1>0. Around["quote"] = <<"p">> /\ "quote" \in Kinds
  BY DEF Around, Kinds
<1>1. open = Block /\ ~in_code /\ pc = "line" /\ ~crossed /\ crossed \in BOOLEAN
      /\ TypeInv /\ FlagsInv
  BY BlockForm, Joined DEF IInv, TypeInv, StackInv, Inner, QuoteLine, NewLine
<1>2. /\ open' = <<"blockquote">> \o Around["quote"]
      /\ ~crossed' /\ crossed' \in BOOLEAN /\ open' \in Seq(Elements)
  <2>1. CASE in_quote
    <3>1. open = <<"blockquote">> /\ Write(<<>>, Around["quote"])
      BY <1>1, <2>1, BlockForm, Parts, Joined DEF FlagsInv, QuoteLine, If
    <3> QED
      BY <3>1, <1>0, <1>1, Parts, WritingOnly
  <2>2. CASE in_list
    <3>1. open = <<"ul">> /\ Write(<<"ul">>, <<"blockquote">> \o Around["quote"])
      BY <1>1, <2>2, BlockForm, Parts, Joined DEF FlagsInv, QuoteLine, If
    <3>2. <<"blockquote">> \o Around["quote"] \in Seq(Elements)
      BY <1>0, Parts, Joined
    <3> QED
      BY <3>1, <3>2, <1>1, Parts, WritingAll
  <2>3. CASE ~in_quote /\ ~in_list
    <3>1. open = <<>> /\ Write(<<>>, <<"blockquote">> \o Around["quote"])
      BY <1>1, <2>3, BlockForm, Parts, Joined DEF FlagsInv, QuoteLine, If
    <3>2. <<"blockquote">> \o Around["quote"] \in Seq(Elements)
      BY <1>0, Parts, Joined
    <3> QED
      BY <3>1, <3>2, <1>1, Parts, WritingAll
  <2> QED
    BY <2>1, <2>2, <2>3
<1>3. TypeInv' /\ FlagsInv'
  BY <1>0, <1>1, <1>2 DEF IInv, TypeInv, FlagsInv, QuoteLine, Text, NewLine
<1>4. Block' = <<>> \o (<<"blockquote">> \o <<>>) /\ Inner' = Around["quote"] \o <<>>
  BY <1>1 DEF QuoteLine, Block, OpenMarkup, If, Inner, Text
<1>5. StackInv'
  BY <1>0, <1>2, <1>4, Parts, Joined DEF StackInv, QuoteLine, Text
<1> QED
  BY <1>3, <1>5 DEF IInv

LEMMA ItemLineInv ==
    ASSUME IInv, ItemLine
    PROVE  IInv'
<1>0. Around["item"] = <<"li">> /\ "item" \in Kinds
  BY DEF Around, Kinds
<1>1. open = Block /\ ~in_code /\ pc = "line" /\ ~crossed /\ crossed \in BOOLEAN
      /\ TypeInv /\ FlagsInv
  BY BlockForm, Joined DEF IInv, TypeInv, StackInv, Inner, ItemLine, NewLine
<1>2. /\ open' = <<"ul">> \o Around["item"]
      /\ ~crossed' /\ crossed' \in BOOLEAN /\ open' \in Seq(Elements)
  <2>1. CASE in_list
    <3>1. open = <<"ul">> /\ Write(<<>>, Around["item"])
      BY <1>1, <2>1, BlockForm, Parts, Joined DEF FlagsInv, ItemLine, If
    <3> QED
      BY <3>1, <1>0, <1>1, Parts, WritingOnly
  <2>2. CASE in_quote
    <3>1. open = <<"blockquote">> /\ Write(<<"blockquote">>, <<"ul">> \o Around["item"])
      BY <1>1, <2>2, BlockForm, Parts, Joined DEF FlagsInv, ItemLine, If
    <3>2. <<"ul">> \o Around["item"] \in Seq(Elements)
      BY <1>0, Parts, Joined
    <3> QED
      BY <3>1, <3>2, <1>1, Parts, WritingAll
  <2>3. CASE ~in_quote /\ ~in_list
    <3>1. open = <<>> /\ Write(<<>>, <<"ul">> \o Around["item"])
      BY <1>1, <2>3, BlockForm, Parts, Joined DEF FlagsInv, ItemLine, If
    <3>2. <<"ul">> \o Around["item"] \in Seq(Elements)
      BY <1>0, Parts, Joined
    <3> QED
      BY <3>1, <3>2, <1>1, Parts, WritingAll
  <2> QED
    BY <2>1, <2>2, <2>3
<1>3. TypeInv' /\ FlagsInv'
  BY <1>0, <1>1, <1>2 DEF IInv, TypeInv, FlagsInv, ItemLine, Text, NewLine
<1>4. Block' = <<>> \o (<<>> \o <<"ul">>) /\ Inner' = Around["item"] \o <<>>
  BY <1>1 DEF ItemLine, Block, OpenMarkup, If, Inner, Text
<1>5. StackInv'
  BY <1>0, <1>2, <1>4, Parts, Joined DEF StackInv, ItemLine, Text
<1> QED
  BY <1>3, <1>5 DEF IInv

LEMMA AsteriskInv ==
    ASSUME IInv, Asterisk
    PROVE  IInv'
<1>1. Block \in Seq(Elements) /\ Around[kind] \in Seq(Elements) /\ kind \in Kinds
      /\ pc = "text" /\ open = Block \o Inner
      /\ ~crossed /\ crossed \in BOOLEAN
  BY BlockForm, Parts DEF IInv, TypeInv, StackInv, Asterisk
<1>0. ASSUME NEW e \in Seq(Elements)
      PROVE  /\ Block \o Around[kind] \in Seq(Elements)
             /\ (Block \o Around[kind]) \o e = Block \o (Around[kind] \o e)
  <2> DEFINE A == Around[kind]
  <2>1. A \in Seq(Elements) /\ Block \in Seq(Elements)
    BY <1>1
  <2> HIDE DEF A
  <2>2. Block \o A \in Seq(Elements) /\ (Block \o A) \o e = Block \o (A \o e)
    BY <1>0, <2>1, Joined
  <2> QED
    BY <2>2 DEF A
<1>2. open' = Block \o (Around[kind] \o If(~in_emphasis, <<"em">>))
      /\ ~crossed' /\ crossed' \in BOOLEAN /\ open' \in Seq(Elements)
  <2>1. CASE in_emphasis
    <3> DEFINE S == Block \o Around[kind]
    <3>1. Inner = Around[kind] \o <<"em">> /\ Write(<<"em">>, <<>>)
      BY <1>1, <2>1 DEF Inner, If, Asterisk
    <3>2. S \in Seq(Elements) /\ S \o <<"em">> = Block \o (Around[kind] \o <<"em">>)
      BY <1>0, Parts
    <3>3. S \in Seq(Elements) /\ open = S \o <<"em">>
      BY <3>1, <3>2, <1>1
    <3>4. S \o <<>> = Block \o (Around[kind] \o <<>>)
      BY <1>0, Parts
    <3>5. open' = S \o <<>>
          /\ ~crossed' /\ crossed' \in BOOLEAN /\ open' \in Seq(Elements)
      <4> HIDE DEF S
      <4> QED
        BY <3>1, <3>3, <1>1, Parts, Writing
    <3> QED
      BY <3>4, <3>5, <2>1 DEF If
  <2>2. CASE ~in_emphasis
    <3>1. Inner = Around[kind] \o <<>> /\ Write(<<>>, <<"em">>)
      BY <1>1, <2>2 DEF Inner, If, Asterisk
    <3>2. open = Block \o Around[kind] /\ open \in Seq(Elements)
      BY <3>1, <1>1
    <3>3. open' = open \o <<"em">>
          /\ ~crossed' /\ crossed' \in BOOLEAN /\ open' \in Seq(Elements)
      BY <3>1, <3>2, <1>1, Parts, WritingOnly
    <3>4. (Block \o Around[kind]) \o <<"em">> = Block \o (Around[kind] \o <<"em">>)
      BY <1>0, Parts
    <3> QED
      BY <3>2, <3>3, <3>4, <2>2 DEF If
  <2> QED
    BY <2>1, <2>2
<1>3. TypeInv' /\ FlagsInv'
  BY <1>1, <1>2 DEF IInv, TypeInv, FlagsInv, Asterisk
<1>4. Block' = Block /\ Inner' = Around[kind] \o If(~in_emphasis, <<"em">>)
  BY <1>1 DEF Asterisk, Block, OpenMarkup, Inner
<1>5. StackInv'
  BY <1>1, <1>2, <1>4 DEF StackInv, Asterisk
<1> QED
  BY <1>3, <1>5 DEF IInv

LEMMA EndTextInv ==
    ASSUME IInv, EndText
    PROVE  IInv'
<1>1. Block \in Seq(Elements) /\ Inner \in Seq(Elements) /\ open = Block \o Inner
      /\ pc = "text" /\ ~crossed /\ crossed \in BOOLEAN
  BY BlockForm DEF IInv, TypeInv, StackInv, EndText
<1>2. Write(Inner, <<>>)
  BY <1>1 DEF EndText, Inner
<1>3. Block = Block \o <<>>
  BY <1>1
<1>4. open' = Block /\ ~crossed' /\ crossed' \in BOOLEAN /\ open' \in Seq(Elements)
  BY <1>1, <1>2, <1>3, Parts, Writing
<1>5. TypeInv' /\ FlagsInv'
  BY <1>4 DEF IInv, TypeInv, FlagsInv, EndText
<1>6. Block' = Block /\ Inner' = <<>>
  BY DEF EndText, Block, OpenMarkup, Inner
<1>7. StackInv'
  BY <1>1, <1>4, <1>6, Parts, Joined DEF StackInv, EndText
<1> QED
  BY <1>5, <1>7 DEF IInv

LEMMA EndBodyInv ==
    ASSUME IInv, EndBody
    PROVE  IInv'
<1>1. open = Block /\ Block \in Seq(Elements) /\ ~crossed /\ crossed \in BOOLEAN
  BY BlockForm, Joined DEF IInv, TypeInv, StackInv, Inner, EndBody
<1>2. Write(Block, <<>>)
  BY DEF EndBody, Block
<1>3. open' = <<>> /\ ~crossed' /\ crossed' \in BOOLEAN /\ open' \in Seq(Elements)
  BY <1>1, <1>2, Parts, WritingAll
<1>4. TypeInv'
  BY <1>3 DEF IInv, TypeInv, EndBody
<1>5. FlagsInv'
  BY DEF IInv, TypeInv, FlagsInv, EndBody
<1>6. StackInv'
  BY <1>3 DEF StackInv, EndBody
<1> QED
  BY <1>4, <1>5, <1>6 DEF IInv

LEMMA CodeLineInv ==
    ASSUME IInv, CodeLine \/ UNCHANGED vars
    PROVE  IInv'
<1>1. UNCHANGED <<in_list, in_quote, in_code, in_emphasis, kind, open, crossed, pc>>
  BY DEF CodeLine, NewLine, vars
<1>2. Block' = Block /\ Inner' = Inner
  BY <1>1 DEF Block, OpenMarkup, Inner
<1>3. TypeInv'
  BY <1>1 DEF IInv, TypeInv
<1>4. FlagsInv'
  BY <1>1 DEF IInv, FlagsInv
<1>5. StackInv'
  BY <1>1, <1>2 DEF IInv, StackInv
<1> QED
  BY <1>3, <1>4, <1>5 DEF IInv

-----------------------------------------------------------------------------
(* The theorem. *)

LEMMA InitInv == Init => IInv
<1> SUFFICES ASSUME Init PROVE IInv
  OBVIOUS
<1>1. Block = <<>> \o (<<>> \o <<>>) /\ Inner = <<>>
  BY DEF Init, Block, OpenMarkup, If, Inner
<1> QED
  BY <1>1, Parts, Joined, ZenonT(60) DEF Init, IInv, TypeInv, FlagsInv, StackInv

(* The open elements are at every moment those the flags stand for. *)
THEOREM FlagsAreTheStack == Spec => []IInv
<1>1. ASSUME IInv, [Next]_vars PROVE IInv'
  BY <1>1, FenceInv, BreakLineInv, BlockLineInv, QuoteLineInv, ItemLineInv, AsteriskInv,
     EndTextInv, EndBodyInv, CodeLineInv DEF Next
<1> QED
  BY <1>1, InitInv, PTL DEF Spec

(* Whatever a body says, its HTML is properly nested and closed: flags are *)
(* enough, a stack is not needed (site.c:1258-1384).                       *)
THEOREM MarkupIsWellNested == Spec => []WellNested
<1>1. IInv => WellNested
  BY DEF IInv, StackInv, WellNested
<1> QED
  BY <1>1, FlagsAreTheStack, PTL

-----------------------------------------------------------------------------
(* Where the elements stand. *)

Placed(s) ==
    \A i \in DOMAIN s : \A j \in DOMAIN s : j = i + 1 =>
        /\ s[i] = "ul" => s[j] = "li"
        /\ s[i] = "blockquote" => s[j] = "p"
        /\ s[i] # "code"
        /\ s[i] \in {"p", "li", "h3", "h4", "a", "figcaption"} => s[j] \in {"a", "em"}

(* Two short sequences, joined. *)
LEMMA JoinedPair ==
    ASSUME NEW a, NEW b
    PROVE  <<a>> \o <<b>> = <<a, b>>
<1> SUFFICES ASSUME NEW S, a \in S, b \in S PROVE <<a>> \o <<b>> = <<a, b>>
  <2>1. a \in {a, b} /\ b \in {a, b}
    OBVIOUS
  <2> QED
    BY <2>1
<1>1. <<a>> \in Seq(S) /\ <<b>> \in Seq(S) /\ <<a, b>> \in Seq(S)
  OBVIOUS
<1>2. Len(<<a>>) = 1 /\ Len(<<b>>) = 1 /\ Len(<<a, b>>) = 2
  OBVIOUS
<1> DEFINE s == <<a>> \o <<b>>
<1>3. s \in Seq(S) /\ Len(s) = 2
  BY <1>1, <1>2, ConcatProperties
<1>4. s[1] = a /\ s[2] = b
  BY <1>1, <1>2, ConcatProperties
<1>5. \A i \in 1 .. Len(s) : s[i] = <<a, b>>[i]
  BY <1>3, <1>4
<1> HIDE DEF s
<1> QED
  BY <1>1, <1>2, <1>3, <1>5, SeqEqual DEF s

LEMMA JoinedThree ==
    ASSUME NEW a, NEW b, NEW c
    PROVE  /\ <<a, b>> \o <<c>> = <<a, b, c>>
           /\ <<a>> \o <<b, c>> = <<a, b, c>>
<1> SUFFICES ASSUME NEW S, a \in S, b \in S, c \in S
             PROVE  /\ <<a, b>> \o <<c>> = <<a, b, c>>
                    /\ <<a>> \o <<b, c>> = <<a, b, c>>
  <2>1. a \in {a, b, c} /\ b \in {a, b, c} /\ c \in {a, b, c}
    OBVIOUS
  <2> QED
    BY <2>1
<1>1. /\ <<a, b>> \in Seq(S) /\ <<c>> \in Seq(S) /\ <<a>> \in Seq(S)
      /\ <<b, c>> \in Seq(S) /\ <<a, b, c>> \in Seq(S)
  OBVIOUS
<1>2. /\ Len(<<a, b>>) = 2 /\ Len(<<c>>) = 1 /\ Len(<<a>>) = 1
      /\ Len(<<b, c>>) = 2 /\ Len(<<a, b, c>>) = 3
  OBVIOUS
<1> DEFINE s == <<a, b>> \o <<c>>
           u == <<a>> \o <<b, c>>
<1>3. s \in Seq(S) /\ Len(s) = 3 /\ u \in Seq(S) /\ Len(u) = 3
  BY <1>1, <1>2, ConcatProperties
<1>4. s[1] = a /\ s[2] = b /\ s[3] = c /\ u[1] = a
  BY <1>1, <1>2, ConcatProperties
<1>5. u[2] = b /\ u[3] = c
  BY <1>1, <1>2, ConcatProperties
<1> HIDE DEF s, u
<1>6. \A i \in 1 .. Len(s) : s[i] = <<a, b, c>>[i]
  BY <1>3, <1>4
<1>7. \A i \in 1 .. Len(u) : u[i] = <<a, b, c>>[i]
  BY <1>3, <1>4, <1>5
<1>8. s = <<a, b, c>>
  BY <1>1, <1>2, <1>3, <1>6, SeqEqual
<1>9. u = <<a, b, c>>
  BY <1>1, <1>2, <1>3, <1>7, SeqEqual
<1> QED
  BY <1>8, <1>9 DEF s, u

(* The stacks that a line's text can stand on, with an emphasis and without. *)
LEMMA TextStack ==
    ASSUME IInv, pc = "text"
    PROVE  Placed(open)
<1> USE DEF Placed
<1>1. open = Block \o (Around[kind] \o If(in_emphasis, <<"em">>)) /\ ~in_code
  BY DEF IInv, StackInv, FlagsInv, Inner
<1>2. ~in_list /\ ~in_quote => Block = <<>>
  BY <1>1, BlockForm DEF IInv
<1>3. CASE kind = "h3"
  <2>1. Block = <<>> /\ Around[kind] = <<"h3">>
    BY <1>1, <1>2, <1>3 DEF IInv, FlagsInv, Around
  <2>2. CASE in_emphasis
    <3>1. <<"h3">> \o <<"em">> = <<"h3", "em">>
      BY JoinedPair
    <3>2. <<>> \o <<"h3", "em">> = <<"h3", "em">>
      OBVIOUS
    <3>3. open = <<"h3", "em">>
      BY <1>1, <2>1, <2>2, <3>1, <3>2 DEF If
    <3> QED
      BY <3>3
  <2>3. CASE ~in_emphasis
    <3>1. <<"h3">> \o <<>> = <<"h3">>
      OBVIOUS
    <3>2. <<>> \o <<"h3">> = <<"h3">>
      OBVIOUS
    <3>3. open = <<"h3">>
      BY <1>1, <2>1, <2>3, <3>1, <3>2 DEF If
    <3> QED
      BY <3>3
  <2> QED
    BY <2>2, <2>3
<1>4. CASE kind = "h4"
  <2>1. Block = <<>> /\ Around[kind] = <<"h4">>
    BY <1>1, <1>2, <1>4 DEF IInv, FlagsInv, Around
  <2>2. CASE in_emphasis
    <3>1. <<"h4">> \o <<"em">> = <<"h4", "em">>
      BY JoinedPair
    <3>2. <<>> \o <<"h4", "em">> = <<"h4", "em">>
      OBVIOUS
    <3>3. open = <<"h4", "em">>
      BY <1>1, <2>1, <2>2, <3>1, <3>2 DEF If
    <3> QED
      BY <3>3
  <2>3. CASE ~in_emphasis
    <3>1. <<"h4">> \o <<>> = <<"h4">>
      OBVIOUS
    <3>2. <<>> \o <<"h4">> = <<"h4">>
      OBVIOUS
    <3>3. open = <<"h4">>
      BY <1>1, <2>1, <2>3, <3>1, <3>2 DEF If
    <3> QED
      BY <3>3
  <2> QED
    BY <2>2, <2>3
<1>5. CASE kind = "quote"
  <2>1. Block = <<"blockquote">> /\ Around[kind] = <<"p">>
    BY <1>5, BlockForm DEF IInv, FlagsInv, Around
  <2>2. CASE in_emphasis
    <3>1. <<"p">> \o <<"em">> = <<"p", "em">>
      BY JoinedPair
    <3>2. <<"blockquote">> \o <<"p", "em">> = <<"blockquote", "p", "em">>
      BY JoinedThree
    <3>3. open = <<"blockquote", "p", "em">>
      BY <1>1, <2>1, <2>2, <3>1, <3>2 DEF If
    <3> QED
      BY <3>3
  <2>3. CASE ~in_emphasis
    <3>1. <<"p">> \o <<>> = <<"p">>
      OBVIOUS
    <3>2. <<"blockquote">> \o <<"p">> = <<"blockquote", "p">>
      BY JoinedPair
    <3>3. open = <<"blockquote", "p">>
      BY <1>1, <2>1, <2>3, <3>1, <3>2 DEF If
    <3> QED
      BY <3>3
  <2> QED
    BY <2>2, <2>3
<1>6. CASE kind = "item"
  <2>1. Block = <<"ul">> /\ Around[kind] = <<"li">>
    BY <1>6, BlockForm DEF IInv, FlagsInv, Around
  <2>2. CASE in_emphasis
    <3>1. <<"li">> \o <<"em">> = <<"li", "em">>
      BY JoinedPair
    <3>2. <<"ul">> \o <<"li", "em">> = <<"ul", "li", "em">>
      BY JoinedThree
    <3>3. open = <<"ul", "li", "em">>
      BY <1>1, <2>1, <2>2, <3>1, <3>2 DEF If
    <3> QED
      BY <3>3
  <2>3. CASE ~in_emphasis
    <3>1. <<"li">> \o <<>> = <<"li">>
      OBVIOUS
    <3>2. <<"ul">> \o <<"li">> = <<"ul", "li">>
      BY JoinedPair
    <3>3. open = <<"ul", "li">>
      BY <1>1, <2>1, <2>3, <3>1, <3>2 DEF If
    <3> QED
      BY <3>3
  <2> QED
    BY <2>2, <2>3
<1>7. CASE kind = "link"
  <2>1. Block = <<>> /\ Around[kind] = <<"p", "a">>
    BY <1>1, <1>2, <1>7 DEF IInv, FlagsInv, Around
  <2>2. CASE in_emphasis
    <3>1. <<"p", "a">> \o <<"em">> = <<"p", "a", "em">>
      BY JoinedThree
    <3>2. <<>> \o <<"p", "a", "em">> = <<"p", "a", "em">>
      OBVIOUS
    <3>3. open = <<"p", "a", "em">>
      BY <1>1, <2>1, <2>2, <3>1, <3>2 DEF If
    <3> QED
      BY <3>3
  <2>3. CASE ~in_emphasis
    <3>1. <<"p", "a">> \o <<>> = <<"p", "a">>
      OBVIOUS
    <3>2. <<>> \o <<"p", "a">> = <<"p", "a">>
      OBVIOUS
    <3>3. open = <<"p", "a">>
      BY <1>1, <2>1, <2>3, <3>1, <3>2 DEF If
    <3> QED
      BY <3>3
  <2> QED
    BY <2>2, <2>3
<1>8. CASE kind = "caption"
  <2>1. Block = <<>> /\ Around[kind] = <<"figure", "figcaption">>
    BY <1>1, <1>2, <1>8 DEF IInv, FlagsInv, Around
  <2>2. CASE in_emphasis
    <3>1. <<"figure", "figcaption">> \o <<"em">> = <<"figure", "figcaption", "em">>
      BY JoinedThree
    <3>2. <<>> \o <<"figure", "figcaption", "em">> = <<"figure", "figcaption", "em">>
      OBVIOUS
    <3>3. open = <<"figure", "figcaption", "em">>
      BY <1>1, <2>1, <2>2, <3>1, <3>2 DEF If
    <3> QED
      BY <3>3
  <2>3. CASE ~in_emphasis
    <3>1. <<"figure", "figcaption">> \o <<>> = <<"figure", "figcaption">>
      OBVIOUS
    <3>2. <<>> \o <<"figure", "figcaption">> = <<"figure", "figcaption">>
      OBVIOUS
    <3>3. open = <<"figure", "figcaption">>
      BY <1>1, <2>1, <2>3, <3>1, <3>2 DEF If
    <3> QED
      BY <3>3
  <2> QED
    BY <2>2, <2>3
<1>9. CASE kind = "paragraph"
  <2>1. Block = <<>> /\ Around[kind] = <<"p">>
    BY <1>1, <1>2, <1>9 DEF IInv, FlagsInv, Around
  <2>2. CASE in_emphasis
    <3>1. <<"p">> \o <<"em">> = <<"p", "em">>
      BY JoinedPair
    <3>2. <<>> \o <<"p", "em">> = <<"p", "em">>
      OBVIOUS
    <3>3. open = <<"p", "em">>
      BY <1>1, <2>1, <2>2, <3>1, <3>2 DEF If
    <3> QED
      BY <3>3
  <2>3. CASE ~in_emphasis
    <3>1. <<"p">> \o <<>> = <<"p">>
      OBVIOUS
    <3>2. <<>> \o <<"p">> = <<"p">>
      OBVIOUS
    <3>3. open = <<"p">>
      BY <1>1, <2>1, <2>3, <3>1, <3>2 DEF If
    <3> QED
      BY <3>3
  <2> QED
    BY <2>2, <2>3
<1> QED
  BY <1>3, <1>4, <1>5, <1>6, <1>7, <1>8, <1>9 DEF IInv, TypeInv, Kinds

(* A list holds items only, a quotation paragraphs only, code nothing, and *)
(* no block is opened inside a line's text (site.c:1258-1384).             *)
THEOREM ElementsArePlaced == Spec => []PlacedElements
<1>1. ASSUME IInv PROVE PlacedElements
  <2>1. CASE pc = "text"
    BY <1>1, <2>1, TextStack DEF Placed, PlacedElements
  <2>2. CASE pc = "line"
    <3>1. open = Block \o <<>> /\ Block \in Seq(Elements)
      BY <1>1, <2>2, BlockForm DEF IInv, StackInv, Inner
    <3>2. open = Block
      BY <3>1, Joined, Parts
    <3>3. open \in {<<>>, <<"ul">>, <<"blockquote">>, <<"pre", "code">>}
      BY <1>1, <3>2, BlockForm DEF IInv, TypeInv
    <3> QED
      BY <3>3 DEF PlacedElements
  <2>3. CASE pc = "end"
    BY <1>1, <2>3 DEF IInv, StackInv, PlacedElements
  <2> QED
    BY <1>1, <2>1, <2>2, <2>3 DEF IInv, TypeInv
<1> QED
  BY <1>1, FlagsAreTheStack, PTL
=============================================================================
