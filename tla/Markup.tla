-------------------------------- MODULE Markup --------------------------------
(***************************************************************************)
(* write_post_body and write_inline_markup: the body of a post or a page   *)
(* becomes HTML one line at a time, from three flags and no stack of open  *)
(* elements.  The module keeps what the program does not: the elements     *)
(* that are open in the file that is written.                              *)
(*                                                                         *)
(* A line is known by its first characters (Kinds); the text in it is a    *)
(* run of asterisks, links [label](url) and other characters, which are    *)
(* escaped.                                                                *)
(***************************************************************************)
EXTENDS Naturals, Sequences

CONSTANT MaxLines   \* bound: lines of a body

VARIABLES
    in_list, in_quote, in_code,   \* the flags of write_post_body
    in_emphasis,                  \* the flag of write_inline_markup
    kind,     \* the kind of the line whose text is written, or "none"
    open,     \* the elements that are open in the output
    crossed,  \* history: a closing tag did not fit the last opening one
    lines,    \* how many lines were read
    pc        \* "line", "text" or "end"

vars == <<in_list, in_quote, in_code, in_emphasis, kind, open, crossed, lines, pc>>

Kinds == {"h3", "h4", "quote", "item", "link", "caption", "paragraph"}

(* The elements around the text of a line, from the outside. *)
Around == [h3 |-> <<"h3">>, h4 |-> <<"h4">>, quote |-> <<"p">>, item |-> <<"li">>,
           link |-> <<"p", "a">>, caption |-> <<"figure", "figcaption">>,
           paragraph |-> <<"p">>]

Init ==
    /\ in_list = FALSE /\ in_quote = FALSE /\ in_code = FALSE /\ in_emphasis = FALSE
    /\ kind = "none" /\ open = <<>> /\ crossed = FALSE
    /\ lines = 0 /\ pc = "line"

-----------------------------------------------------------------------------
EndsWith(s, t) == Len(t) <= Len(s) /\ SubSeq(s, Len(s) - Len(t) + 1, Len(s)) = t

(* What is written: closing tags for `closing`, innermost last in it, then *)
(* opening tags.                                                           *)
Write(closing, opening) ==
    /\ crossed' = (crossed \/ ~EndsWith(open, closing))
    /\ open' = (IF EndsWith(open, closing)
                THEN SubSeq(open, 1, Len(open) - Len(closing)) ELSE open) \o opening

If(flag, s) == IF flag THEN s ELSE <<>>

(* A wrong version of OpenMarkup: a quotation is left open. *)
OpenListOnly == If(in_list, <<"ul">>)

(* What close_open_markup closes: the list first. *)
OpenMarkup == If(in_quote, <<"blockquote">>) \o If(in_list, <<"ul">>)

NewLine == pc = "line" /\ lines < MaxLines /\ lines' = lines + 1

(* ``` ends or starts a code block. *)
Fence ==
    /\ NewLine /\ in_code' = ~in_code
    /\ in_list' = FALSE /\ in_quote' = FALSE
    /\ Write(If(in_code, <<"pre", "code">>) \o OpenMarkup, If(~in_code, <<"pre", "code">>))
    /\ UNCHANGED <<in_emphasis, kind, pc>>

(* Anything else in a code block is written as it is. *)
CodeLine == NewLine /\ in_code /\ UNCHANGED <<in_list, in_quote, in_code, in_emphasis,
                                              kind, open, crossed, pc>>

(* An empty line, a link line without an address, an image without alt.    *)
BreakLine ==
    /\ NewLine /\ ~in_code
    /\ in_list' = FALSE /\ in_quote' = FALSE
    /\ Write(OpenMarkup, <<>>)
    /\ UNCHANGED <<in_code, in_emphasis, kind, pc>>

Text(k) == kind' = k /\ pc' = "text" /\ in_emphasis' = FALSE /\ UNCHANGED in_code

(* A heading, a link, a picture with a caption, a paragraph. *)
BlockLine(k) ==
    /\ NewLine /\ ~in_code
    /\ in_list' = FALSE /\ in_quote' = FALSE
    /\ Write(OpenMarkup, Around[k])
    /\ Text(k)

(* A wrong version of QuoteLine: a list that is open stays open. *)
QuoteLineInList ==
    /\ NewLine /\ ~in_code
    /\ UNCHANGED in_list /\ in_quote' = TRUE
    /\ Write(<<>>, If(~in_quote, <<"blockquote">>) \o Around["quote"])
    /\ Text("quote")

QuoteLine ==
    /\ NewLine /\ ~in_code
    /\ in_list' = FALSE /\ in_quote' = TRUE
    /\ Write(If(in_list, <<"ul">>), If(~in_quote, <<"blockquote">>) \o Around["quote"])
    /\ Text("quote")

ItemLine ==
    /\ NewLine /\ ~in_code
    /\ in_quote' = FALSE /\ in_list' = TRUE
    /\ Write(If(in_quote, <<"blockquote">>), If(~in_list, <<"ul">>) \o Around["item"])
    /\ Text("item")

(* In the text of a line.  A link is written whole: its label is escaped   *)
(* and not looked into.                                                    *)
Asterisk ==
    /\ pc = "text" /\ in_emphasis' = ~in_emphasis
    /\ Write(If(in_emphasis, <<"em">>), If(~in_emphasis, <<"em">>))
    /\ UNCHANGED <<in_list, in_quote, in_code, kind, lines, pc>>

(* A wrong version of EndText: nothing closes an emphasis at its end. *)
EndTextInEmphasis ==
    /\ pc = "text" /\ pc' = "line" /\ kind' = "none" /\ in_emphasis' = FALSE
    /\ Write(Around[kind], <<>>)
    /\ UNCHANGED <<in_list, in_quote, in_code, lines>>

EndText ==
    /\ pc = "text" /\ pc' = "line" /\ kind' = "none" /\ in_emphasis' = FALSE
    /\ Write(Around[kind] \o If(in_emphasis, <<"em">>), <<>>)
    /\ UNCHANGED <<in_list, in_quote, in_code, lines>>

EndBody ==
    /\ pc = "line" /\ pc' = "end"
    /\ in_list' = FALSE /\ in_quote' = FALSE
    /\ Write(If(in_code, <<"pre", "code">>) \o OpenMarkup, <<>>)
    /\ UNCHANGED <<in_code, in_emphasis, kind, lines>>

Next ==
    \/ Fence \/ CodeLine \/ BreakLine \/ QuoteLine \/ ItemLine
    \/ \E k \in Kinds \ {"quote", "item"} : BlockLine(k)
    \/ Asterisk \/ EndText \/ EndBody

Spec == Init /\ [][Next]_vars

-----------------------------------------------------------------------------
(* Properties. *)

(* Whatever a body says, and wherever it stops, the page around it is not  *)
(* torn: every closing tag closes the element that was opened last, and at *)
(* the end of the body nothing is open (site.c:1258-1384).                 *)
WellNested == ~crossed /\ (pc = "end" => open = <<>>)

(* A list holds nothing but items, a quotation nothing but paragraphs, and *)
(* code no element at all; no block is opened inside a line's text.        *)
PlacedElements ==
    \A i \in DOMAIN open : \A j \in DOMAIN open : j = i + 1 =>
        /\ open[i] = "ul" => open[j] = "li"
        /\ open[i] = "blockquote" => open[j] = "p"
        /\ open[i] # "code"
        /\ open[i] \in {"p", "li", "h3", "h4", "a", "figcaption"} => open[j] \in {"a", "em"}
=============================================================================
