--------------------------- MODULE TemplateRender ---------------------------
(***************************************************************************)
(* Render of the template service: each variable in turn replaces its      *)
(* placeholder {{key}} wherever it stands in the text so far.  The turns   *)
(* follow Go's order of a map, which is any order.                         *)
(*                                                                         *)
(* A text is a sequence of symbols, single braces among them.  Keys and    *)
(* values are texts, any texts: a placeholder is whatever spells it, also  *)
(* where an earlier turn has put it together.                              *)
(***************************************************************************)
EXTENDS SequencesExt

CONSTANTS
    Symbol,      \* what texts are made of
    Open, Close  \* the braces

ASSUME BraceAssumption == Open \in Symbol /\ Close \in Symbol /\ Open # Close

\* fmt.Sprintf("{{%s}}", key)
Placeholder(key) == <<Open, Open>> \o key \o <<Close, Close>>

Occurs(text, i, key) ==
    /\ i + Len(key) + 3 <= Len(text)
    /\ SubSeq(text, i, i + Len(key) + 3) = Placeholder(key)

\* The keys whose placeholders begin at i.
KeysAt(text, i, keys) == {key \in keys : Occurs(text, i, key)}

\* One scan from left to right that replaces what it meets; it does not look
\* at what it has put in.
Substituted(text, variables) ==
    LET from[i \in 1 .. Len(text) + 1] ==
            LET met == KeysAt(text, i, DOMAIN variables)
                key == CHOOSE k \in met : TRUE
            IN  IF i > Len(text) THEN <<>>
                ELSE IF met # {}
                THEN variables[key] \o from[i + Len(key) + 4]
                ELSE <<text[i]>> \o from[i + 1]
    IN  from[1]

\* strings.ReplaceAll of one placeholder.
Replaced(text, key, value) == Substituted(text, [k \in {key} |-> value])

\* Every text Render may return: one scan per variable, in any order.
Renderings(text, variables) ==
    {FoldLeft(LAMBDA done, key : Replaced(done, key, variables[key]), text, order) :
        order \in SetToSeqs(DOMAIN variables)}

Brace == {Open, Close}

Twice(text, i, brace) ==
    i \in 1 .. Len(text) - 1 /\ text[i] = brace /\ text[i + 1] = brace

\* No braces in the keys and in the values, and between two "{{" of the text a
\* "}}": otherwise a replacement can make up a placeholder that was not there,
\* or take apart one that was.
Unambiguous(text, variables) ==
    /\ \A key \in DOMAIN variables :
          (ToSet(key) \cup ToSet(variables[key])) \cap Brace = {}
    /\ \A i, p \in 1 .. Len(text) :
          i < p /\ Twice(text, i, Open) /\ Twice(text, p, Open) =>
              \E j \in i + 2 .. p - 2 : Twice(text, j, Close)

=============================================================================
