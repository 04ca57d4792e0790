----------------------- MODULE MCNotificationCreation -----------------------
(***************************************************************************)
(* An instance of NotificationCreation for TLC, and Render on every short  *)
(* text.                                                                   *)
(***************************************************************************)
EXTENDS NotificationCreation

CONSTANTS t1, t2, m1, m2, k1

A == <<"a">>

B == <<"b">>

\* Two placeholders in a row; one twice, and a single brace between.
Plain == Placeholder(A) \o Placeholder(B)

Loose == Placeholder(B) \o <<Close>> \o Placeholder(B)

Texts == {Plain, Loose}

\* The table holds one template; a second one may be created beside it.
OneTemplate == {t1 :> [name |-> m1, text |-> Plain, deleted |-> FALSE]}

FromContent == [valid |-> TRUE, template |-> NoTemplate, content |-> A, variables |-> <<>>]

FromTemplate(t, variables) ==
    [valid |-> TRUE, template |-> t, content |-> <<>>, variables |-> variables]

Variables == {A, B, A \o B}

Values == {A \o A, B \o A, B}

Ada == A :> A \o A @@ B :> B \o A

Bob == A :> B

\* With the key: rendered, direct, too long.  Without: a batch, a batch with
\* an item that has both a content and a template, and one that is too big.
Inputs ==
    {[key |-> k1, items |-> <<item>>] :
        item \in {FromTemplate(t1, Ada), FromContent,
                  [FromContent EXCEPT !.content = A \o B]}}
    \cup
    {[key |-> NoKey, items |-> items] :
        items \in {<<FromTemplate(t1, Ada), FromTemplate(t2, Bob)>>,
                   <<FromContent, [FromContent EXCEPT !.template = t1]>>,
                   <<FromContent, FromContent, FromContent>>}}

AnyOrder == Permutations(Editor) \cup Permutations(Request)

-----------------------------------------------------------------------------
Fragment == {<<Open, Open>>, <<Close, Close>>, <<Open>>, <<Close>>, A, B}

ShortText == {FlattenSeq(s) : s \in UNION {[1 .. n -> Fragment] : n \in 0 .. 5}}

ShortValue == {<<>>, A, B}

ShortVariables ==
    UNION {[K -> ShortValue] : K \in {J \in SUBSET Variable : Cardinality(J) <= 2}}

\* Render makes of an unambiguous text what one substitution of all variables
\* at once makes of it, in whatever order the map is walked.
ASSUME RenderingsAgree ==
    \A text \in ShortText, variables \in ShortVariables :
        Unambiguous(text, variables) =>
            Renderings(text, variables) = {Substituted(text, variables)}

\* It takes no braces in keys and values to make the order count: the value
\* of one key completes the placeholder of another.
ASSUME RenderingsDiffer ==
    LET text == <<Open, Open>> \o A \o Placeholder(B) \o B \o <<Close, Close>>
    IN  Renderings(text, B :> <<>> @@ A \o B :> A) = {A, Placeholder(A \o B)}

=============================================================================
