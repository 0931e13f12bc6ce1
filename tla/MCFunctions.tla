------------------------------ MODULE MCFunctions ------------------------------
(* The inputs of the calculation tool, of the clock tool and of the MCP      *)
(* tools for TLC. An expression is built word by word, as far as its parse   *)
(* could go on.                                                              *)
EXTENDS Arithmetic, TimeResolution, TLC

CONSTANTS
    MaxWords, \* bound: words of an expression
    MaxList,  \* bound: values of a statistic
    MaxNow,   \* bound: the instant the clock tool is asked at
    Annotations, Oversized, LocalRefs, Names,   \* of MCRemoteCatalog
    MaxSchemaDepth, MaxChildren, MaxTools

MCValueOf ==
    "0" :> Fraction(0, 1) @@ "3" :> Fraction(3, 1) @@ "9" :> Fraction(9, 1)
    @@ "0.5" :> Fraction(1, 2) @@ "-2.5" :> Fraction(-5, 2) @@ "0.005" :> Fraction(1, 200)
    @@ "-0.005" :> Fraction(-1, 200) @@ "35" :> Fraction(35, 1) @@ "300" :> Fraction(300, 1)

\* A change of an hour forward at midnight, one back, and one over a whole day.
MCZoneOf ==
    [forward |-> [early |-> -1, late |-> 0, change |-> 13],
     back    |-> [early |-> 1, late |-> 0, change |-> 31],
     dateline |-> [early |-> -2, late |-> 2, change |-> 18]]

Symbols == {"+", "-", "*", "/", "(", ")", "%"}
Words   == Symbols \cup {"0", "3", "35", "."}

Blank == [operation |-> "expression", expression |-> <<>>, values |-> <<>>,
          start |-> NoTime, end |-> NoTime, unit |-> "", given |-> FALSE,
          places |-> 0, rounding |-> ""]

Statistics ==
    {[Blank EXCEPT !.operation = operation, !.values = values] :
        operation \in {"sum", "mean", "min", "max", "median"},
        values \in UNION {[1..n -> DOMAIN MCValueOf \cup {"."}] : n \in 0..MaxList}}

\* Every rounding and precision on exact values and on thirds.
Rounded ==
    {[Blank EXCEPT !.operation = "mean", !.values = values, !.given = TRUE,
                   !.places = places, !.rounding = rounding] :
        values \in UNION {[1..n -> {"0", "3", "9", "0.5", "-2.5", "0.005", "-0.005", "35"}] : n \in 1..3},
        places \in {-1, 0, 1, 2, 3},
        rounding \in Roundings \cup {"up"}}

Times ==
    {NoTime} \cup {[form |-> "date", day |-> day] : day \in 0..2}
    \cup {[form |-> "instant", second |-> second, part |-> part] : second \in 0..1, part \in 0..3}

Intervals ==
    {[Blank EXCEPT !.operation = "date_interval", !.start = start, !.end = end, !.unit = unit] :
        start \in Times, end \in Times, unit \in {"", "calendar_days", "elapsed_seconds", "overlong"}}

\* Inputs of one operation given to another.
Strays ==
    {[Blank EXCEPT !.operation = operation, !.expression = expression, !.values = values, !.end = end] :
        operation \in {"expression", "sum", "date_interval"},
        expression \in {<<>>, <<"3">>}, values \in {<<>>, <<"3">>}, end \in {NoTime, [form |-> "date", day |-> 1]}}

Asked ==
    [timezone : {"", "forward", "back", "dateline", "nowhere"},
     user : {"", "back", "nowhere"}, fallback : {"", "forward"},
     relative : {"", "today", "tomorrow", "yesterday", "next_week", "someday"}]

Nothing == [timezone |-> "", user |-> "", fallback |-> "", relative |-> ""]

VARIABLES
    input,  \* of the calculation tool
    answer, \* to it
    remote, call, catalog, verdict \* of MCRemoteCatalog

Remote == INSTANCE MCRemoteCatalog WITH MaxDepth <- MaxSchemaDepth

Init ==
    /\ \/ /\ input \in {Blank} \cup Statistics \cup Rounded \cup Intervals \cup Strays
          /\ question = Nothing
          /\ moment = 0
          /\ Remote!Idle
       \/ /\ input = Blank
          /\ question \in Asked
          /\ moment \in 0..MaxNow
          /\ Remote!Idle
       \/ /\ input = Blank
          /\ question = Nothing
          /\ moment = 0
          /\ Remote!Init
    /\ answer = CalculateConversation(input)

\* The parse consumed every word.
Open(text) == text = <<>> \/ Parse(text).at = Len(text) + 1

Extend(word) ==
    /\ input.operation = "expression"
    /\ input.values = <<>> /\ input.end = NoTime
    /\ question = Nothing /\ moment = 0
    /\ Remote!Idle
    /\ Len(input.expression) < MaxWords
    /\ Open(input.expression)
    /\ input' = [input EXCEPT !.expression = Append(@, word)]
    /\ answer' = CalculateConversation(input')
    /\ UNCHANGED <<question, moment, remote, call, catalog, verdict>>

Validate ==
    /\ input = Blank /\ question = Nothing /\ moment = 0
    /\ Remote!Validate
    /\ UNCHANGED <<input, answer, question, moment>>

Next == Validate \/ \E word \in Words : Extend(word)

MCSpec == Init /\ [][Next]_<<input, answer, question, moment, remote, call, catalog, verdict>>

\* CalculateConversation answers exactly what has a meaning within the limits,
\* with its exact value and with the decimal that the rounding asks for, and
\* DecimalParser never holds a fraction wider than its limits imply.
AnswersAreExact ==
    /\ AnswerIsExact(input, answer) /\ ShownIsNearest(answer)
    /\ OperandsStayBounded(input)

\* The catalog that is shown, and by which calls are judged, is the server's own but
\* for what annotations say, at any depth (presentCatalog): a call is sent exactly if
\* the server's schema accepts it (validateCurrentRemoteTool).
CatalogFitsRemote == Remote!CatalogFitsRemote
=============================================================================
