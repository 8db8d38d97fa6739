----------------------------- MODULE MCEventLine -----------------------------
(* Instances of EventLine for TLC: records of one or two fields. *)
EXTENDS EventLine

AllFormats == {"leef", "cef", "json", "qradar"}

(* Every field that some table names, one that none does, and four with the
   name of a key of a format. *)
Named(s) ==
    MapKeys(LeefMap[s]) \cup MapKeys(CefMap[s]) \cup EpochFields[s] \cup Identifiers
        \cup ToSet(EventName[s]) \cup ToSet(PrimaryTime[s])
        \cup UNION {ToSet(QradarChoices[s][i][2]) : i \in DOMAIN QradarChoices[s]}
        \cup {"other", "cat", "src", "stream", "_stream"}

(* The names of fields and the letters of the values below. *)
AllLetters == {"a", "n", "1", "9"} \cup UNION {Named(s) : s \in Streams}

Str(t) == [kind |-> "text", text |-> t]
Plain  == Str(<<"a">>)
Number == [kind |-> "number", text |-> <<"1">>]
Hostile  == {
    Number, Str(<<"bs">>), Str(<<"bs", "n">>), Str(<<"bs", "eq">>), Str(<<"a", "pipe", "bs">>),
    Str(<<"lf", "a">>), Str(<<"cr", "tab">>), Str(<<"a", "sp", "other", "eq", "a">>),
    [kind |-> "items", text |-> <<"a", "eq", "bs", "a">>],
    [kind |-> "far", text |-> <<"9">>], [kind |-> "empty", text |-> <<>>]}

(* Any two fields together, and any two difficult values. *)
Records == [s \in Streams |->
    {(k :> Plain) @@ (l :> Plain) : k \in Named(s), l \in Named(s)}
        \cup {(k :> v) @@ ("other" :> w) : k \in Named(s), v \in Hostile, w \in Hostile}]
=============================================================================
