---------------------------- MODULE TimeResolution ----------------------------
(***************************************************************************)
(* The clock tool (timeutil/time.go): which zone is used, and which date a *)
(* relative date names. Time is counted in parts of a day, Units of them;  *)
(* a zone has one change of its offset, at an instant. Go's time package   *)
(* is external: LoadLocation and Time.AddDate are modelled by what their   *)
(* documentation promises, which leaves open what becomes of a wall time   *)
(* that a change skips or repeats.                                         *)
(*                                                                         *)
(* An operator Bug_X is the definition X with a plausible bug in it.       *)
(***************************************************************************)
EXTENDS Integers

CONSTANTS
    Units,   \* parts of a day
    ZoneOf,  \* name of a zone -> [early, late, change]: its offsets and their change
    Unknown  \* the name of a zone that cannot be loaded

VARIABLES
    question, \* of a call to the clock tool
    moment    \* when it is made

\* No zone has ever moved its clocks by more than a day.
Zones ==
    {zone \in [early : Int, late : Int, change : Int] :
        zone.late - zone.early \in -Units..Units}

ASSUME ZonesAssumption ==
    /\ Units \in Nat \ {0}
    /\ \A name \in DOMAIN ZoneOf : ZoneOf[name] \in Zones
    /\ Unknown \notin DOMAIN ZoneOf

UTC == [early |-> 0, late |-> 0, change |-> 0]

Wall(zone, t) == t + (IF t < zone.change THEN zone.early ELSE zone.late)

DayOf(wall) == wall \div Units

\* 0 is a Sunday.
Weekday(day) == day % 7

\* time.Date: an instant that shows this wall time; if none does, one that is
\* right by the offset on either side of the change.
Instants(zone, wall) ==
    LET either == {wall - zone.early, wall - zone.late}
        exact  == {t \in either : Wall(zone, t) = wall}
    IN IF exact # {} THEN exact ELSE either

AddDate(zone, t, days) == Instants(zone, Wall(zone, t) + days * Units)

-----------------------------------------------------------------------------

\* The zone that is used and where its name came from. A profile zone that
\* cannot be loaded is refused even if the call names another zone.
Named(in) ==
    CASE in.timezone # "" -> [zone |-> in.timezone, source |-> "requested"]
      [] in.timezone = "" /\ in.user # "" -> [zone |-> in.user, source |-> "user_profile"]
      [] OTHER -> [zone |-> in.fallback, source |-> "host_default"]

Loads(name) == name \in DOMAIN ZoneOf \cup {""}

Location(name) == IF name = "" THEN UTC ELSE ZoneOf[name]

Bug_Days(relative, day) ==
    CASE relative = "today"     -> 0
      [] relative = "tomorrow"  -> 1
      [] relative = "yesterday" -> -1
      [] relative = "next_week" -> 8 - Weekday(day)
Days(relative, day) ==
    CASE relative = "today"     -> 0
      [] relative = "tomorrow"  -> 1
      [] relative = "yesterday" -> -1
      [] relative = "next_week" -> IF Weekday(day) = 0 THEN 1 ELSE 8 - Weekday(day)

Relatives == {"today", "tomorrow", "yesterday", "next_week"}

\* What a call names, what the profile of its user names, and the host's zone.
Questions ==
    [timezone : DOMAIN ZoneOf \cup {"", Unknown}, user : DOMAIN ZoneOf \cup {"", Unknown},
     fallback : DOMAIN ZoneOf \cup {""}, relative : STRING]

\* All answers that Resolve may give at an instant.
Resolve(in, now) ==
    LET named == Named(in)
        zone  == Location(named.zone)
        day   == DayOf(Wall(zone, now))
        Answer(resolved) ==
            [ok |-> TRUE, timezone |-> named.zone, source |-> named.source,
             wall |-> Wall(zone, now), date |-> day, weekday |-> Weekday(day),
             resolved |-> resolved]
    IN IF ~Loads(in.user) \/ ~Loads(in.timezone) \/ in.relative \notin Relatives \cup {""}
       THEN {[ok |-> FALSE]}
       ELSE IF in.relative = ""
            THEN {Answer({})}
            ELSE {Answer({DayOf(Wall(zone, t))}) :
                     t \in AddDate(zone, now, Days(in.relative, day))}

-----------------------------------------------------------------------------

\* The date that is meant: next week begins on the first Monday after today.
Meant(relative, day) ==
    CASE relative = "yesterday" -> day - 1
      [] relative = "today"     -> day
      [] relative = "tomorrow"  -> day + 1
      [] relative = "next_week" ->
            CHOOSE d \in day + 1..day + 7 : Weekday(d) = 1

\* No instant shows this wall time.
Skipped(zone, wall) == \A t \in {wall - zone.early, wall - zone.late} : Wall(zone, t) # wall

\* Resolve: the resolved date is the one that is meant in the zone that is
\* named in the answer, across every change of its offset. The one exception is
\* a wall time that the change skips on that date: then the date may be the
\* neighbouring one and no other.
ResolvedIsMeant(in, now) ==
    \A answer \in Resolve(in, now) :
        LET zone  == Location(answer.timezone)
            meant == Meant(in.relative, answer.date)
            wall  == answer.wall + (meant - answer.date) * Units
        IN answer.ok /\ in.relative # "" =>
              \A date \in answer.resolved :
                 \/ date = meant
                 \/ Skipped(zone, wall) /\ date \in {meant - 1, meant + 1}

\* Resolve names the date that is meant, across changes of a zone's offset.
DatesAreMeant == ResolvedIsMeant(question, moment)
=============================================================================
