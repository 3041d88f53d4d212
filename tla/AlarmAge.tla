------------------------------- MODULE AlarmAge -------------------------------
(***************************************************************************)
(* The age on the tile of an alarm: _calculateDuration of                  *)
(* lib/components/alarm_page/alarm_tile.dart.  It is written when the tile *)
(* is built and stays until the tile is built again, while time passes; it *)
(* is in hours for a day, then in days for a week, then in weeks.          *)
(*                                                                         *)
(* The units switch at different roundings: at more than 24 whole hours,   *)
(* and at more than 7 days after these were rounded to the nearest.        *)
(***************************************************************************)
EXTENDS Integers

CONSTANTS Behind,  \* hours by which a device may lag when an alarm is posted
          Horizon  \* bound: hours the tile lives

ASSUME AlarmAgeAssumption == Behind \in Nat /\ Horizon \in Nat

VARIABLES diff,   \* now.difference(postedDate).inHours
          shown   \* the age the last build of the tile wrote

ageVars == <<diff, shown>>

\* The value of a hours in units of n hours, rounded half up: double.round
\* of a positive quotient.
Rounded(a, n) == (2 * a + n) \div (2 * n)

\* Mutant of CalculateDuration: the quotients are truncated.
CalculateDurationTruncated(d) ==
    IF d <= 24 THEN [unit |-> 1, count |-> d]
    ELSE IF Rounded(d, 24) <= 7
         THEN [unit |-> 24, count |-> d \div 24]
         ELSE [unit |-> 168, count |-> d \div 168]

\* Mutant of CalculateDuration: days are used before a rounded day is over.
CalculateDurationEager(d) ==
    IF d <= 8 THEN [unit |-> 1, count |-> d]
    ELSE IF Rounded(d, 24) <= 7
         THEN [unit |-> 24, count |-> Rounded(d, 24)]
         ELSE [unit |-> 168, count |-> Rounded(d, 168)]

\* The age written d whole hours after the alarm was posted.
CalculateDuration(d) ==
    IF d <= 24 THEN [unit |-> 1, count |-> d]
    ELSE IF Rounded(d, 24) <= 7
         THEN [unit |-> 24, count |-> Rounded(d, 24)]
         ELSE [unit |-> 168, count |-> Rounded(d, 168)]

\* What a reader takes an age for, in hours.
Hours(age) == age.unit * age.count

Distance(i, j) == IF i < j THEN j - i ELSE i - j

-----------------------------------------------------------------------------

AgeInit ==
    /\ diff \in -Behind .. 24
    /\ shown = CalculateDuration(diff)

HourPasses ==
    /\ diff < Horizon
    /\ diff' = diff + 1
    /\ UNCHANGED shown

\* The list builds the tile again.
TileBuilt ==
    /\ shown' = CalculateDuration(diff)
    /\ UNCHANGED diff

AgeNext == HourPasses \/ TileBuilt

AgeSpec == AgeInit /\ [][AgeNext]_ageVars

-----------------------------------------------------------------------------

\* The types of the variables: an age in days or weeks is never zero.
AgeTypeOK ==
    /\ diff \in Int
    /\ shown \in [unit : {1}, count : Int]
                \cup [unit : {24, 168}, count : Nat \ {0}]

\* As time passes no build writes an age that reads younger than the one it
\* replaces, also where the unit changes.
AgeNeverShrinks == [][Hours(shown') >= Hours(shown)]_ageVars

\* What is written is at most half a unit above the age of the alarm, and it
\* was at most half a unit below it when it was written.
AgeIsNear ==
    /\ 2 * (Hours(shown) - diff) <= shown.unit
    /\ 2 * Distance(Hours(CalculateDuration(diff)), diff)
            <= CalculateDuration(diff).unit
=============================================================================
