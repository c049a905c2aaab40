------------------------------- MODULE Datetime -------------------------------
(***************************************************************************)
(* Instants and the wall-clock readings of a `datetime-local` input        *)
(* (app-settings-js/src/datetime.ts).  Both are whole seconds: an instant  *)
(* since an epoch, a reading since the same date read as UTC.  The zone    *)
(* (Intl, external) changes its offset once; real zones do so months apart, *)
(* further than any offset reaches.                                        *)
(***************************************************************************)
EXTENDS Integers

CONSTANTS
    Change,         \* the instant at which the zone's offset changes
    Before, After   \* UTC minus wall clock, before and from the change

\* Zones change at a full minute, by full minutes.
ASSUME ZoneAssumption ==
    /\ {Change, Before, After} \subseteq Int
    /\ \A x \in {Change, Before, After} : x % 60 = 0

zoneOffset(instant) == IF instant < Change THEN Before ELSE After

\* What a clock in the zone shows.
zoneParts(instant) == instant - zoneOffset(instant)

\* The seconds are not rendered.
toDateTimeLocal(instant) == zoneParts(instant) - (zoneParts(instant) % 60)

\* The reading is taken for UTC, and corrected twice by the offset found there.
localToInstant(reading) == reading + zoneOffset(reading + zoneOffset(reading))

\* The readings the clock jumps over.
Skipped(reading) == reading + Before >= Change /\ reading + After < Change
=============================================================================
