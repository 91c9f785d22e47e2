---------------------------- MODULE SlotCalendar ----------------------------
(***************************************************************************)
(* What the booking engine promises, without saying how: a calendar of     *)
(* holds.  A hold gives a person, and possibly a resource, to one booking  *)
(* for a half-open window of time.  A booking owns at most one hold, and   *)
(* no two holds that share the person or the resource ever overlap.        *)
(***************************************************************************)
EXTENDS Integers

CONSTANTS
    Bookings,     \* identities a hold can belong to
    Places,       \* records [staff, resource] a hold can take
    NoResource,   \* the resource of a place that needs none
    Windows       \* half-open windows [from, until) a hold can cover

VARIABLE holds

Hold == [id : Bookings, place : Places, busy : Windows]

\* Two places compete when they share the person or a resource.
SharePlace(p, q) ==
    \/ p.staff = q.staff
    \/ p.resource # NoResource /\ p.resource = q.resource

OverlapInTime(v, w) == v.from < w.until /\ w.from < v.until

Clash(h, k) == SharePlace(h.place, k.place) /\ OverlapInTime(h.busy, k.busy)

HoldsOfOthers(b) == {h \in holds : h.id # b}

Init == holds = {}

\* Give booking h.id a window: its first one, or another in place of the old.
Take(h) ==
    /\ \A k \in HoldsOfOthers(h.id) : ~Clash(h, k)
    /\ holds' = HoldsOfOthers(h.id) \cup {h}

\* Booking b gives its window back.
Release(b) == holds' = HoldsOfOthers(b)

Next == (\E h \in Hold : Take(h)) \/ (\E b \in Bookings : Release(b))

Spec == Init /\ [][Next]_holds

\* No two bookings ever hold the same person or resource at the same moment.
NoClash == \A h, k \in holds : h.id # k.id => ~Clash(h, k)
=============================================================================
