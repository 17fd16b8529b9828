---------------------------- MODULE MCDocuments ----------------------------
(***************************************************************************)
(* One device, whose profiles.db may have any of these layouts: a profile  *)
(* of the user's own with the title of the synced one, a file without a    *)
(* newline at its end, blank lines and bytes that are not JSON; profiles   *)
(* the code refuses.  Three channels: a cycle may add one, remove one and  *)
(* leave one alone.                                                        *)
(***************************************************************************)
EXTENDS Documents, TLC

CONSTANTS d1, c1, c2, c3, p1, native, ownId

ThreeChannels == {c1, c2, c3}

Symmetry == Permutations(Channel)

Synced == <<ID(AllChannels), Name(AllChannels), Subscriptions(Slot)>>
Own    == <<Name(AllChannels), Subscriptions(Subs({}, {})), ID(ownId)>>

Plain       == <<Synced, <<>> >>
NoNewline   == <<Own, <<Subscriptions(Slot), ID(AllChannels)>> >>
BlankLines  == << <<>>, <<Torn>>, Synced, <<>>, Own, <<>>, <<>> >>
NoField     == << <<ID(AllChannels), Name(AllChannels)>>, Own, <<>> >>
TwoProfiles == <<Synced, Synced, <<>> >>
TornProfile == << <<ID(AllChannels), Torn, Subscriptions(Subs({}, {}))>>, <<>> >>
NoProfile   == <<Own, <<>> >>
Empty       == << <<>> >>

Layouts == {Plain, NoNewline, BlankLines, NoField, TwoProfiles, TornProfile,
            NoProfile, Empty}
=============================================================================
