--------------------------- MODULE RoleAssignment ---------------------------
(***************************************************************************)
(* How the roles of a match are dealt (gamecore/roles/assignment.go): a    *)
(* template for the number of players is picked and shuffled, and the      *)
(* players, in the order of their IDs, take the profiles one by one.       *)
(*                                                                         *)
(* The generator is seeded by the match and its players; here every draw   *)
(* is possible.  A profile is its role: faction and alignment follow from  *)
(* it once a deputy of evil alignment is told from the others ("corrupt"). *)
(***************************************************************************)
EXTENDS Integers, Sequences, SequencesExt, FiniteSets

CONSTANTS
    Casts    \* bound: the players of a match, in the order of their IDs

ASSUME CastsAssumption ==
    \A c \in Casts : c \in Seq(ToSet(c)) /\ IsInjective(c) /\ Len(c) > 0

VARIABLES
    cast,      \* ordered: the players of this match
    profiles,  \* selected: the profiles, shuffled down to idx
    idx

dealing == <<cast, profiles, idx>>

Prisoners == {"leader", "member", "snitch", "neutral"}

Authority == {"warden", "deputy", "corrupt"}

Repeat(role, n) == [i \in 1 .. n |-> role]

Template(good, evil, members, snitches, neutrals) ==
    <<"warden">> \o Repeat("deputy", good) \o Repeat("corrupt", evil)
        \o <<"leader">> \o Repeat("member", members)
        \o Repeat("snitch", snitches) \o Repeat("neutral", neutrals)

\* roleTemplatesByCount, six to nine players.
SmallTemplates ==
    << {Template(1, 0, 2, 1, 0), Template(1, 0, 1, 0, 2), Template(0, 1, 1, 1, 1)},
       {Template(2, 0, 2, 0, 1), Template(1, 1, 1, 1, 1)},
       {Template(2, 0, 3, 0, 1), Template(1, 1, 2, 1, 1)},
       {Template(2, 0, 3, 0, 2), Template(1, 1, 2, 1, 2)} >>

\* roleTemplatesByCount, ten to twelve players.
LargeTemplates ==
    << {Template(2, 1, 3, 1, 1), Template(3, 0, 4, 0, 1), Template(1, 2, 1, 2, 2)},
       {Template(2, 1, 4, 1, 1), Template(3, 0, 5, 0, 1), Template(1, 2, 2, 2, 2)},
       {Template(2, 2, 3, 2, 1), Template(4, 0, 6, 0, 0), Template(2, 2, 2, 2, 2)} >>

\* Any other number of players: the first of warden, deputy and leader, then neutrals.
Fallback(n) ==
    [i \in 1 .. n |-> IF i <= 3 THEN <<"warden", "deputy", "leader">>[i] ELSE "neutral"]

profilesForCount(n) ==
    IF n \in 6 .. 12 THEN (SmallTemplates \o LargeTemplates)[n - 5] ELSE {Fallback(n)}

\* Every template has as many profiles as there are players, and one warden and one leader.
ASSUME TemplatesAssumption ==
    \A n \in 3 .. 14 : \A t \in profilesForCount(n) :
        /\ Len(t) = n
        /\ \A role \in {"warden", "leader"} : \E i \in 1 .. n : \A j \in 1 .. n :
              t[j] = role <=> i = j

DealInit ==
    /\ cast \in Casts
    /\ profiles \in profilesForCount(Len(cast))
    /\ idx = Len(cast)

Dealt == idx <= 1

\* Seeded fault: the profile drawn is copied, not swapped.
shuffleRoleProfiles_Copy ==
    /\ ~Dealt
    /\ \E j \in 1 .. idx : profiles' = [profiles EXCEPT ![idx] = profiles[j]]
    /\ idx' = idx - 1
    /\ UNCHANGED cast

\* One turn of its loop.
shuffleRoleProfiles ==
    /\ ~Dealt
    /\ \E swapIdx \in 1 .. idx :
          profiles' = [profiles EXCEPT ![idx] = profiles[swapIdx], ![swapIdx] = profiles[idx]]
    /\ idx' = idx - 1
    /\ UNCHANGED cast

\* Assign: the role each player ends up with.
RoleOf(p) == profiles[CHOOSE i \in 1 .. Len(cast) : cast[i] = p]

-----------------------------------------------------------------------------
(* Properties *)

PlacesOf(selected, role) == {i \in DOMAIN selected : selected[i] = role}

\* The shuffle loses and doubles no profile: at every point of it the players
\* together hold a template for their number, so a match starts with one warden
\* and one gang leader (assignment.go, shuffleRoleProfiles and Assign).
CastComplete ==
    cast # <<>> => \E t \in profilesForCount(Len(cast)) : \A role \in Prisoners \cup Authority :
        Cardinality(PlacesOf(profiles, role)) = Cardinality(PlacesOf(t, role))

=============================================================================
