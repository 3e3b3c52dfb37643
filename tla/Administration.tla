---------------------------- MODULE Administration ----------------------------
(***************************************************************************)
(* The tables that administrators edit: teams, challenges, the rounds in   *)
(* which challenges are released, and, in the mode sshcontainer_vm, the    *)
(* services with the ports they were given.  Identifiers are numbers that  *)
(* grow; a row that others refer to cannot be deleted.                     *)
(*                                                                         *)
(* A service takes its SSH port and one port for each service it exposes   *)
(* from a base that is counted from the rows with a smaller identifier.    *)
(* Machines are those of challenges or those of teams (MACHINE_MATCH_NAME).*)
(***************************************************************************)
EXTENDS Integers, FiniteSets, FiniteSetsExt

CONSTANTS
  Matches,      \* values that SSHVM:MACHINE_MATCH_NAME may have
  FirstTeams, FirstChalls,  \* how many there are at first
  NumberRound,
  Visibilities, \* sets of rounds a challenge may be released in
  Widths,       \* values that num_service may have
  FirstRelease, FirstWidth, \* releases and numbers of services at first
  MaxRequests   \* bound: requests of administrators and teams

ASSUME AdministrationAssumption ==
  /\ Matches \subseteq {"challenge_slug", "team_name"}
  /\ FirstTeams \in Nat /\ FirstChalls \in Nat
  /\ NumberRound \in Nat \ {0} /\ Visibilities \subseteq SUBSET (1..NumberRound)
  /\ FirstRelease \subseteq (1..NumberRound) \X (1..FirstChalls)
  /\ Widths \subseteq Nat /\ FirstWidth \in Widths /\ MaxRequests \in Nat

TeamIds == 1..(FirstTeams + MaxRequests)
ChallIds == 1..(FirstChalls + MaxRequests)
Rounds == 1..NumberRound

VARIABLES
  match,      \* SSHVM:MACHINE_MATCH_NAME
  teams, challs,
  width,      \* width[c]: num_service of the challenge c, for every identifier
  release,    \* rows of challenge_release: round and challenge
  services,   \* rows of service, with base port and num_service when provisioned
  moved,      \* a row that ports were counted from was deleted or changed
  nextTeam, nextChall,
  requests    \* so far

adminVars == <<match, teams, challs, width, release, services, moved, nextTeam, nextChall, requests>>

AdminInit ==
  /\ match \in Matches
  /\ teams = 1..FirstTeams /\ challs = 1..FirstChalls
  /\ width = [c \in ChallIds |-> FirstWidth]
  /\ release = FirstRelease
  /\ services = {} /\ moved = FALSE
  /\ nextTeam = FirstTeams + 1 /\ nextChall = FirstChalls + 1
  /\ requests = 0

Request == requests < MaxRequests /\ requests' = requests + 1

\* get_challenges_from_round, and all challenges released so far.
ReleasedIn(n) == {c \in challs : <<n, c>> \in release}
ReleasedUntil(n) == {c \in challs : \E r \in release : r[1] <= n /\ r[2] = c}

-----------------------------------------------------------------------------
(* Teams and challenges. *)

CreateTeam ==
  /\ Request
  /\ teams' = teams \union {nextTeam} /\ nextTeam' = nextTeam + 1
  /\ UNCHANGED <<match, challs, width, release, services, moved, nextChall>>

\* Mutant: rows may refer to a team that is gone.
DeleteTeamAnyhow(t, referred) ==
  /\ Request
  /\ t \in teams /\ teams' = teams \ {t} /\ moved' = TRUE
  /\ UNCHANGED <<match, challs, width, release, services, nextTeam, nextChall>>
\* Rows that refer to the team make the commit fail; so do those of the contest.
DeleteTeam(t, referred) ==
  /\ Request
  /\ t \in teams \ referred /\ \A s \in services : s.team # t
  /\ teams' = teams \ {t} /\ moved' = TRUE
  /\ UNCHANGED <<match, challs, width, release, services, nextTeam, nextChall>>

\* The rows of a challenge and of its releases are committed one after the other; here
\* at once, for a crash between the two leaves what with no visibility leaves.
CreateChallenge(visibility, n) ==
  /\ Request
  /\ challs' = challs \union {nextChall} /\ nextChall' = nextChall + 1
  /\ release' = release \union (visibility \X {nextChall})
  /\ width' = [width EXCEPT ![nextChall] = n]
  /\ UNCHANGED <<match, teams, services, moved, nextTeam>>

\* Visibility replaces the releases of the challenge; num_service is what it was, or not.
PatchChallenge(c, visibility, n) ==
  /\ Request
  /\ c \in challs
  /\ release' = {r \in release : r[2] # c} \union (visibility \X {c})
  /\ width' = [width EXCEPT ![c] = n]
  /\ moved' = (moved \/ n # width[c])
  /\ UNCHANGED <<match, teams, challs, services, nextTeam, nextChall>>

DeleteChallenge(c, referred) ==
  /\ Request
  /\ c \in challs \ referred /\ \A s \in services : s.chall # c
  /\ challs' = challs \ {c} /\ moved' = TRUE
  /\ release' = {r \in release : r[2] # c}
  /\ UNCHANGED <<match, teams, width, services, nextTeam, nextChall>>

-----------------------------------------------------------------------------
(* Services. *)

\* Mutant: the SSH port is not counted.
SpanBare(c) == width[c]
\* The ports of a service: SSH, and those it exposes.
Span(c) == width[c] + 1

\* generate_port_base_number, above 40000.
Base(t, c) ==
  IF match = "challenge_slug"
  THEN Cardinality({u \in teams : u < t}) * Span(c)
  ELSE SumFunction([d \in {e \in challs : e < c} |-> Span(d)])

Machine(s) == IF match = "challenge_slug" THEN s.chall ELSE s.team

Provision(t, c) ==
  /\ Request
  /\ t \in teams /\ c \in challs
  /\ \A s \in services : s.team # t \/ s.chall # c
  /\ services' = services \union {[team |-> t, chall |-> c, base |-> Base(t, c), width |-> width[c]]}
  /\ UNCHANGED <<match, teams, challs, width, release, moved, nextTeam, nextChall>>

DeleteService(s) ==
  /\ Request
  /\ services' = services \ {s}
  /\ UNCHANGED <<match, teams, challs, width, release, moved, nextTeam, nextChall>>

Ports(s) == s.base .. (s.base + s.width)

=============================================================================
