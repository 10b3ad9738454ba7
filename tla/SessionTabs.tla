---------------------------- MODULE SessionTabs ----------------------------
(* The signed-in tabs of one browser: they share one localStorage record    *)
(* (frontend/app/src/lib/session.ts), each keeps its own seat and its own   *)
(* renewer (lib/renewal.ts), and all of them spend the same rotating        *)
(* refresh token at the identity provider.                                  *)
EXTENDS Naturals, FiniteSets

CONSTANTS Tabs, Accounts, Nobody,
          MaxFamilies,   \* bound: sign-ins of the whole history
          MaxGen,        \* bound: renewals of one sign-in
          Renewing,      \* bound: the sign-ins that live long enough to renew
          Callers        \* bound: the tabs whose workspace requests may be refused

ASSUME TabsAssumption ==
  /\ Nobody \notin Accounts
  /\ MaxFamilies \in Nat
  /\ MaxGen \in Nat
  /\ Callers \subseteq Tabs
  /\ Renewing \subseteq 1..MaxFamilies

VARIABLES
  stored,   \* localStorage['invoice-os.session']: a token or NoToken
  seat,     \* tab -> the session it shows, or NoToken
  phase,    \* tab -> where the shell is
  asked,    \* tab -> the account its hand-off code is of, or Nobody
  flight,   \* tab -> the renewal it waits for, or NoFlight
  api,      \* tab -> the workspace request it waits for, or NoApi
  fams,     \* identity provider: the sign-ins
  wire,     \* refresh requests under way whose answer nobody waits for
  outs,     \* sign-out requests under way, by refresh token
  due,      \* tokens past 80 % of their lifetime
  dead      \* tokens past their lifetime

shell == <<seat, phase, asked, flight, api>>
server == <<fams, wire, outs>>
clock == <<due, dead>>
vars == <<stored, seat, phase, asked, flight, api, fams, wire, outs, due, dead>>

Families == 1..MaxFamilies
Gens == 0..MaxGen
Token == [fam : Families, gen : Gens]
NoToken == [fam |-> 0, gen |-> 0]
MaybeToken == Token \cup {NoToken}

(* sent: the refresh token presented.  "refused" is a 400 or 401, and an    *)
(* answer for another tenant.  A flight belongs to the seat it began from:  *)
(* when the seat changes, it becomes a stray request of "wire".             *)
Flight == [sent : MaybeToken, got : MaybeToken,
           answer : {"none", "out", "granted", "refused", "lost"}]
NoFlight == [sent |-> NoToken, got |-> NoToken, answer |-> "none"]

Api == [seat : MaybeToken, answer : {"none", "out", "401"}]
NoApi == [seat |-> NoToken, answer |-> "none"]

(* A sign-in is one token family: the account, its newest token, its state. *)
NoFamily == [user |-> Nobody, active |-> 0, state |-> "unborn"]

Owner(r) == IF r = NoToken THEN Nobody ELSE fams[r.fam].user

Init == /\ stored = NoToken
        /\ seat = [t \in Tabs |-> NoToken]
        /\ phase = [t \in Tabs |-> "away"]
        /\ asked = [t \in Tabs |-> Nobody]
        /\ flight = [t \in Tabs |-> NoFlight]
        /\ api = [t \in Tabs |-> NoApi]
        /\ fams = [f \in Families |-> NoFamily]
        /\ wire = {} /\ outs = {}
        /\ due = {} /\ dead = {}

-----------------------------------------------------------------------------
(* The tab. *)

(* A plausible bug, for the mutant. *)
SameSubject_Any(a, b) == a # NoToken

SameSubject(a, b) == a # NoToken /\ Owner(a) = Owner(b)
IsDue(r) == r \in due

(* The effect that mirrors the seat to storage: a seat is written, an ended *)
(* one wipes the record unless storage belongs to another tab's sign-in.    *)
Mirrored(s, keep) == IF s # NoToken THEN s ELSE IF keep THEN stored ELSE NoToken

(* The tracked session changed: the answer under way will be discarded, the *)
(* request itself is not called back.                                       *)
Untracked(t) == IF flight[t].answer = "out" THEN wire \cup {flight[t].sent} ELSE wire

(* The tab shows no session any more and leaves for the landing page. *)
Left(t, keep) ==
  /\ seat' = [seat EXCEPT ![t] = NoToken]
  /\ phase' = [phase EXCEPT ![t] = "away"]
  /\ flight' = [flight EXCEPT ![t] = NoFlight]
  /\ api' = [api EXCEPT ![t] = NoApi]
  /\ wire' = Untracked(t)
  /\ stored' = Mirrored(NoToken, keep)
  /\ UNCHANGED asked

(* A tab opens without a code: the stored record, if any, is its seat, and  *)
(* a due one renews behind the splash.                                      *)
Boot(t) ==
  /\ phase[t] = "away" /\ stored # NoToken
  /\ seat' = [seat EXCEPT ![t] = stored]
  /\ phase' = [phase EXCEPT ![t] = IF IsDue(stored) THEN "splash" ELSE "on"]
  /\ stored' = Mirrored(stored, FALSE)
  /\ UNCHANGED <<asked, flight, api, server, clock>>

(* A live stored session wins over a hand-off code, unless an invite is held. *)
LiveWins(invited) == stored # NoToken /\ stored \notin dead /\ ~invited

(* A tab comes back from the landing page with a code of account u.  Unless *)
(* it overrides a live session, the record is wiped at once.                *)
BootWithCode(t, u, invited) ==
  /\ phase[t] = "away"
  /\ ~LiveWins(invited)
  /\ phase' = [phase EXCEPT ![t] = "redeeming"]
  /\ asked' = [asked EXCEPT ![t] = u]
  /\ stored' = Mirrored(NoToken, stored # NoToken /\ stored \notin dead)
  /\ UNCHANGED <<seat, flight, api, server, clock>>

NextFamily(f) == /\ fams[f].state = "unborn"
                 /\ \A g \in 1..(f - 1) : fams[g].state # "unborn"

(* The exchange answers with a new sign-in of that account. *)
Redeemed(t) ==
  /\ phase[t] = "redeeming"
  /\ \E f \in Families :
       /\ NextFamily(f)
       /\ fams' = [fams EXCEPT ![f] = [user |-> asked[t], active |-> 0, state |-> "live"]]
       /\ seat' = [seat EXCEPT ![t] = [fam |-> f, gen |-> 0]]
       /\ stored' = Mirrored([fam |-> f, gen |-> 0], FALSE)
  /\ phase' = [phase EXCEPT ![t] = "on"]
  /\ asked' = [asked EXCEPT ![t] = Nobody]
  /\ UNCHANGED <<flight, api, wire, outs, clock>>

(* The redemption fails: the page leaves; nothing is mirrored again. *)
RedeemFails(t) ==
  /\ phase[t] = "redeeming"
  /\ phase' = [phase EXCEPT ![t] = "away"]
  /\ asked' = [asked EXCEPT ![t] = Nobody]
  /\ UNCHANGED <<stored, seat, flight, api, server, clock>>

Showing(t) == phase[t] \in {"splash", "on"}
(* A plausible bug, for the mutant. *)
Opened_Later(t) == phase[t]

Opened(t) == IF phase[t] = "splash" THEN "on" ELSE phase[t]

(* A request needs a fresh token and the seat is due: renew() begins. *)
RenewDue(t) == Showing(t) /\ IsDue(seat[t]) /\ flight[t] = NoFlight

RenewEnds(t) ==
  /\ RenewDue(t) /\ ~SameSubject(stored, seat[t])
  /\ Left(t, TRUE)
  /\ UNCHANGED <<fams, outs, clock>>

(* Another tab renewed already: its session is adopted without a request. *)
RenewAdopts(t) ==
  /\ RenewDue(t) /\ SameSubject(stored, seat[t])
  /\ stored # seat[t] /\ ~IsDue(stored)
  /\ seat' = [seat EXCEPT ![t] = stored]
  /\ phase' = [phase EXCEPT ![t] = Opened(t)]
  /\ UNCHANGED <<asked, stored, flight, api, server, clock>>

(* A plausible bug, for the mutant. *)
Presented_Own(t) == seat[t]

(* The stored refresh token is presented, not the seat's. *)
Presented(t) == stored

RenewSends(t) ==
  /\ RenewDue(t) /\ SameSubject(stored, seat[t])
  /\ stored = seat[t] \/ IsDue(stored)
  /\ flight' = [flight EXCEPT ![t] =
        [sent |-> Presented(t), got |-> NoToken, answer |-> "out"]]
  /\ UNCHANGED <<asked, stored, seat, phase, api, server, clock>>

AnswerIn(t) == flight[t].answer \in {"granted", "refused", "lost"}

(* A plausible bug, for the mutant. *)
StorageMoved_Unchecked(t) == FALSE

(* Another tab signed out or in while the request was out. *)
StorageMoved(t) == ~SameSubject(stored, seat[t])

Renewed(t) ==
  /\ AnswerIn(t) /\ ~StorageMoved(t) /\ flight[t].answer = "granted"
  /\ seat' = [seat EXCEPT ![t] = flight[t].got]
  /\ stored' = flight[t].got
  /\ phase' = [phase EXCEPT ![t] = Opened(t)]
  /\ flight' = [flight EXCEPT ![t] = NoFlight]
  /\ UNCHANGED <<asked, api, server, clock>>

(* The record is kept where another tab owns it, or where the refresh token *)
(* may outlive the access token; a refused or foreign token clears it.      *)
RenewalOver(t) ==
  /\ AnswerIn(t)
  /\ \/ StorageMoved(t) /\ Left(t, TRUE)
     \/ /\ ~StorageMoved(t) /\ flight[t].answer = "refused"
        /\ Left(t, FALSE)
     \/ /\ ~StorageMoved(t) /\ flight[t].answer = "lost" /\ seat[t] \in dead
        /\ Left(t, TRUE)
  /\ UNCHANGED <<fams, outs, clock>>

(* A transient failure before the deadline: the old token serves on. *)
RenewalPutOff(t) ==
  /\ AnswerIn(t) /\ ~StorageMoved(t)
  /\ flight[t].answer = "lost" /\ seat[t] \notin dead
  /\ phase' = [phase EXCEPT ![t] = Opened(t)]
  /\ flight' = [flight EXCEPT ![t] = NoFlight]
  /\ UNCHANGED <<asked, stored, seat, api, server, clock>>

(* A workspace request goes out with the seat's token. *)
Calls(t) ==
  /\ t \in Callers /\ phase[t] = "on" /\ api[t] = NoApi /\ seat[t] \notin dead
  /\ api' = [api EXCEPT ![t] = [seat |-> seat[t], answer |-> "out"]]
  /\ UNCHANGED <<asked, stored, seat, phase, flight, server, clock>>

(* The 401 seam keeps the record only when it holds another sign-in. *)
HoldsAnother(ended) == stored # NoToken /\ stored.fam # ended.fam

CallRefused(t) ==
  /\ api[t].answer = "401" /\ phase[t] = "on"
  /\ Left(t, HoldsAnother(api[t].seat))
  /\ UNCHANGED <<fams, outs, clock>>

(* Sign-out: untracks, presents the newest refresh token of this account,   *)
(* and leaves when the revocation answers or times out.                     *)
SignOut(t) ==
  /\ phase[t] = "on"
  /\ phase' = [phase EXCEPT ![t] = "leaving"]
  /\ flight' = [flight EXCEPT ![t] = NoFlight]
  /\ wire' = Untracked(t)
  /\ outs' = outs \cup {IF SameSubject(stored, seat[t]) THEN stored ELSE seat[t]}
  /\ UNCHANGED <<asked, stored, seat, api, fams, clock>>

Leaves(t) ==
  /\ phase[t] = "leaving"
  /\ Left(t, FALSE)
  /\ UNCHANGED <<fams, outs, clock>>

-----------------------------------------------------------------------------
(* The identity provider: the active token rotates, its parent is answered  *)
(* with the active token, an older one revokes the family.                  *)
Live(r) == fams[r.fam].state = "live"
Accepts(r) == Live(r) /\ r.gen + 1 >= fams[r.fam].active
Rotates(r) == Live(r) /\ r.gen = fams[r.fam].active /\ r.gen < MaxGen
Replays(r) == Live(r) /\ r.gen + 1 < fams[r.fam].active

(* A plausible bug, for the mutant. *)
Newest_Ahead(r) == [fam |-> r.fam, gen |-> fams[r.fam].active + 1]

Newest(r) == [fam |-> r.fam, gen |-> fams[r.fam].active + (IF Rotates(r) THEN 1 ELSE 0)]

Granted(r) ==
  fams' = [fams EXCEPT ![r.fam] =
             IF Rotates(r) THEN [@ EXCEPT !.active = r.gen + 1]
             ELSE IF Replays(r) THEN [@ EXCEPT !.state = "replayed"] ELSE @]

Refreshes(t) ==
  /\ flight[t].answer = "out"
  /\ LET r == flight[t].sent
     IN  /\ Granted(r)
         /\ \/ /\ Accepts(r)
               /\ flight' = [flight EXCEPT ![t].answer = "granted", ![t].got = Newest(r)]
            \/ \E a \in {"refused", "lost"} : flight' = [flight EXCEPT ![t].answer = a]
  /\ UNCHANGED <<asked, stored, seat, phase, api, wire, outs, clock>>

(* The request, or its connection, fails before it reaches the provider. *)
RefreshLost(t) ==
  /\ flight[t].answer = "out"
  /\ flight' = [flight EXCEPT ![t].answer = "lost"]
  /\ UNCHANGED <<asked, stored, seat, phase, api, server, clock>>

StrayRefresh(r) ==
  /\ r \in wire
  /\ wire' = wire \ {r}
  /\ \/ Granted(r)
     \/ UNCHANGED fams
  /\ UNCHANGED <<stored, shell, outs, clock>>

(* A live token's sign-out revokes every sign-in of the account. *)
Revokes(r) ==
  /\ r \in outs
  /\ outs' = outs \ {r}
  /\ \/ /\ Accepts(r)
        /\ fams' = [f \in Families |->
                      IF fams[f].user = Owner(r) THEN [fams[f] EXCEPT !.state = "revoked"] ELSE fams[f]]
     \/ UNCHANGED fams
  /\ UNCHANGED <<stored, shell, wire, clock>>

(* The gateway checks the session of every request. *)
Serves(t) ==
  /\ api[t].answer = "out"
  /\ api' = [api EXCEPT ![t] =
               IF Live(@.seat) /\ @.seat \notin dead THEN NoApi ELSE [@ EXCEPT !.answer = "401"]]
  /\ UNCHANGED <<asked, stored, seat, phase, flight, server, clock>>

(* A refresh request is aborted after RENEW_TIMEOUT_MS, far less than 80 %  *)
(* of a lifetime: no token grows due while a request for an older one of    *)
(* its sign-in is still under way.                                          *)
UnderWay == wire \cup outs \cup {flight[t].sent : t \in {u \in Tabs : flight[u] # NoFlight}}
MayGrowDue(r) == \A s \in UnderWay : s.fam = r.fam => s.gen >= r.gen

(* The lifetime counts from receipt, so only a received token ages. *)
Held(r) == r = stored \/ \E t \in Tabs : seat[t] = r

Ages(r) ==
  /\ Held(r) /\ r.gen < MaxGen /\ r.fam \in Renewing
  /\ \/ r \notin due /\ MayGrowDue(r) /\ due' = due \cup {r} /\ UNCHANGED dead
     \/ r \in due \ dead /\ dead' = dead \cup {r} /\ UNCHANGED due
  /\ UNCHANGED <<stored, shell, server>>

-----------------------------------------------------------------------------
Tab(t) ==
  \/ Boot(t)
  \/ \E u \in Accounts, invited \in BOOLEAN : BootWithCode(t, u, invited)
  \/ Redeemed(t) \/ RedeemFails(t)
  \/ RenewEnds(t) \/ RenewAdopts(t) \/ RenewSends(t)
  \/ Renewed(t) \/ RenewalOver(t) \/ RenewalPutOff(t)
  \/ Calls(t) \/ CallRefused(t)
  \/ SignOut(t) \/ Leaves(t)

Provider == \/ \E t \in Tabs : Refreshes(t) \/ RefreshLost(t) \/ Serves(t)
            \/ \E r \in Token : StrayRefresh(r) \/ Revokes(r)

Next == \/ \E t \in Tabs : Tab(t)
        \/ Provider
        \/ \E r \in Token : Ages(r)

Spec == Init /\ [][Next]_vars

(* A renewal under way is answered, or its timeout fires; its continuation  *)
(* runs; the boot effect asks for the renewal.                              *)
Renewal(t) == \/ RenewEnds(t) \/ RenewAdopts(t) \/ RenewSends(t)
              \/ Renewed(t) \/ RenewalOver(t) \/ RenewalPutOff(t)
Fairness == \A t \in Tabs : /\ WF_vars(Renewal(t))
                            /\ WF_vars(Refreshes(t) \/ RefreshLost(t))
                            /\ WF_vars(Redeemed(t) \/ RedeemFails(t))
                            /\ WF_vars(Leaves(t))
FairSpec == Spec /\ Fairness
-----------------------------------------------------------------------------
(* Every variable keeps its type: a tab that shows a session holds a token, *)
(* one that waits for a code knows whose code it is.                        *)
Phases == {"away", "redeeming", "splash", "on", "leaving"}
Family == [user : Accounts \cup {Nobody}, active : Gens,
           state : {"unborn", "live", "revoked", "replayed"}]
TypeOK ==
  /\ stored \in MaybeToken
  /\ seat \in [Tabs -> MaybeToken]
  /\ phase \in [Tabs -> Phases]
  /\ asked \in [Tabs -> Accounts \cup {Nobody}]
  /\ flight \in [Tabs -> Flight]
  /\ api \in [Tabs -> Api]
  /\ fams \in [Families -> Family]
  /\ wire \subseteq Token /\ outs \subseteq Token
  /\ due \subseteq Token /\ dead \subseteq due

(* The tabs never revoke their own account by accident: no tab presents a   *)
(* refresh token older than the parent of the active one, whichever tab     *)
(* renewed first and whichever answer was lost (renewal.ts presents the     *)
(* stored token and adopts what another tab renewed).                       *)
NeverReplayed == \A f \in Families : fams[f].state # "replayed"

(* The tabs' accounts are kept apart. A tab whose session ends (renewal      *)
(* refused, record gone, 401) leaves the record of another account alone:   *)
(* only the explicit sign-out wipes it. And no tab shows another account's  *)
(* session without passing through the landing page, whatever others write. *)
AccountsApart ==
  [][\A t \in Tabs :
       /\ (/\ seat[t] # NoToken /\ seat'[t] = NoToken /\ phase[t] # "leaving"
           /\ stored # NoToken /\ Owner(stored) # Owner(seat[t])) => stored' = stored
       /\ (seat[t] # NoToken /\ seat'[t] # NoToken)
            => fams'[seat'[t].fam].user = Owner(seat[t])]_vars

(* No late answer restores a record after a sign-out or turns it into       *)
(* another account's: the record behaves as BrowserSession promises.        *)
Session == INSTANCE BrowserSession WITH who <- Owner(stored), asked <- asked
ImplementsSession == Session!Spec

(* The splash behind which a due session renews at boot goes away: the      *)
(* workspace opens or the tab leaves.                                       *)
SplashEnds == \A t \in Tabs : phase[t] = "splash" ~> phase[t] # "splash"
=============================================================================
