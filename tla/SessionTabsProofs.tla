------------------------- MODULE SessionTabsProofs -------------------------
(*****************************************************************************)
(* Theorems about SessionTabs, for any number of tabs, accounts, sign-ins    *)
(* and renewals.                                                             *)
(*                                                                           *)
(* What keeps the provider from seeing a token older than the parent of the  *)
(* newest one: only due tokens are presented, the record is never behind a   *)
(* due token of its sign-in, and nothing is asked for with a token behind    *)
(* one either. So all requests of a sign-in under way present the same       *)
(* token, and the newest one is at most one ahead of it.                     *)
(*****************************************************************************)
EXTENDS SessionTabs, TLAPS

\* A sign-in that was never made has no account and no token.
FamiliesInv ==
  \A f \in Families :
    /\ fams[f].state = "unborn" => fams[f] = NoFamily
    /\ fams[f].state # "unborn" => fams[f].user \in Accounts

\* Handed out by the provider.
Born(r) == r \in Token /\ fams[r.fam].state # "unborn" /\ r.gen <= fams[r.fam].active

\* A tab shows a session exactly where its phase says so, and what it waits
\* for is of that session's account.
SeatInv(t) ==
  /\ phase[t] \in {"away", "redeeming"} => seat[t] = NoToken
  /\ phase[t] \in {"splash", "on", "leaving"} => Born(seat[t])
  /\ phase[t] = "redeeming" <=> asked[t] # Nobody
FlightInv(t) ==
  flight[t] # NoFlight =>
    /\ phase[t] \in {"splash", "on"} /\ flight[t].answer # "none"
    /\ flight[t].sent \in due /\ Owner(flight[t].sent) = Owner(seat[t])
    /\ flight[t].answer = "granted" =>
         /\ flight[t].got.fam = flight[t].sent.fam
         /\ flight[t].got.gen = flight[t].sent.gen + 1
         /\ flight[t].got.gen = fams[flight[t].got.fam].active
ApiInv(t) ==
  api[t] # NoApi =>
    /\ phase[t] \in {"splash", "on", "leaving"} /\ Born(api[t].seat)
    /\ Owner(api[t].seat) = Owner(seat[t])

\* Not behind a due token of its sign-in.
Abreast(s) == \A r \in due : s.fam = r.fam => s.gen >= r.gen

TokensInv ==
  /\ stored = NoToken \/ Born(stored)
  /\ Abreast(stored)
  /\ \A t \in Tabs : seat[t].fam = stored.fam => seat[t].gen <= stored.gen
  /\ \A r \in due : Born(r) /\ r.gen < MaxGen
  /\ \A f \in Families : fams[f].active > 0 => [fam |-> f, gen |-> fams[f].active - 1] \in due
  /\ wire \subseteq due
  /\ \A s \in wire : Abreast(s)
  /\ \A t \in Tabs : flight[t] # NoFlight => Abreast(flight[t].sent)

Inv ==
  /\ TypeOK /\ FamiliesInv /\ TokensInv /\ NeverReplayed
  /\ \A t \in Tabs : SeatInv(t) /\ FlightInv(t) /\ ApiInv(t)

-----------------------------------------------------------------------------
\* Nobody is signed in to begin with.
LEMMA InitInv == Init => Inv
BY TabsAssumption DEF Init, Inv, TypeOK, FamiliesInv, TokensInv, NeverReplayed, SeatInv, FlightInv, ApiInv,
   Abreast, Born, NoToken, NoFlight, NoApi, NoFamily, MaybeToken, Token, Flight, Api, Family, Phases, Families, Gens

\* A tab leaves for the landing page: only its own seat, and the record, change.
LEMMA LeftInv ==
  ASSUME Inv, NEW t \in Tabs, NEW keep \in BOOLEAN, phase[t] # "redeeming",
         Left(t, keep), UNCHANGED <<fams, outs, clock>>
  PROVE  Inv'
<1> USE TabsAssumption DEF Left, clock, Inv
<1>1. stored' \in {stored, NoToken}
  BY DEF Mirrored
<1>2. wire' \subseteq wire \cup {flight[t].sent} /\ (wire' # wire => flight[t] # NoFlight)
  BY DEF Untracked, NoFlight
<1>3. TypeOK'
  BY <1>1, <1>2 DEF TypeOK, MaybeToken, Flight, Api, Phases, NoToken, NoFlight, NoApi, FlightInv
<1>4. FamiliesInv' /\ NeverReplayed'
  BY DEF FamiliesInv, NeverReplayed
<1>5. TokensInv'
  <2>1. Abreast(stored)' /\ (stored' = NoToken \/ Born(stored)')
    BY <1>1 DEF TokensInv, Abreast, Born, TypeOK, NoToken, Token, Families
  <2>2. \A u \in Tabs : seat'[u].fam = stored'.fam => seat'[u].gen <= stored'.gen
    BY <1>1, <1>3 DEF TokensInv, TypeOK, NoToken, MaybeToken, Token, Families, Gens
  <2>3. wire' \subseteq due' /\ \A s \in wire' : Abreast(s)'
    BY <1>2 DEF TokensInv, FlightInv, Abreast
  <2> QED BY <2>1, <2>2, <2>3 DEF TokensInv, Born, Abreast, TypeOK
<1>6. \A u \in Tabs : SeatInv(u)' /\ FlightInv(u)' /\ ApiInv(u)'
  BY DEF SeatInv, FlightInv, ApiInv, TypeOK, Born, Owner
<1> QED BY <1>3, <1>4, <1>5, <1>6

\* A tab opens, on the record or with a code, and its exchange is answered.
LEMMA BootSteps ==
  ASSUME Inv, NEW t \in Tabs,
         \/ Boot(t)
         \/ \E u \in Accounts, invited \in BOOLEAN : BootWithCode(t, u, invited)
         \/ RedeemFails(t)
  PROVE  Inv'
<1> USE TabsAssumption DEF Inv, clock, server
<1>1. CASE Boot(t)
  <2> USE <1>1 DEF Boot, Mirrored
  <2>1. stored' = stored
    OBVIOUS
  <2>2. TypeOK' /\ FamiliesInv' /\ NeverReplayed'
    BY <2>1 DEF TypeOK, Phases, FamiliesInv, NeverReplayed
  <2>3. TokensInv'
    <3>1. stored.gen \in Nat
      BY DEF TypeOK, MaybeToken, Token, Gens, NoToken
    <3>2. \A u \in Tabs : seat'[u].fam = stored.fam => seat'[u].gen <= stored.gen
      BY <3>1 DEF TokensInv, TypeOK
    <3> QED BY <2>1, <3>2 DEF TokensInv, Abreast, Born
  <2>4. \A u \in Tabs : SeatInv(u)' /\ FlightInv(u)' /\ ApiInv(u)'
    BY <2>1 DEF SeatInv, FlightInv, ApiInv, TokensInv, TypeOK, Born, Owner
  <2> QED BY <2>2, <2>3, <2>4
<1>2. ASSUME NEW u \in Accounts, NEW invited \in BOOLEAN, BootWithCode(t, u, invited)
      PROVE  Inv'
  <2> USE <1>2 DEF BootWithCode
  <2>1. stored' \in {stored, NoToken}
    BY DEF Mirrored
  <2>2. TypeOK' /\ FamiliesInv' /\ NeverReplayed'
    BY <2>1 DEF TypeOK, Phases, FamiliesInv, NeverReplayed, MaybeToken
  <2>3. TokensInv'
    <3>1. Abreast(stored)' /\ (stored' = NoToken \/ Born(stored)')
      BY <2>1 DEF TokensInv, Abreast, Born, TypeOK, NoToken, Token, Families
    <3>2. \A v \in Tabs : seat'[v].fam = stored'.fam => seat'[v].gen <= stored'.gen
      BY <2>1 DEF TokensInv, TypeOK, NoToken, MaybeToken, Token, Families, Gens
    <3> QED BY <3>1, <3>2 DEF TokensInv, Abreast, Born
  <2>4. \A v \in Tabs : SeatInv(v)' /\ FlightInv(v)' /\ ApiInv(v)'
    BY DEF SeatInv, FlightInv, ApiInv, TypeOK, Born, Owner
  <2> QED BY <2>2, <2>3, <2>4
<1>3. CASE RedeemFails(t)
  <2> USE <1>3 DEF RedeemFails
  <2>1. TypeOK' /\ FamiliesInv' /\ NeverReplayed'
    BY DEF TypeOK, Phases, FamiliesInv, NeverReplayed
  <2>2. TokensInv'
    BY DEF TokensInv, Abreast, Born
  <2>3. \A u \in Tabs : SeatInv(u)' /\ FlightInv(u)' /\ ApiInv(u)'
    BY DEF SeatInv, FlightInv, ApiInv, TypeOK, Born, Owner
  <2> QED BY <2>1, <2>2, <2>3
<1> QED BY <1>1, <1>2, <1>3

\* A new sign-in: no token of its family was ever handed out.
LEMMA RedeemedInv ==
  ASSUME Inv, NEW t \in Tabs, Redeemed(t)
  PROVE  Inv'
<1> USE TabsAssumption DEF Inv, clock
<1>1. PICK f \in Families :
        /\ NextFamily(f)
        /\ fams' = [fams EXCEPT ![f] = [user |-> asked[t], active |-> 0, state |-> "live"]]
        /\ seat' = [seat EXCEPT ![t] = [fam |-> f, gen |-> 0]]
        /\ stored' = [fam |-> f, gen |-> 0]
  BY DEF Redeemed, Mirrored, NoToken, Families
<1>2. fams[f].state = "unborn" /\ asked[t] \in Accounts /\ phase[t] = "redeeming"
  BY <1>1 DEF NextFamily, Redeemed, SeatInv, TypeOK
<1>3. [fam |-> f, gen |-> 0] \in Token /\ [fam |-> f, gen |-> 0] # NoToken
  BY DEF Token, Gens, NoToken, Families
<1>4. TypeOK'
  <2>1. [user |-> asked[t], active |-> 0, state |-> "live"] \in Family
    BY <1>2 DEF Family, Gens
  <2> QED BY <1>1, <1>2, <1>3, <2>1 DEF Redeemed, TypeOK, MaybeToken, Phases
<1>5. FamiliesInv' /\ NeverReplayed'
  BY <1>1, <1>2 DEF FamiliesInv, NeverReplayed, TypeOK, Family, NoFamily
<1>6. \A r : Born(r) => r.fam # f /\ Born(r)'
  BY <1>1, <1>2 DEF Born, Token, TypeOK
<1>7. Born([fam |-> f, gen |-> 0])'
  BY <1>1, <1>3 DEF Born, TypeOK, Family
<1>8. TokensInv'
  <2>1. \A r \in due : r.fam # f
    BY <1>6 DEF TokensInv
  <2>2. \A u \in Tabs : seat'[u].fam = f => seat'[u].gen <= 0
    BY <1>1, <1>6, <1>2 DEF SeatInv, TypeOK, Phases, MaybeToken, NoToken, Families, Born
  <2>3. Abreast(stored)'
    BY <1>1, <2>1 DEF Redeemed, Abreast
  <2>4. \A g \in Families : fams'[g].active > 0 => [fam |-> g, gen |-> fams'[g].active - 1] \in due'
    BY <1>1 DEF Redeemed, TokensInv, TypeOK
  <2>5. due' = due /\ wire' = wire /\ flight' = flight
    BY DEF Redeemed
  <2>6. \A r \in due' : Born(r)' /\ r.gen < MaxGen
    BY <1>6, <2>5 DEF TokensInv
  <2>7. wire' \subseteq due' /\ \A s \in wire' : Abreast(s)'
    BY <2>5 DEF TokensInv, Abreast
  <2>8. \A u \in Tabs : flight'[u] # NoFlight => Abreast(flight[u].sent)'
    BY <2>5 DEF TokensInv, Abreast
  <2>9. \A u \in Tabs : seat'[u].fam = stored'.fam => seat'[u].gen <= stored'.gen
    BY <1>1, <2>2
  <2> QED BY <1>1, <1>7, <2>3, <2>4, <2>6, <2>7, <2>8, <2>9 DEF TokensInv
<1>9. ASSUME NEW u \in Tabs
      PROVE  SeatInv(u)' /\ FlightInv(u)' /\ ApiInv(u)'
  <2>1. CASE u = t
    BY <2>1, <1>1, <1>2, <1>7 DEF Redeemed, SeatInv, FlightInv, ApiInv, TypeOK
  <2>2. CASE u # t
    <3>1. seat'[u] = seat[u] /\ phase'[u] = phase[u] /\ asked'[u] = asked[u]
          /\ flight' = flight /\ api' = api /\ due' = due
      BY <2>2, <1>1 DEF Redeemed, TypeOK
    <3>2. \A r : Born(r) => Owner(r)' = Owner(r) /\ fams'[r.fam] = fams[r.fam]
      BY <1>1, <1>6 DEF Owner, TypeOK, Born, Token
    <3>3. SeatInv(u)'
      BY <3>1, <1>6 DEF SeatInv
    <3>4. FlightInv(u)'
      BY <3>1, <3>2 DEF FlightInv, SeatInv, TokensInv
    <3>5. ApiInv(u)'
      BY <3>1, <3>2, <1>6 DEF ApiInv, SeatInv
    <3> QED BY <3>3, <3>4, <3>5
  <2> QED BY <2>1, <2>2
<1> QED BY <1>4, <1>5, <1>8, <1>9

-----------------------------------------------------------------------------
\* The renewal of a tab, up to the request and after its answer.
LEMMA RenewalSteps ==
  ASSUME Inv, NEW t \in Tabs,
         RenewAdopts(t) \/ RenewSends(t) \/ Renewed(t) \/ RenewalPutOff(t)
  PROVE  Inv'
<1> USE TabsAssumption DEF Inv, clock, server
<1>1. CASE RenewAdopts(t)
  <2> USE <1>1 DEF RenewAdopts, RenewDue, Showing, Opened
  <2>1. Owner(stored) = Owner(seat[t]) /\ Born(stored)
    BY DEF SameSubject, TokensInv
  <2>2. TypeOK' /\ FamiliesInv' /\ NeverReplayed'
    BY DEF TypeOK, Phases, FamiliesInv, NeverReplayed
  <2>3. TokensInv'
    <3>1. stored.gen \in Nat
      BY <2>1 DEF Born, Token, Gens
    <3>2. \A u \in Tabs : seat'[u].fam = stored.fam => seat'[u].gen <= stored.gen
      BY <3>1 DEF TokensInv, TypeOK
    <3> QED BY <3>2 DEF TokensInv, Abreast, Born
  <2>4. \A u \in Tabs : SeatInv(u)' /\ FlightInv(u)' /\ ApiInv(u)'
    BY <2>1 DEF SeatInv, FlightInv, ApiInv, TypeOK, Born, Owner
  <2> QED BY <2>2, <2>3, <2>4
<1>2. CASE RenewSends(t)
  <2> USE <1>2 DEF RenewSends, RenewDue, Showing, Presented
  <2>1. Owner(stored) = Owner(seat[t]) /\ stored \in due
    BY DEF SameSubject, IsDue
  <2>2. stored \in MaybeToken
    BY DEF TypeOK
  <2>3. [sent |-> stored, got |-> NoToken, answer |-> "out"] \in Flight
    BY <2>2 DEF Flight, MaybeToken
  <2>4. TypeOK' /\ FamiliesInv' /\ NeverReplayed'
    BY <2>3 DEF TypeOK, FamiliesInv, NeverReplayed
  <2>5. TokensInv'
    BY DEF TokensInv, Abreast, Born, TypeOK
  <2>6. \A u \in Tabs : SeatInv(u)' /\ FlightInv(u)' /\ ApiInv(u)'
    BY <2>1 DEF SeatInv, FlightInv, ApiInv, TypeOK, Born, Owner
  <2> QED BY <2>4, <2>5, <2>6
<1>3. CASE Renewed(t)
  <2> USE <1>3 DEF Renewed, Opened, StorageMoved
  <2> DEFINE got == flight[t].got
  <2>1. flight[t] # NoFlight /\ flight[t].answer = "granted"
    BY DEF NoFlight
  <2>2. /\ flight[t].sent \in due /\ got.fam = flight[t].sent.fam
        /\ got.gen = fams[got.fam].active /\ got \in MaybeToken
    BY <2>1 DEF FlightInv, TypeOK, Flight
  <2>3. Born(got)
    BY <2>2 DEF TokensInv, Born, MaybeToken, NoToken, Token, Families, TypeOK, Family, Gens
  <2>4. Owner(got) = Owner(stored) /\ Owner(got) = Owner(seat[t])
    BY <2>1, <2>2, <2>3 DEF SameSubject, FlightInv, Owner, NoToken, Born, Token, Families
  <2>5. TypeOK' /\ FamiliesInv' /\ NeverReplayed'
    BY <2>3 DEF TypeOK, FamiliesInv, NeverReplayed, Phases, Born, MaybeToken, Flight, NoFlight
  <2>6. TokensInv'
    <3>1. \A r : Born(r) /\ r.fam = got.fam => r.gen <= got.gen
      BY <2>2 DEF Born
    <3>2. \A u \in Tabs : seat'[u].fam = got.fam => seat'[u].gen <= got.gen
      <4>1. \A u \in Tabs : Born(seat'[u]) \/ seat'[u] = NoToken
        BY <2>3 DEF SeatInv, TypeOK, Phases
      <4>2. got.fam # 0
        BY <2>3 DEF Born, Token, Families
      <4> QED BY <3>1, <4>1, <4>2 DEF NoToken
    <3>3. Abreast(got)
      <4>1. \A r \in due : r.fam = got.fam => r.gen <= got.gen
        BY <3>1 DEF TokensInv
      <4>2. \A r \in due : r.gen \in Nat
        BY DEF TokensInv, Born, Token, Gens
      <4>3. got.gen \in Nat
        BY <2>3 DEF Born, Token, Gens
      <4> QED BY <4>1, <4>2, <4>3 DEF Abreast
    <3> QED BY <2>3, <3>2, <3>3 DEF TokensInv, Abreast, Born, TypeOK
  <2>7. ASSUME NEW u \in Tabs
        PROVE  SeatInv(u)' /\ FlightInv(u)' /\ ApiInv(u)'
    <3>1. CASE u = t
      <4>1. phase[t] \in {"splash", "on"} /\ phase'[t] = "on"
        BY <2>1 DEF FlightInv, TypeOK
      <4>2. seat'[t] = got /\ flight'[t] = NoFlight /\ api' = api /\ fams' = fams /\ asked' = asked
        BY DEF TypeOK
      <4>3. SeatInv(t)'
        BY <2>3, <4>1, <4>2 DEF SeatInv, Born
      <4>4. ApiInv(t)'
        BY <2>4, <4>1, <4>2 DEF ApiInv, Born, Owner
      <4> QED BY <3>1, <4>2, <4>3, <4>4 DEF FlightInv
    <3>2. CASE u # t
      BY <3>2 DEF SeatInv, FlightInv, ApiInv, TypeOK, Born, Owner
    <3> QED BY <3>1, <3>2
  <2> QED BY <2>5, <2>6, <2>7
<1>4. CASE RenewalPutOff(t)
  <2> USE <1>4 DEF RenewalPutOff, Opened
  <2>1. TypeOK' /\ FamiliesInv' /\ NeverReplayed'
    BY DEF TypeOK, FamiliesInv, NeverReplayed, Phases, Flight, NoFlight, MaybeToken
  <2>2. TokensInv'
    BY DEF TokensInv, Abreast, Born, TypeOK
  <2>3. \A u \in Tabs : SeatInv(u)' /\ FlightInv(u)' /\ ApiInv(u)'
    BY DEF SeatInv, FlightInv, ApiInv, TypeOK, Born, Owner
  <2> QED BY <2>1, <2>2, <2>3
<1> QED BY <1>1, <1>2, <1>3, <1>4

\* Requests to the workspace, the sign-out, and every way a session ends.
LEMMA LeaveSteps ==
  ASSUME Inv, NEW t \in Tabs,
         \/ RenewEnds(t) \/ RenewalOver(t) \/ Calls(t) \/ CallRefused(t)
         \/ SignOut(t) \/ Leaves(t)
  PROVE  Inv'
<1>1. CASE RenewEnds(t)
  BY <1>1, LeftInv DEF RenewEnds, RenewDue, Showing
<1>2. CASE RenewalOver(t)
  <2>1. phase[t] # "redeeming"
    BY <1>2 DEF RenewalOver, AnswerIn, Inv, FlightInv, NoFlight
  <2> QED BY <1>2, <2>1, LeftInv DEF RenewalOver
<1>3. CASE Calls(t)
  <2> USE <1>3 DEF Calls, Inv, clock, server
  <2>1. Born(seat[t])
    BY DEF SeatInv
  <2>2. TypeOK' /\ FamiliesInv' /\ NeverReplayed'
    BY <2>1 DEF TypeOK, FamiliesInv, NeverReplayed, Api, Born, MaybeToken
  <2>3. TokensInv'
    BY DEF TokensInv, Abreast, Born, TypeOK
  <2>4. \A u \in Tabs : SeatInv(u)' /\ FlightInv(u)' /\ ApiInv(u)'
    BY <2>1 DEF SeatInv, FlightInv, ApiInv, TypeOK, Born, Owner
  <2> QED BY <2>2, <2>3, <2>4
<1>4. CASE CallRefused(t)
  <2>1. HoldsAnother(api[t].seat) \in BOOLEAN
    BY DEF HoldsAnother
  <2> QED BY <1>4, <2>1, LeftInv DEF CallRefused
<1>5. CASE SignOut(t)
  <2> USE <1>5 DEF SignOut, Inv, clock
  <2>1. wire' \subseteq wire \cup {flight[t].sent} /\ (wire' # wire => flight[t] # NoFlight)
    BY DEF Untracked, NoFlight
  <2>2. Born(seat[t]) /\ (SameSubject(stored, seat[t]) => Born(stored))
    BY DEF SeatInv, TokensInv, SameSubject
  <2>3. wire' \subseteq due
    BY <2>1 DEF TokensInv, FlightInv
  <2>4. TypeOK' /\ FamiliesInv' /\ NeverReplayed'
    BY <2>2, <2>3 DEF TypeOK, FamiliesInv, NeverReplayed, Born, Phases, Flight, NoFlight, MaybeToken
  <2>5. TokensInv'
    BY <2>1, <2>3 DEF TokensInv, Abreast, Born, TypeOK
  <2>6. \A u \in Tabs : SeatInv(u)' /\ FlightInv(u)' /\ ApiInv(u)'
    BY DEF SeatInv, FlightInv, ApiInv, TypeOK, Born, Owner
  <2> QED BY <2>4, <2>5, <2>6
<1>6. CASE Leaves(t)
  BY <1>6, LeftInv DEF Leaves
<1> QED BY <1>1, <1>2, <1>3, <1>4, <1>5, <1>6

-----------------------------------------------------------------------------
\* No token that is asked for a new one is behind the newest one by two, and
\* none is ahead of it: the provider takes it, and answers with the next one.
LEMMA SentIsCurrent ==
  ASSUME Inv, NEW r \in due, Abreast(r)
  PROVE  /\ r.gen <= fams[r.fam].active /\ fams[r.fam].active <= r.gen + 1
         /\ ~Replays(r) /\ r \in Token /\ r.gen \in Nat /\ r.gen < MaxGen
         /\ Live(r) => Newest(r) = [fam |-> r.fam, gen |-> r.gen + 1]
<1> USE TabsAssumption DEF Inv
<1>1. /\ Born(r) /\ r.gen < MaxGen /\ r \in Token /\ r.fam \in Families /\ r.gen \in Nat
      /\ fams[r.fam].active \in Nat
  BY DEF TokensInv, Born, Token, Gens, TypeOK, Family
<1>2. fams[r.fam].active <= r.gen + 1
  <2>1. CASE fams[r.fam].active > 0
    <3>1. [fam |-> r.fam, gen |-> fams[r.fam].active - 1] \in due
      BY <1>1, <2>1 DEF TokensInv
    <3>2. r.gen >= fams[r.fam].active - 1
      BY <3>1 DEF Abreast
    <3> QED BY <1>1, <3>2
  <2> QED BY <1>1, <2>1
<1> QED BY <1>1, <1>2 DEF Born, Replays, Live, Newest, Rotates

\* The provider answers one request with such a token: the families keep what
\* the invariant says of them, and no other request falls behind by two.
LEMMA GrantedInv ==
  ASSUME Inv, NEW r \in due, Abreast(r), Granted(r), UNCHANGED <<stored, seat, phase, asked, api, outs, due, dead>>,
         wire' \subseteq wire,
         \/ flight' = flight
         \/ \E t \in Tabs :
              /\ flight[t].sent = r /\ flight[t] # NoFlight
              /\ \/ Accepts(r) /\ flight' = [flight EXCEPT ![t].answer = "granted", ![t].got = Newest(r)]
                 \/ \E a \in {"refused", "lost"} : flight' = [flight EXCEPT ![t].answer = a]
  PROVE  Inv'
<1> USE TabsAssumption DEF Inv
<1>1. /\ r.gen <= fams[r.fam].active /\ fams[r.fam].active <= r.gen + 1
      /\ ~Replays(r) /\ r \in Token /\ r.gen \in Nat /\ r.gen < MaxGen
      /\ Live(r) => Newest(r) = [fam |-> r.fam, gen |-> r.gen + 1]
  BY SentIsCurrent
<1>2. r.fam \in Families /\ fams[r.fam] \in Family /\ fams \in [Families -> Family]
  BY <1>1 DEF Token, TypeOK
<1>3. \/ fams' = fams /\ ~Rotates(r)
      \/ Rotates(r) /\ fams' = [fams EXCEPT ![r.fam].active = r.gen + 1]
  BY <1>1, <1>2 DEF Granted
<1>4. /\ fams' \in [Families -> Family]
      /\ \A f \in Families : /\ fams'[f].user = fams[f].user /\ fams'[f].state = fams[f].state
                             /\ fams'[f].active >= fams[f].active
                             /\ f # r.fam => fams'[f] = fams[f]
  BY <1>1, <1>2, <1>3 DEF Family, Gens, Rotates
<1>5. Live(r) => fams'[r.fam].active = r.gen + 1
  <2>1. CASE Rotates(r)
    BY <1>2, <1>3, <2>1 DEF Rotates, Family
  <2>2. CASE ~Rotates(r) /\ Live(r)
    <3>1. r.gen # fams[r.fam].active /\ fams' = fams
      BY <1>1, <1>3, <2>2 DEF Rotates
    <3>2. fams[r.fam].active \in Nat
      BY <1>2 DEF Family, Gens
    <3> QED BY <1>1, <3>1, <3>2
  <2> QED BY <2>1, <2>2
<1>6. \A s : Born(s) => Born(s)' /\ Owner(s)' = Owner(s)
  BY <1>2, <1>4 DEF Born, Owner, Token, Gens, Family, NoToken
<1>7. FamiliesInv' /\ NeverReplayed'
  BY <1>2, <1>3, <1>4 DEF FamiliesInv, NeverReplayed, Rotates, Live, Family, NoFamily
<1> DEFINE Same(u) == /\ (flight[u] = NoFlight) <=> (flight'[u] = NoFlight)
                      /\ flight'[u].sent = flight[u].sent /\ flight'[u] \in Flight
                      /\ (flight'[u] # NoFlight /\ flight[u].answer # "none") => flight'[u].answer # "none"
           Taken(u) == /\ flight[u].sent = r /\ Accepts(r)
                       /\ flight'[u].got = Newest(r) /\ flight'[u].answer = "granted"
<1>8. \A u \in Tabs : Same(u) /\ (flight'[u].answer = "granted" => flight'[u] = flight[u] \/ Taken(u))
  <2>1. CASE flight' = flight
    BY <2>1 DEF TypeOK
  <2>2. ASSUME NEW t \in Tabs, flight[t].sent = r, flight[t] # NoFlight, Accepts(r),
               flight' = [flight EXCEPT ![t].answer = "granted", ![t].got = Newest(r)],
               NEW u \in Tabs
        PROVE  Same(u) /\ (flight'[u] = flight[u] \/ Taken(u))
    <3>1. Newest(r) \in MaybeToken
      BY <1>1, <2>2 DEF Accepts, MaybeToken, Token, Gens
    <3>2. flight \in [Tabs -> Flight]
      BY DEF TypeOK
    <3>3. CASE u # t
      BY <2>2, <3>2, <3>3
    <3>4. CASE u = t
      <4>1. flight'[t] = [sent |-> r, got |-> Newest(r), answer |-> "granted"]
        BY <2>2, <3>2 DEF Flight
      <4>2. r \in MaybeToken
        BY <1>1 DEF MaybeToken
      <4>3. flight'[t] \in Flight
        BY <3>1, <4>1, <4>2 DEF Flight
      <4>4. flight'[t].sent = r /\ flight'[t].got = Newest(r) /\ flight'[t].answer = "granted"
        BY <4>1
      <4>5. flight'[t] # NoFlight
        BY <4>4 DEF NoFlight
      <4> HIDE DEF Inv
      <4> QED BY <2>2, <3>4, <4>3, <4>4, <4>5
    <3> QED BY <3>3, <3>4
  <2>3. ASSUME NEW t \in Tabs, NEW a \in {"refused", "lost"}, flight[t] # NoFlight,
               flight' = [flight EXCEPT ![t].answer = a],
               NEW u \in Tabs
        PROVE  Same(u) /\ (flight'[u].answer = "granted" => flight'[u] = flight[u])
    BY <2>3 DEF TypeOK, Flight, NoFlight
  <2> QED BY <2>1, <2>2, <2>3
<1>9. TypeOK'
  BY <1>4, <1>8 DEF TypeOK
<1>10. TokensInv'
  <2>1. \A f \in Families : fams'[f].active > 0 => [fam |-> f, gen |-> fams'[f].active - 1] \in due'
    <3>1. r = [fam |-> r.fam, gen |-> r.gen]
      BY <1>1 DEF Token
    <3>2. Rotates(r) => [fam |-> r.fam, gen |-> fams'[r.fam].active - 1] = r
      BY <1>1, <1>5, <3>1 DEF Rotates
    <3> QED BY <1>3, <1>4, <3>2 DEF TokensInv
  <2>2. (stored' = NoToken \/ Born(stored)') /\ Abreast(stored)'
    BY <1>6 DEF TokensInv, Abreast
  <2>3. \A s \in due' : Born(s)' /\ s.gen < MaxGen
    BY <1>6 DEF TokensInv
  <2>4. wire' \subseteq due' /\ \A s \in wire' : Abreast(s)'
    BY DEF TokensInv, Abreast
  <2>5. \A u \in Tabs : flight'[u] # NoFlight => Abreast(flight[u].sent)
    BY <1>8 DEF TokensInv
  <2>6. \A u \in Tabs : flight'[u] # NoFlight => Abreast(flight[u].sent)'
    BY <1>8, <2>5 DEF Abreast
  <2> QED BY <1>8, <2>1, <2>2, <2>3, <2>4, <2>6 DEF TokensInv, Abreast
<1>11. ASSUME NEW u \in Tabs
       PROVE  SeatInv(u)' /\ FlightInv(u)' /\ ApiInv(u)'
  <2>1. SeatInv(u)'
    BY <1>6 DEF SeatInv
  <2>2. ApiInv(u)'
    BY <1>6 DEF ApiInv, SeatInv
  <2>3. FlightInv(u)'
    <3> SUFFICES ASSUME flight'[u] # NoFlight PROVE FlightInv(u)'
      BY DEF FlightInv
    <3> DEFINE s == flight[u].sent
    <3>1. /\ flight[u] # NoFlight /\ flight'[u].sent = s /\ flight'[u].answer # "none"
          /\ s \in due /\ Owner(s) = Owner(seat[u]) /\ phase[u] \in {"splash", "on"}
      BY <1>8 DEF FlightInv
    <3>2. Owner(s)' = Owner(seat[u])'
      <4>1. Born(s) /\ Born(seat[u])
        BY <3>1 DEF TokensInv, SeatInv
      <4> QED BY <1>6, <3>1, <4>1
    <3>3. ASSUME flight'[u].answer = "granted"
          PROVE  /\ flight'[u].got.fam = s.fam /\ flight'[u].got.gen = s.gen + 1
                 /\ flight'[u].got.gen = fams'[flight'[u].got.fam].active
      <4>1. CASE flight'[u] = flight[u]
        <5>1. flight[u].got.fam = s.fam /\ flight[u].got.gen = s.gen + 1 /\ s.gen + 1 = fams[s.fam].active
          BY <3>1, <3>3, <4>1 DEF FlightInv
        <5>2. CASE Rotates(r) /\ s.fam = r.fam
          <6>1. s.gen >= r.gen /\ r.gen = fams[r.fam].active
            BY <3>1, <5>2 DEF TokensInv, Abreast, Rotates
          <6>2. s.gen \in Nat
            BY <3>1 DEF TokensInv, Born, Token, Gens
          <6> QED BY <1>1, <5>1, <5>2, <6>1, <6>2
        <5>3. s.fam \in Families
          BY <3>1 DEF TokensInv, Born, Token
        <5> QED BY <1>3, <1>4, <4>1, <5>1, <5>2, <5>3
      <4>2. CASE flight'[u] # flight[u]
        <5>1. s = r /\ Accepts(r) /\ flight'[u].got = Newest(r)
          BY <1>8, <3>3, <4>2
        <5> QED BY <1>1, <1>5, <5>1 DEF Accepts
      <4> QED BY <4>1, <4>2
    <3> QED BY <3>1, <3>2, <3>3 DEF FlightInv
  <2> QED BY <2>1, <2>2, <2>3
<1> QED BY <1>7, <1>9, <1>10, <1>11

\* The provider and the gateway, whichever tab still waits for them.
LEMMA ProviderSteps ==
  ASSUME Inv, Provider
  PROVE  Inv'
<1> USE DEF Inv
<1>1. ASSUME NEW t \in Tabs, Refreshes(t)
      PROVE  Inv'
  <2>1. /\ flight[t] # NoFlight /\ flight[t].sent \in due /\ Abreast(flight[t].sent)
        /\ Granted(flight[t].sent)
    BY <1>1 DEF Refreshes, NoFlight, FlightInv, TokensInv
  <2>2. \/ /\ Accepts(flight[t].sent)
           /\ flight' = [flight EXCEPT ![t].answer = "granted", ![t].got = Newest(flight[t].sent)]
        \/ \E a \in {"refused", "lost"} : flight' = [flight EXCEPT ![t].answer = a]
    BY <1>1 DEF Refreshes
  <2>3. wire' \subseteq wire /\ UNCHANGED <<stored, seat, phase, asked, api, outs, due, dead>>
    BY <1>1 DEF Refreshes, clock
  <2> QED BY <2>1, <2>2, <2>3, GrantedInv
<1>2. ASSUME NEW t \in Tabs, RefreshLost(t)
      PROVE  Inv'
  <2> USE <1>2 DEF RefreshLost, server, clock
  <2>1. \A u \in Tabs : /\ (flight[u] = NoFlight) <=> (flight'[u] = NoFlight)
                        /\ flight'[u].sent = flight[u].sent /\ flight'[u] \in Flight
                        /\ flight'[u] # flight[u] => flight'[u].answer = "lost"
    BY DEF TypeOK, Flight, NoFlight
  <2>2. TypeOK' /\ FamiliesInv' /\ NeverReplayed'
    BY <2>1 DEF TypeOK, FamiliesInv, NeverReplayed
  <2>3. TokensInv'
    BY <2>1 DEF TokensInv, Abreast, Born
  <2>4. \A u \in Tabs : SeatInv(u)' /\ FlightInv(u)' /\ ApiInv(u)'
    BY <2>1 DEF SeatInv, FlightInv, ApiInv, Born, Owner
  <2> QED BY <2>2, <2>3, <2>4
<1>3. ASSUME NEW t \in Tabs, Serves(t)
      PROVE  Inv'
  <2> USE <1>3 DEF Serves, server, clock
  <2>1. \A u \in Tabs : /\ api'[u] \in Api
                        /\ api'[u] # NoApi => api[u] # NoApi /\ api'[u].seat = api[u].seat
    BY DEF TypeOK, Api, NoApi, MaybeToken
  <2>2. TypeOK' /\ FamiliesInv' /\ NeverReplayed'
    BY <2>1 DEF TypeOK, FamiliesInv, NeverReplayed
  <2>3. TokensInv'
    BY DEF TokensInv, Abreast, Born
  <2>4. \A u \in Tabs : SeatInv(u)' /\ FlightInv(u)' /\ ApiInv(u)'
    BY <2>1 DEF SeatInv, FlightInv, ApiInv, Born, Owner
  <2> QED BY <2>2, <2>3, <2>4
<1>4. ASSUME NEW r \in Token, StrayRefresh(r)
      PROVE  Inv'
  <2>1. r \in due /\ Abreast(r)
    BY <1>4 DEF StrayRefresh, TokensInv
  <2>2. wire' \subseteq wire /\ UNCHANGED <<stored, seat, phase, asked, flight, api, outs, due, dead>>
    BY <1>4 DEF StrayRefresh, shell, clock
  <2>3. CASE UNCHANGED fams
    <3>1. TypeOK' /\ FamiliesInv' /\ NeverReplayed' /\ TokensInv'
      BY <2>2, <2>3 DEF TypeOK, FamiliesInv, NeverReplayed, TokensInv, Abreast, Born
    <3>2. \A u \in Tabs : SeatInv(u)' /\ FlightInv(u)' /\ ApiInv(u)'
      BY <2>2, <2>3 DEF SeatInv, FlightInv, ApiInv, Born, Owner
    <3> QED BY <3>1, <3>2
  <2>4. CASE Granted(r)
    BY <2>1, <2>2, <2>4, GrantedInv
  <2> QED BY <1>4, <2>3, <2>4 DEF StrayRefresh
<1>5. ASSUME NEW r \in Token, Revokes(r)
      PROVE  Inv'
  <2>1. UNCHANGED <<stored, seat, phase, asked, flight, api, wire, due, dead>> /\ outs' \subseteq outs
    BY <1>5 DEF Revokes, shell, clock
  <2>2. Accepts(r) => Owner(r) \in Accounts
    BY TabsAssumption DEF Accepts, Live, FamiliesInv, Owner, Token, NoToken, Families
  <2>3. \A f \in Families :
          /\ fams'[f] \in Family /\ fams'[f].user = fams[f].user /\ fams'[f].active = fams[f].active
          /\ fams[f].state # "unborn" => fams'[f].state # "unborn" /\ fams'[f].state # "replayed"
          /\ fams[f].state = "unborn" => fams'[f] = fams[f]
    BY <1>5, <2>2, TabsAssumption DEF Revokes, TypeOK, Family, FamiliesInv, NoFamily, NeverReplayed
  <2>4. fams' \in [Families -> Family]
    BY <1>5, <2>3 DEF Revokes, TypeOK
  <2>5. \A s : Born(s) => Born(s)' /\ Owner(s)' = Owner(s)
    BY <2>3 DEF Born, Owner, Token, NoToken
  <2>6. TypeOK' /\ FamiliesInv' /\ NeverReplayed'
    BY <2>1, <2>3, <2>4 DEF TypeOK, FamiliesInv, NeverReplayed
  <2>7. TokensInv'
    BY <2>1, <2>3, <2>5 DEF TokensInv, Abreast
  <2>8. ASSUME NEW u \in Tabs PROVE SeatInv(u)' /\ FlightInv(u)' /\ ApiInv(u)'
    <3>1. SeatInv(u)' /\ ApiInv(u)'
      BY <2>1, <2>5 DEF SeatInv, ApiInv
    <3>2. FlightInv(u)'
      BY <2>1, <2>3, <2>5 DEF FlightInv, SeatInv, TokensInv, Born, Token
    <3> QED BY <3>1, <3>2
  <2> QED BY <2>6, <2>7, <2>8
<1> QED BY <1>1, <1>2, <1>3, <1>4, <1>5 DEF Provider

\* A token grows old. It is in hand, so the record is not behind it, and no
\* request with an older one is under way.
LEMMA AgesInv ==
  ASSUME Inv, NEW r \in Token, Ages(r)
  PROVE  Inv'
<1> USE DEF Inv, Ages, shell, server
<1>1. TypeOK' /\ FamiliesInv' /\ NeverReplayed'
  BY DEF TypeOK, FamiliesInv, NeverReplayed
<1>2. Born(r)
  BY DEF Held, TokensInv, SeatInv, TypeOK, Phases, NoToken, Token, Families
<1>3. CASE due' = due
  <2>1. TokensInv'
    BY <1>3 DEF TokensInv, Abreast, Born
  <2>2. \A u \in Tabs : SeatInv(u)' /\ FlightInv(u)' /\ ApiInv(u)'
    BY <1>3 DEF SeatInv, FlightInv, ApiInv, Born, Owner
  <2> QED BY <1>1, <2>1, <2>2
<1>4. CASE due' = due \cup {r} /\ MayGrowDue(r)
  <2>1. stored.fam = r.fam => stored.gen >= r.gen
    <3>1. CASE r = stored
      BY <3>1 DEF Token, Gens
    <3>2. ASSUME NEW t \in Tabs, seat[t] = r
          PROVE  stored.fam = r.fam => stored.gen >= r.gen
      BY <3>2 DEF TokensInv, TypeOK, MaybeToken, NoToken, Token, Gens
    <3> QED BY <3>1, <3>2 DEF Held
  <2>2. \A s \in wire : s.fam = r.fam => s.gen >= r.gen
    BY <1>4 DEF MayGrowDue, UnderWay
  <2>3. \A u \in Tabs : flight[u] # NoFlight => (flight[u].sent.fam = r.fam => flight[u].sent.gen >= r.gen)
    BY <1>4 DEF MayGrowDue, UnderWay
  <2>4. TokensInv'
    BY <1>2, <1>4, <2>1, <2>2, <2>3 DEF TokensInv, Abreast, Born
  <2>5. \A u \in Tabs : SeatInv(u)' /\ FlightInv(u)' /\ ApiInv(u)'
    BY <1>4 DEF SeatInv, FlightInv, ApiInv, Born, Owner
  <2> QED BY <1>1, <2>4, <2>5
<1> QED BY <1>3, <1>4

\* Every step preserves the invariant.
LEMMA Invariant == Spec => []Inv
<1>1. Inv /\ [Next]_vars => Inv'
  <2> SUFFICES ASSUME Inv, [Next]_vars PROVE Inv'
    OBVIOUS
  <2>1. CASE UNCHANGED vars
    BY <2>1 DEF vars, Inv, TypeOK, FamiliesInv, TokensInv, NeverReplayed, SeatInv, FlightInv,
                ApiInv, Abreast, Born, Owner
  <2>2. ASSUME NEW t \in Tabs, Tab(t) PROVE Inv'
    BY <2>2, BootSteps, RedeemedInv, RenewalSteps, LeaveSteps DEF Tab
  <2>3. CASE Provider
    BY <2>3, ProviderSteps
  <2>4. ASSUME NEW r \in Token, Ages(r) PROVE Inv'
    BY <2>4, AgesInv
  <2> QED BY <2>1, <2>2, <2>3, <2>4 DEF Next
<1> QED BY <1>1, InitInv, PTL DEF Spec

-----------------------------------------------------------------------------
\* The shape of the record, the tabs, what is under way and the sign-ins.
THEOREM TypeCorrect == Spec => []TypeOK
BY Invariant, PTL DEF Inv

\* Whichever tab renews first and whichever answer is lost, the tabs present
\* no token that makes the provider take the account for stolen.
THEOREM NoReplay == Spec => []NeverReplayed
BY Invariant, PTL DEF Inv

-----------------------------------------------------------------------------
\* What a step may do to the account of a token in hand: nothing.
LEMMA OwnersStay ==
  ASSUME Inv, [Next]_vars
  PROVE  \A r : Born(r) => fams'[r.fam].user = fams[r.fam].user /\ Owner(r) = fams[r.fam].user
                           /\ Owner(r)' = Owner(r)
<1>1. \A f \in Families : fams[f].state # "unborn" => fams'[f].user = fams[f].user
  <2> USE DEF Inv, TypeOK
  <2>1. CASE fams' = fams
    BY <2>1
  <2>2. ASSUME NEW t \in Tabs, Redeemed(t)
        PROVE  \A f \in Families : fams[f].state # "unborn" => fams'[f].user = fams[f].user
    BY <2>2 DEF Redeemed, NextFamily
  <2>3. ASSUME NEW r \in Token, Granted(r)
        PROVE  \A f \in Families : fams[f].state # "unborn" => fams'[f].user = fams[f].user
    BY <2>3 DEF Granted, Family
  <2>4. ASSUME NEW t \in Tabs, Refreshes(t)
        PROVE  \A f \in Families : fams[f].state # "unborn" => fams'[f].user = fams[f].user
    <3>1. flight[t].sent \in Token /\ Granted(flight[t].sent)
      BY <2>4 DEF Refreshes, FlightInv, NoFlight
    <3> QED BY <2>3, <3>1
  <2>5. ASSUME NEW r \in Token, Revokes(r)
        PROVE  \A f \in Families : fams[f].state # "unborn" => fams'[f].user = fams[f].user
    BY <2>5 DEF Revokes, Family
  <2> QED BY <2>1, <2>2, <2>3, <2>4, <2>5
       DEF Next, vars, Tab, Provider, Boot, BootWithCode, RedeemFails, RenewEnds, RenewAdopts,
           RenewSends, Renewed, RenewalOver, RenewalPutOff, Calls, CallRefused, SignOut, Leaves,
           RefreshLost, StrayRefresh, Serves, Ages, server
<1> QED BY <1>1 DEF Born, Owner, Token, Families, NoToken

\* What a step does to the session a tab shows.
LEMMA SeatSteps ==
  ASSUME Inv, [Next]_vars, NEW u \in Tabs
  PROVE  \/ seat'[u] = seat[u] \/ seat[u] = NoToken
         \/ /\ seat'[u] = NoToken
            /\ stored' = stored \/ stored = NoToken \/ phase[u] = "leaving" \/ Owner(stored) = Owner(seat[u])
         \/ Born(seat'[u]) /\ Owner(seat'[u]) = Owner(seat[u])
<1> USE DEF Inv, TypeOK
<1> DEFINE Goal ==
         \/ seat'[u] = seat[u] \/ seat[u] = NoToken
         \/ /\ seat'[u] = NoToken
            /\ stored' = stored \/ stored = NoToken \/ phase[u] = "leaving" \/ Owner(stored) = Owner(seat[u])
         \/ Born(seat'[u]) /\ Owner(seat'[u]) = Owner(seat[u])
<1>1. CASE seat' = seat
  BY <1>1
<1>2. ASSUME NEW t \in Tabs, Tab(t)
      PROVE  Goal
  <2>1. CASE Boot(t) \/ Redeemed(t)
    BY <2>1 DEF Boot, Redeemed, SeatInv
  <2>2. CASE RenewAdopts(t)
    BY <2>2 DEF RenewAdopts, SameSubject, TokensInv
  <2>3. CASE Renewed(t)
    <3> DEFINE got == flight[t].got
    <3>1. /\ flight[t] # NoFlight /\ flight[t].sent \in due /\ got.fam = flight[t].sent.fam
          /\ got.gen = fams[got.fam].active /\ got \in MaybeToken /\ Owner(flight[t].sent) = Owner(seat[t])
      BY <2>3 DEF Renewed, NoFlight, FlightInv, Flight
    <3>2. Born(got) /\ Owner(got) = Owner(seat[t])
      BY <3>1 DEF TokensInv, Born, MaybeToken, NoToken, Token, Families, Family, Gens, Owner
    <3> QED BY <2>3, <3>2 DEF Renewed
  <2>4. CASE RenewEnds(t)
    BY <2>4 DEF RenewEnds, Left, Mirrored
  <2>5. CASE RenewalOver(t)
    BY <2>5 DEF RenewalOver, Left, Mirrored, StorageMoved, SameSubject
  <2>6. CASE CallRefused(t)
    <3>1. stored' # stored => stored = NoToken \/ stored.fam = api[t].seat.fam
      BY <2>6 DEF CallRefused, Left, Mirrored, HoldsAnother
    <3>2. Owner(api[t].seat) = Owner(seat[t]) /\ api[t].seat # NoToken
      BY <2>6 DEF CallRefused, ApiInv, NoApi, Born, Token, NoToken, Families
    <3> QED BY <2>6, <3>1, <3>2 DEF CallRefused, Left, Owner
  <2>7. CASE Leaves(t)
    BY <2>7 DEF Leaves, Left
  <2> QED BY <1>1, <1>2, <2>1, <2>2, <2>3, <2>4, <2>5, <2>6, <2>7
          DEF Tab, BootWithCode, RedeemFails, RenewSends, RenewalPutOff, Calls, SignOut
<1>3. CASE Provider
  BY <1>1, <1>3 DEF Provider, Refreshes, RefreshLost, Serves, StrayRefresh, Revokes, shell
<1>4. ASSUME NEW r \in Token, Ages(r)
      PROVE  Goal
  BY <1>1, <1>4 DEF Ages, shell
<1> QED BY <1>1, <1>2, <1>3, <1>4 DEF Next, vars

\* A session that ends leaves another account's record alone, unless the user
\* signs out, and no tab passes from one account to another.
THEOREM Apart == Spec => AccountsApart
<1> DEFINE Holds(t) ==
       /\ (/\ seat[t] # NoToken /\ seat'[t] = NoToken /\ phase[t] # "leaving"
           /\ stored # NoToken /\ Owner(stored) # Owner(seat[t])) => stored' = stored
       /\ (seat[t] # NoToken /\ seat'[t] # NoToken)
            => fams'[seat'[t].fam].user = Owner(seat[t])
<1>1. ASSUME Inv, [Next]_vars, NEW t \in Tabs
      PROVE  Holds(t)
  <2>1. seat[t] = NoToken \/ Born(seat[t])
    BY <1>1 DEF Inv, SeatInv, TypeOK, Phases
  <2>2. \A r : Born(r) => fams'[r.fam].user = Owner(r)
    BY <1>1, OwnersStay
  <2>3. CASE seat'[t] = seat[t]
    <3>1. seat[t] # NoToken => fams'[seat[t].fam].user = Owner(seat[t])
      BY <2>1, <2>2
    <3> QED BY <2>3, <3>1
  <2>4. CASE seat[t] = NoToken
    BY <2>4
  <2>5. CASE /\ seat'[t] = NoToken
             /\ stored' = stored \/ stored = NoToken \/ phase[t] = "leaving" \/ Owner(stored) = Owner(seat[t])
    BY <2>5
  <2>6. CASE Born(seat'[t]) /\ Owner(seat'[t]) = Owner(seat[t])
    <3>1. fams'[seat'[t].fam].user = Owner(seat'[t])
      BY <2>2, <2>6
    <3>2. fams'[seat'[t].fam].user = Owner(seat[t])
      BY <2>6, <3>1
    <3>3. seat'[t] # NoToken
      BY <2>6 DEF Born, Token, NoToken, Families
    <3> QED BY <3>2, <3>3
  <2>7. \/ seat'[t] = seat[t] \/ seat[t] = NoToken
        \/ /\ seat'[t] = NoToken
           /\ stored' = stored \/ stored = NoToken \/ phase[t] = "leaving" \/ Owner(stored) = Owner(seat[t])
        \/ Born(seat'[t]) /\ Owner(seat'[t]) = Owner(seat[t])
    BY <1>1, SeatSteps
  <2> QED BY <2>3, <2>4, <2>5, <2>6, <2>7
<1>2. Inv /\ [Next]_vars => [\A t \in Tabs : Holds(t)]_vars
  BY <1>1
<1> QED BY <1>2, Invariant, PTL DEF Spec, AccountsApart

\* The record changes hands only by a hand-off that was asked for, whatever
\* the tabs renew, adopt or are told too late.
THEOREM SessionKept == Spec => ImplementsSession
<1>1. Init => Session!Init
  BY DEF Init, Session!Init, Owner
<1>2. Inv /\ [Next]_vars => [Session!Next]_<<Owner(stored), asked>>
  <2> SUFFICES ASSUME Inv, [Next]_vars
               PROVE  [Session!Next]_<<Owner(stored), asked>>
    OBVIOUS
  <2> USE DEF Inv, TypeOK
  <2>1. stored' \in {stored, NoToken} => Owner(stored)' \in {Owner(stored), Nobody}
    BY OwnersStay DEF TokensInv, Owner
  <2>2. stored' = stored => Owner(stored)' = Owner(stored)
    BY OwnersStay DEF TokensInv, Owner
  <2>3. CASE stored' \in {stored, NoToken} /\ asked' = asked
    BY <2>1, <2>3 DEF Session!Next, Session!Drop
  <2>4. ASSUME NEW t \in Tabs, Tab(t)
        PROVE  [Session!Next]_<<Owner(stored), asked>>
    <3>1. ASSUME NEW u \in Accounts, NEW invited \in BOOLEAN, BootWithCode(t, u, invited)
          PROVE  [Session!Next]_<<Owner(stored), asked>>
      <4>1. asked[t] = Nobody /\ stored' \in {stored, NoToken}
        BY <3>1 DEF BootWithCode, SeatInv, Mirrored
      <4> QED BY <2>1, <3>1, <4>1 DEF BootWithCode, Session!Next, Session!Ask
    <3>2. CASE Redeemed(t)
      <4>1. asked[t] # Nobody
        BY <3>2 DEF Redeemed, SeatInv
      <4>2. Owner(stored)' = asked[t]
        BY <3>2 DEF Redeemed, Mirrored, Owner, NoToken, Families
      <4> QED BY <3>2, <4>1, <4>2 DEF Redeemed, Session!Next, Session!Answered
    <3>3. CASE RedeemFails(t)
      <4>1. asked[t] # Nobody
        BY <3>3 DEF RedeemFails, SeatInv
      <4> QED BY <2>2, <3>3, <4>1 DEF RedeemFails, Session!Next, Session!Answered
    <3>4. CASE Renewed(t)
      <4> DEFINE got == flight[t].got
      <4>1. /\ flight[t] # NoFlight /\ flight[t].sent \in due /\ got.fam = flight[t].sent.fam
            /\ Owner(flight[t].sent) = Owner(seat[t]) /\ Owner(stored) = Owner(seat[t])
        BY <3>4 DEF Renewed, NoFlight, FlightInv, StorageMoved, SameSubject
      <4>2. got # NoToken /\ flight[t].sent # NoToken
        BY <4>1 DEF TokensInv, Born, Token, NoToken, Families
      <4>3. Owner(stored)' = Owner(stored)
        BY <3>4, <4>1, <4>2 DEF Renewed, Owner, server
      <4> QED BY <3>4, <4>3 DEF Renewed
    <3>5. CASE Boot(t) \/ RenewAdopts(t) \/ RenewSends(t) \/ RenewalPutOff(t) \/ Calls(t) \/ SignOut(t)
      BY <2>3, <3>5 DEF Boot, Mirrored, RenewAdopts, RenewSends, RenewalPutOff, Calls, SignOut
    <3>6. CASE RenewEnds(t) \/ RenewalOver(t) \/ CallRefused(t) \/ Leaves(t)
      BY <2>3, <3>6 DEF RenewEnds, RenewalOver, CallRefused, Leaves, Left, Mirrored
    <3> QED BY <2>4, <3>1, <3>2, <3>3, <3>4, <3>5, <3>6 DEF Tab
  <2>5. CASE UNCHANGED vars
    BY <2>3, <2>5 DEF vars
  <2>6. CASE Provider
    BY <2>3, <2>6 DEF Provider, Refreshes, RefreshLost, Serves, StrayRefresh, Revokes, shell
  <2>7. ASSUME NEW r \in Token, Ages(r)
        PROVE  [Session!Next]_<<Owner(stored), asked>>
    BY <2>3, <2>7 DEF Ages, shell
  <2> QED BY <2>4, <2>5, <2>6, <2>7 DEF Next
<1> QED BY <1>1, <1>2, Invariant, PTL DEF Spec, ImplementsSession, Session!Spec
=============================================================================
