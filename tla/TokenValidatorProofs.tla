------------------------- MODULE TokenValidatorProofs -------------------------
(***************************************************************************)
(* Proofs about TokenValidator, for any configurations that Init takes, any *)
(* tokens, endpoints and key sets: exactly the admissible tokens pass, the  *)
(* claims of a token are judged only when it is genuine, and the types.     *)
(*                                                                         *)
(* Each list of checks says what it asks of a token (ScreeningMeans,        *)
(* ParsingMeans, VerifyMeans), and the three together ask for an admissible *)
(* one (AdmissibleMeans).  Between them stands the lookup of the key: the   *)
(* key that it finds is the token's exactly if the keys which are cached    *)
(* for the first entry of the token's issuer sign it (OwnKeyDecides), and   *)
(* the invariant (TInv) carries that to the verdict.                        *)
(***************************************************************************)
EXTENDS TokenValidator, SequenceTheorems, WellFoundedInduction, TLAPS

-----------------------------------------------------------------------------
(* The first of a list. *)

LEMMA LeastOfNaturals ==
    ASSUME NEW S \in SUBSET Nat, S # {}
    PROVE  Min(S) \in S /\ \A m \in S : Min(S) <= m
<1> DEFINE R == {ss \in Nat \X Nat : ss[1] < ss[2]}
<1>1. IsWellFoundedOn(R, Nat)
  BY NatLessThanWellFounded DEF OpToRel
<1>2. PICK n \in S : \A m \in S : <<m, n>> \notin R
  <2> HIDE DEF R
  <2> QED
    BY <1>1, WFMin
<1>3. ASSUME NEW m \in S
      PROVE  n <= m
  <2>1. m \in Nat /\ n \in Nat
    OBVIOUS
  <2>2. <<m, n>> \in Nat \X Nat
    BY <2>1
  <2>3. <<m, n>>[1] = m /\ <<m, n>>[2] = n
    OBVIOUS
  <2>4. ~(m < n)
    BY <1>2, <2>2, <2>3, Zenon
  <2> QED
    BY <2>1, <2>4
<1> QED
  BY <1>3 DEF Min

\* First is the least index of a check that fails, and 0 if there is none.
LEMMA FirstIsLeast ==
    ASSUME NEW checks, Len(checks) \in Nat
    PROVE  /\ First(checks) = 0 => \A i \in 1 .. Len(checks) : ~checks[i].fails
           /\ First(checks) # 0 =>
                /\ First(checks) \in 1 .. Len(checks)
                /\ checks[First(checks)].fails
                /\ \A i \in 1 .. Len(checks) : i < First(checks) => ~checks[i].fails
<1> DEFINE I == {i \in 1 .. Len(checks) : checks[i].fails}
<1>1. First(checks) = IF I # {} THEN Min(I) ELSE 0
  BY DEF First, SelectInSeq
<1>2. I \in SUBSET Nat
  OBVIOUS
<1>3. I # {} => Min(I) \in I /\ \A m \in I : Min(I) <= m
  <2> HIDE DEF I
  <2> QED
    BY <1>2, LeastOfNaturals
<1>4. \A m \in Nat : m \in 1 .. Len(checks) => m # 0
  OBVIOUS
<1>5. CASE I = {}
  BY <1>1, <1>5
<1>6. CASE I # {}
  <2>1. First(checks) \in I /\ \A m \in I : First(checks) <= m
    BY <1>1, <1>3, <1>6
  <2>2. First(checks) \in 1 .. Len(checks) /\ checks[First(checks)].fails
    BY <2>1
  <2>3. ASSUME NEW i \in 1 .. Len(checks), i < First(checks)
        PROVE  ~checks[i].fails
    BY <2>1, <2>2, <2>3
  <2> QED
    BY <1>4, <2>2, <2>3
<1> QED
  BY <1>5, <1>6

\* The first of three checks, of five, and of six when the first comes before the others.
LEMMA FirstOfThree ==
    ASSUME NEW a, NEW b, NEW c, NEW s, s = <<a, b, c>>
    PROVE  /\ First(s) = 0 => ~a.fails /\ ~b.fails /\ ~c.fails
           /\ First(s) # 0 => \E x \in {a, b, c} : s[First(s)] = x /\ x.fails
<1>1. Len(s) = 3 /\ s[1] = a /\ s[2] = b /\ s[3] = c
  OBVIOUS
<1>2. 1 .. Len(s) = {1, 2, 3}
  BY <1>1
<1>3. /\ First(s) = 0 => \A i \in {1, 2, 3} : ~s[i].fails
      /\ First(s) # 0 => First(s) \in {1, 2, 3} /\ s[First(s)].fails
  BY <1>1, <1>2, FirstIsLeast
<1> QED
  BY <1>1, <1>3, Zenon

LEMMA FirstOfFive ==
    ASSUME NEW a, NEW b, NEW c, NEW d, NEW e, NEW s, s = <<a, b, c, d, e>>
    PROVE  /\ First(s) = 0 => ~a.fails /\ ~b.fails /\ ~c.fails /\ ~d.fails /\ ~e.fails
           /\ First(s) # 0 => \E x \in {a, b, c, d, e} : s[First(s)] = x /\ x.fails
<1>1. Len(s) = 5 /\ s[1] = a /\ s[2] = b /\ s[3] = c /\ s[4] = d /\ s[5] = e
  OBVIOUS
<1>2. /\ 1 .. Len(s) = {1, 2, 3, 4, 5}
      /\ Len(s) \in Nat
  BY <1>1
<1>3. /\ First(s) = 0 => \A i \in {1, 2, 3, 4, 5} : ~s[i].fails
      /\ First(s) # 0 => First(s) \in {1, 2, 3, 4, 5} /\ s[First(s)].fails
  <2>1. /\ First(s) = 0 => \A i \in 1 .. Len(s) : ~s[i].fails
        /\ First(s) # 0 => First(s) \in 1 .. Len(s) /\ s[First(s)].fails
    BY <1>2, FirstIsLeast, Zenon
  <2> QED
    BY <1>2, <2>1, Zenon
<1>4. First(s) = 0 => ~a.fails /\ ~b.fails /\ ~c.fails /\ ~d.fails /\ ~e.fails
  BY <1>1, <1>3, Zenon
<1>5. First(s) \in {1, 2, 3, 4, 5} => s[First(s)] \in {a, b, c, d, e}
  BY <1>1, Zenon
<1> QED
  BY <1>3, <1>4, <1>5, Zenon

LEMMA FirstAfterOne ==
    ASSUME NEW s, Len(s) = 6
    PROVE  /\ First(s) = 0 =>
                ~s[1].fails /\ ~s[2].fails /\ ~s[3].fails
                /\ ~s[4].fails /\ ~s[5].fails /\ ~s[6].fails
           /\ First(s) # 0 =>
                /\ s[First(s)].fails
                /\ \/ First(s) = 1
                   \/ ~s[1].fails /\ First(s) \in {2, 3, 4, 5, 6}
<1> DEFINE f == First(s)
<1>1. /\ f = 0 => \A i \in 1 .. Len(s) : ~s[i].fails
      /\ f # 0 =>
           /\ f \in 1 .. Len(s)
           /\ s[f].fails
           /\ \A i \in 1 .. Len(s) : i < f => ~s[i].fails
  <2>1. Len(s) \in Nat
    OBVIOUS
  <2> QED
    BY <2>1, FirstIsLeast, Zenon
<1> HIDE DEF f
<1>2. /\ 1 \in 1 .. Len(s) /\ 2 \in 1 .. Len(s) /\ 3 \in 1 .. Len(s)
      /\ 4 \in 1 .. Len(s) /\ 5 \in 1 .. Len(s) /\ 6 \in 1 .. Len(s)
  OBVIOUS
<1>3. f = 0 => ~s[1].fails /\ ~s[2].fails /\ ~s[3].fails
               /\ ~s[4].fails /\ ~s[5].fails /\ ~s[6].fails
  BY <1>1, <1>2, Zenon
<1>4. ASSUME f # 0
      PROVE  s[f].fails /\ (f = 1 \/ (~s[1].fails /\ f \in {2, 3, 4, 5, 6}))
  <2>1. f \in 1 .. Len(s) /\ s[f].fails /\ (1 < f => ~s[1].fails)
    BY <1>1, <1>2, <1>4, Zenon
  <2>2. f = 1 \/ (1 < f /\ f \in {2, 3, 4, 5, 6})
    BY <2>1
  <2> QED
    BY <2>1, <2>2, Zenon
<1> QED
  BY <1>3, <1>4 DEF f

-----------------------------------------------------------------------------
(* What a configuration gives. *)

Configured == raw \in Configs /\ tv = TVInit(TVZero, raw).tv

LEMMA RangesAreNatural == BytesRange \subseteq Nat /\ SkewRange \subseteq Nat
BY DEF BytesRange, SkewRange

LEMMA ConfigFacts ==
    ASSUME Configured
    PROVE  /\ tv.v2 \in BOOLEAN
           /\ tv.skew \in Nat
           /\ tv.v2 => tv.maxBytes \in Nat \ {0}
           /\ ~tv.v2 /\ ~tv.testMode => tv.jwks # ""
<1>1. ~TVInit(TVZero, raw).error
  BY ConfigsAssumption DEF Configured, InitTakes
<1>2. CASE IsV2Config(raw)
  <2>1. tv = [InitV2(TVZero, raw).tv EXCEPT !.v2 = IsV2Config(raw)]
    BY <1>2 DEF Configured, TVInit
  <2>2. tv.v2 /\ tv.maxBytes = MaxBytes(raw) /\ tv.skew = Skew(raw)
    BY <1>2, <2>1 DEF InitV2, TVZero, IsV2Config
  <2>3. ~V2Error(raw)
    BY <1>1, <1>2 DEF TVInit, InitV2
  <2>4. MaxBytes(raw) \in BytesRange /\ Skew(raw) \in SkewRange
    BY <2>3 DEF V2Error
  <2>5. MaxBytes(raw) \in Nat /\ Skew(raw) \in Nat
    BY <2>4, RangesAreNatural, Zenon
  <2>6. MaxBytes(raw) # 0
    BY DEF MaxBytes
  <2>7. tv.v2 = TRUE
    BY <1>2, <2>1 DEF InitV2, TVZero, IsV2Config
  <2> QED
    BY <2>2, <2>5, <2>6, <2>7
<1>3. CASE ~IsV2Config(raw)
  <2>1. tv = [InitV1(TVZero, raw).tv EXCEPT !.v2 = IsV2Config(raw)]
    BY <1>3 DEF Configured, TVInit
  <2>2. tv.v2 = FALSE /\ tv.skew = 0
    BY <1>3, <2>1 DEF InitV1, TVZero, IsV2Config
  <2>3. ~InitV1(TVZero, raw).error
    BY <1>1, <1>3 DEF TVInit
  <2>4. TestMode(raw) => tv.testMode
    <3>1. TestMode(raw) => InitV1(TVZero, raw).tv.testMode
      BY DEF InitV1, TVZero
    <3> QED
      BY <2>1, <3>1
  <2>5. ~TestMode(raw) => tv.jwks = JWKSURL(raw)
    BY <2>1 DEF InitV1, TVZero
  <2>6. ~TestMode(raw) => JWKSURL(raw) # ""
    BY <2>3 DEF InitV1
  <2>7. ~tv.testMode => tv.jwks # ""
    <3>1. CASE TestMode(raw)
      BY <2>4, <3>1
    <3>2. CASE ~TestMode(raw)
      BY <2>5, <2>6, <3>2
    <3> QED
      BY <3>1, <3>2
  <2>8. ~tv.v2 /\ tv.v2 \in BOOLEAN
    BY <2>2, Zenon
  <2>9. tv.skew \in Nat
    BY <2>2, SMT
  <2> QED
    BY <2>7, <2>8, <2>9, Zenon
<1> QED
  BY <1>2, <1>3

LEMMA DomainOfOne ==
    ASSUME NEW S, NEW e \in S
    PROVE  DOMAIN <<e>> = 1 .. 1
OBVIOUS

LEMMA LenOfOne ==
    ASSUME NEW S, NEW e \in S
    PROVE  Len(<<e>>) = 1 /\ <<e>>[1] = e
OBVIOUS

LEMMA OneEntry ==
    ASSUME NEW u, NEW v, v = <<[issuer |-> "", url |-> u]>>
    PROVE  Len(v) = 1 /\ DOMAIN v = 1 .. 1 /\ v[1].issuer = ""
<1> DEFINE e == [issuer |-> "", url |-> u]
<1>1. e \in {e} /\ e.issuer = ""
  OBVIOUS
<1>2. v = <<e>>
  OBVIOUS
<1> HIDE DEF e
<1> QED
  BY <1>1, <1>2, DomainOfOne, LenOfOne, Zenon

LEMMA UpToOne == 1 .. 1 = {1}
OBVIOUS

LEMMA Indices ==
    ASSUME NEW n
    PROVE  1 .. n \in SUBSET Nat /\ 0 \notin 1 .. n
<1>1. 1 .. n \subseteq Nat
  OBVIOUS
<1>2. 0 \notin 1 .. n
  OBVIOUS
<1> QED
  BY <1>1, <1>2, Zenon

\* An entry without an issuer, when there is one, is the only entry.
LEMMA ValidatorsFacts ==
    ASSUME Configured, ~tv.testMode
    PROVE  /\ Len(Validators) \in Nat /\ DOMAIN Validators = 1 .. Len(Validators)
           /\ \/ \A i \in 1 .. Len(Validators) : Validators[i].issuer # ""
              \/ Len(Validators) = 1 /\ Validators[1].issuer = ""
           /\ ~tv.v2 => Len(Validators) = 1 /\ Validators[1].issuer = ""
<1>1. ASSUME NEW u, Validators = <<[issuer |-> "", url |-> u]>>
      PROVE  /\ DOMAIN Validators = 1 .. Len(Validators)
             /\ Len(Validators) = 1 /\ Validators[1].issuer = ""
  BY <1>1, OneEntry, Zenon
<1>2. CASE ~tv.v2
  <2>1. Validators = <<[issuer |-> "", url |-> tv.jwks]>>
    BY <1>2, ConfigFacts DEF Validators, V1Pool
  <2> QED
    BY <1>1, <1>2, <2>1
<1>3. CASE tv.v2
  <2>1. tv.v2 = IsV2Config(raw)
    BY DEF Configured, TVInit, InitV1, InitV2, TVZero
  <2>2. ~TVInit(TVZero, raw).error
    BY ConfigsAssumption DEF Configured, InitTakes
  <2>3. tv = [InitV2(TVZero, raw).tv EXCEPT !.v2 = IsV2Config(raw)]
    BY <1>3, <2>1 DEF Configured, TVInit
  <2>4. ~V2Error(raw)
    BY <1>3, <2>1, <2>2 DEF TVInit, InitV2
  <2>5. ~TestMode(raw)
    BY <2>3 DEF InitV2, TVZero
  <2>6. Validators = Pool(raw)
    BY <1>3, <2>3, <2>5 DEF Validators, InitV2, TVZero
  <2>7. CASE IsShim(raw)
    BY <1>1, <1>3, <2>6, <2>7 DEF Pool
  <2>8. CASE ~IsShim(raw)
    <3>1. ~IssuersFail(raw)
      BY <2>4, <2>5 DEF V2Error
    <3>2. Issuers(raw) \in Seq(ToSet(Issuers(raw)))
      BY ConfigsAssumption DEF Configured, InitTakes
    <3>3. /\ Len(Issuers(raw)) \in Nat
          /\ DOMAIN Issuers(raw) = 1 .. Len(Issuers(raw))
      BY <3>2
    <3>4. Validators = [i \in DOMAIN Issuers(raw) |->
              [issuer |-> Issuers(raw)[i].issuer, url |-> Issuers(raw)[i].jwks_url]]
      BY <2>6, <2>8 DEF Pool
    <3>5. ASSUME NEW i \in DOMAIN Issuers(raw)
          PROVE  Validators[i].issuer # ""
      <4>1. Get(Issuers(raw)[i], "issuer", "") # ""
        BY <3>1 DEF IssuersFail
      <4> QED
        BY <3>4, <4>1 DEF Get
    <3>6. Len(Validators) = Len(Issuers(raw)) /\ DOMAIN Validators = DOMAIN Issuers(raw)
      BY <3>3, <3>4
    <3> QED
      BY <1>3, <3>3, <3>5, <3>6
  <2> QED
    BY <2>7, <2>8
<1> QED
  BY <1>2, <1>3, Zenon

LEMMA TheFirstIsChosen ==
    ASSUME NEW k \in Nat
    PROVE  Max({k}) = k
BY DEF Max

\* findValidator finds the first entry that speaks for the token's issuer.
LEMMA FindsTheFirstOwn ==
    ASSUME Configured, ~tv.testMode, NEW t
    PROVE  /\ FindValidator(t.iss) \in Nat
           /\ FindValidator(t.iss) = 0 => Own(t) = {}
           /\ FindValidator(t.iss) # 0 =>
                /\ FindValidator(t.iss) \in Own(t)
                /\ \A j \in Own(t) : FindValidator(t.iss) <= j
           /\ ~tv.v2 => FindValidator(t.iss) # 0
<1> DEFINE N == {i \in 1 .. Len(Validators) : Validators[i].issuer = t.iss}
           E == {i \in 1 .. Len(Validators) : Validators[i].issuer = ""}
           f == FindValidator(t.iss)
<1>1. f = IF N # {} THEN Min(N) ELSE IF E # {} THEN Max(E) ELSE 0
  <2>1. N # {} => Min(N) \in N
    <3>1. N \in SUBSET Nat
      OBVIOUS
    <3> HIDE DEF N
    <3> QED
      BY <3>1, LeastOfNaturals
  <2>2. \A i \in N : i # 0
    OBVIOUS
  <2>3. FindValidator(t.iss) =
          LET named == IF N # {} THEN Min(N) ELSE 0
          IN IF named # 0 THEN named ELSE IF E # {} THEN Max(E) ELSE 0
    BY DEF FindValidator, SelectInSeq, SelectLastInSeq
  <2> HIDE DEF N, E
  <2> QED
    BY <2>1, <2>2, <2>3
<1>2. Own(t) = N \cup E
  BY ValidatorsFacts DEF Own
<1>3. N \in SUBSET Nat /\ E \in SUBSET Nat /\ 0 \notin N /\ 0 \notin E
  BY Indices, Zenon
<1>4. CASE Len(Validators) = 1 /\ Validators[1].issuer = ""
  <2>1. E = {1} /\ N \subseteq {1}
    <3>1. 1 .. Len(Validators) = {1}
      BY <1>4, UpToOne, Zenon
    <3> QED
      BY <1>4, <3>1, Zenon
  <2>2. Max(E) = 1
    BY <2>1, TheFirstIsChosen
  <2>3. N # {} => Min(N) = 1
    <3> HIDE DEF N
    <3> QED
      BY <1>3, <2>1, LeastOfNaturals
  <2>4. f = 1
    <3> HIDE DEF N, E, f
    <3> QED
      BY <1>1, <2>1, <2>2, <2>3
  <2>5. Own(t) = {1}
    BY <1>2, <2>1
  <2>6. f \in Nat /\ f # 0 /\ f \in Own(t) /\ \A j \in Own(t) : f <= j
    BY <2>4, <2>5
  <2> QED
    BY <2>6, Zenon
<1>5. CASE \A i \in 1 .. Len(Validators) : Validators[i].issuer # ""
  <2>1. E = {}
    BY <1>5
  <2>2. tv.v2
    <3>1. 1 \in 1 .. 1
      OBVIOUS
    <3> QED
      BY <1>5, <3>1, ValidatorsFacts, Zenon
  <2>3. N # {} => Min(N) \in N /\ \A j \in N : Min(N) <= j
    <3> HIDE DEF N
    <3> QED
      BY <1>3, LeastOfNaturals
  <2>4. Own(t) = N
    BY <1>2, <2>1
  <2>5. f = IF N # {} THEN Min(N) ELSE 0
    BY <1>1, <2>1
  <2>6. CASE N = {}
    <3>1. f = 0 /\ f \in Nat
      BY <2>5, <2>6
    <3> QED
      BY <2>2, <2>4, <2>6, <3>1, Zenon
  <2>7. CASE N # {}
    <3> HIDE DEF N, f
    <3>1. f \in Nat /\ f # 0 /\ f \in Own(t) /\ \A j \in Own(t) : f <= j
      BY <1>3, <2>3, <2>4, <2>5, <2>7
    <3> QED
      BY <3>1, Zenon DEF f
  <2> QED
    BY <2>6, <2>7
<1> QED
  BY <1>4, <1>5, ValidatorsFacts

-----------------------------------------------------------------------------
(* What each list of checks asks. *)

ScreenedOut(t) ==
    \/ ~Carried(t)
    \/ tv.v2 /\ tv.maxBytes > 0 /\ t.size > tv.maxBytes
    \/ tv.v2 /\ ~tv.testMode /\ ~WellFormed(t)
    \/ tv.v2 /\ ~tv.testMode /\ t.alg \notin tv.algorithms
    \/ tv.v2 /\ ~tv.testMode /\ FindValidator(t.iss) = 0

ParsedOut(t) ==
    \/ ~WellFormed(t)
    \/ t.alg \notin Methods
    \/ ~tv.testMode /\ t.alg \notin RSA

ClaimedOut(t) ==
    \/ tv.v2 /\ Expired(t)
    \/ tv.v2 /\ NotYet(t)
    \/ t.exp = NoExp \/ Expired(t) \/ NotYet(t) \/ ~V1Audience(t)
    \/ tv.v2 /\ tv.audiences # {} /\ t.aud \cap tv.audiences = {}
    \/ tv.v2 /\ ~(tv.required \subseteq t.claims)

\* The signature is one of the token's issuer, as Genuine has it, when the
\* cached keys are ks.
SignedAt(ks, t) ==
    IF tv.testMode THEN t.key = tv.secret
    ELSE \E i \in Own(t) :
            /\ \A j \in Own(t) : i <= j
            /\ t.kid \in DOMAIN ks[i]
            /\ ks[i][t.kid] = t.key

Signed(t) == SignedAt(keys, t)

EarlyCodes == {"MISSING_TOKEN", "OVERSIZED_TOKEN", "INVALID_TOKEN",
               "DISALLOWED_ALGORITHM", "UNKNOWN_ISSUER"}

LEMMA ScreeningMeans ==
    ASSUME NEW t
    PROVE  /\ First(Screening(t)) = 0 => ~ScreenedOut(t)
           /\ First(Screening(t)) # 0 =>
                /\ ScreenedOut(t)
                /\ Screening(t)[First(Screening(t))].code \in EarlyCodes
                /\ Screening(t)[First(Screening(t))].kind \in FailureKinds
<1> DEFINE A == ~Carried(t)
           B == tv.v2 /\ tv.maxBytes > 0 /\ t.size > tv.maxBytes
           C == tv.v2 /\ ~tv.testMode /\ ~WellFormed(t)
           D == tv.v2 /\ ~tv.testMode /\ t.alg \notin tv.algorithms
           E == tv.v2 /\ ~tv.testMode /\ FindValidator(t.iss) = 0
           a == Check(A, "MISSING_TOKEN", "missing_token")
           b == Check(B, "OVERSIZED_TOKEN", "oversized_token")
           c == Check(C, "INVALID_TOKEN", "invalid_signature")
           d == Check(D, "DISALLOWED_ALGORITHM", "disallowed_algorithm")
           e == Check(E, "UNKNOWN_ISSUER", "unknown_issuer")
<1>1. Screening(t) = <<a, b, c, d, e>>
  BY DEF Screening
<1>2. ScreenedOut(t) <=> A \/ B \/ C \/ D \/ E
  BY Zenon DEF ScreenedOut
<1> HIDE DEF A, B, C, D, E
<1>3. a.fails = A /\ b.fails = B /\ c.fails = C /\ d.fails = D /\ e.fails = E
  BY DEF Check
<1>4. \A x \in {a, b, c, d, e} : x.code \in EarlyCodes /\ x.kind \in FailureKinds
  BY DEF Check, EarlyCodes, FailureKinds
<1> HIDE DEF a, b, c, d, e
<1>5. /\ First(Screening(t)) = 0 => ~a.fails /\ ~b.fails /\ ~c.fails /\ ~d.fails /\ ~e.fails
      /\ First(Screening(t)) # 0 =>
           \E x \in {a, b, c, d, e} : Screening(t)[First(Screening(t))] = x /\ x.fails
  BY <1>1, FirstOfFive
<1> QED
  BY <1>2, <1>3, <1>4, <1>5, Zenon

LEMMA ParsingMeans ==
    ASSUME NEW t
    PROVE  /\ First(Parsing(t)) = 0 => ~ParsedOut(t)
           /\ First(Parsing(t)) # 0 =>
                /\ ParsedOut(t)
                /\ Parsing(t)[First(Parsing(t))].code = "INVALID_TOKEN"
                /\ Parsing(t)[First(Parsing(t))].kind \in FailureKinds
<1> DEFINE A == ~WellFormed(t)
           B == t.alg \notin Methods
           C == ~tv.testMode /\ t.alg \notin RSA
           a == Check(A, "INVALID_TOKEN", "invalid_signature")
           b == Check(B, "INVALID_TOKEN", "invalid_signature")
           c == Check(C, "INVALID_TOKEN", "invalid_signature")
<1>1. Parsing(t) = <<a, b, c>>
  BY DEF Parsing
<1>2. ParsedOut(t) <=> A \/ B \/ C
  BY Zenon DEF ParsedOut
<1> HIDE DEF A, B, C
<1>3. a.fails = A /\ b.fails = B /\ c.fails = C
  BY DEF Check
<1>4. \A x \in {a, b, c} : x.code = "INVALID_TOKEN" /\ x.kind \in FailureKinds
  BY DEF Check, FailureKinds
<1> HIDE DEF a, b, c
<1>5. /\ First(Parsing(t)) = 0 => ~a.fails /\ ~b.fails /\ ~c.fails
      /\ First(Parsing(t)) # 0 =>
           \E x \in {a, b, c} : Parsing(t)[First(Parsing(t))] = x /\ x.fails
  BY <1>1, FirstOfThree
<1> QED
  BY <1>2, <1>3, <1>4, <1>5, Zenon

\* The claims' checks are reached only when the signature's has passed.
LEMMA VerifyMeans ==
    ASSUME NEW t, NEW checks, checks = Signature(t) \o Claims(t)
    PROVE  /\ First(checks) = 0 => t.key = found /\ ~ClaimedOut(t)
           /\ First(checks) # 0 =>
                /\ checks[First(checks)].kind \in FailureKinds
                /\ \/ t.key # found /\ checks[First(checks)].code = "INVALID_TOKEN"
                   \/ /\ t.key = found /\ ClaimedOut(t)
                      /\ checks[First(checks)].code \in ClaimsCodes \cup {"INVALID_TOKEN"}
<1> DEFINE Z == t.key # found
           A == tv.v2 /\ Expired(t)
           B == tv.v2 /\ NotYet(t)
           C == t.exp = NoExp \/ Expired(t) \/ NotYet(t) \/ ~V1Audience(t)
           D == tv.v2 /\ tv.audiences # {} /\ t.aud \cap tv.audiences = {}
           E == tv.v2 /\ ~(tv.required \subseteq t.claims)
           z == Check(Z, "INVALID_TOKEN", "invalid_signature")
           a == Check(A, "TOKEN_EXPIRED", "expired")
           b == Check(B, "TOKEN_NOT_YET_VALID", "not_yet_valid")
           c == Check(C, "INVALID_TOKEN", "invalid_signature")
           d == Check(D, "AUDIENCE_MISMATCH", "audience_mismatch")
           e == Check(E, "REQUIRED_CLAIM_MISSING", "required_claim_missing")
<1>1. Signature(t) = <<z>> /\ Claims(t) = <<a, b, c, d, e>>
  BY DEF Signature, Claims
<1>2. ClaimedOut(t) <=> A \/ B \/ C \/ D \/ E
  BY Zenon DEF ClaimedOut
<1>3. Z <=> t.key # found
  OBVIOUS
<1> HIDE DEF A, B, C, D, E, Z
<1>4. /\ z.fails = Z
      /\ a.fails = A /\ b.fails = B /\ c.fails = C /\ d.fails = D /\ e.fails = E
  BY DEF Check
<1>5. /\ z.code = "INVALID_TOKEN" /\ z.kind \in FailureKinds
      /\ \A x \in {a, b, c, d, e} :
            x.code \in ClaimsCodes \cup {"INVALID_TOKEN"} /\ x.kind \in FailureKinds
  BY DEF Check, ClaimsCodes, FailureKinds
<1> HIDE DEF z, a, b, c, d, e
<1>6. /\ First(checks) = 0 =>
            ~z.fails /\ ~a.fails /\ ~b.fails /\ ~c.fails /\ ~d.fails /\ ~e.fails
      /\ First(checks) # 0 =>
            \/ z.fails /\ checks[First(checks)] = z
            \/ ~z.fails /\ \E x \in {a, b, c, d, e} : checks[First(checks)] = x /\ x.fails
  <2>1. /\ Len(checks) = 6 /\ checks[1] = z /\ checks[2] = a /\ checks[3] = b
        /\ checks[4] = c /\ checks[5] = d /\ checks[6] = e
    BY <1>1
  <2> DEFINE f == First(checks)
  <2>2. /\ f = 0 => ~checks[1].fails /\ ~checks[2].fails /\ ~checks[3].fails
                    /\ ~checks[4].fails /\ ~checks[5].fails /\ ~checks[6].fails
        /\ f # 0 => /\ checks[f].fails
                    /\ f = 1 \/ (~checks[1].fails /\ f \in {2, 3, 4, 5, 6})
    BY <2>1, FirstAfterOne, Zenon
  <2> HIDE DEF f
  <2>3. f = 0 => ~z.fails /\ ~a.fails /\ ~b.fails /\ ~c.fails /\ ~d.fails /\ ~e.fails
    BY <2>1, <2>2, Zenon
  <2>4. f = 1 => z.fails /\ checks[f] = z
    BY <2>1, <2>2
  <2>5. f \in {2, 3, 4, 5, 6} => checks[f] \in {a, b, c, d, e}
    BY <2>1, Zenon
  <2>6. f # 0 => \/ z.fails /\ checks[f] = z
                 \/ ~z.fails /\ \E x \in {a, b, c, d, e} : checks[f] = x /\ x.fails
    BY <2>1, <2>2, <2>4, <2>5, Zenon
  <2> QED
    BY <2>3, <2>6, Zenon DEF f
<1> QED
  BY <1>2, <1>3, <1>4, <1>5, <1>6, Zenon

\* The three lists together ask exactly for an admissible token.
LEMMA ClaimsInTime ==
    ASSUME Configured, NEW t \in Tokens
    PROVE  ~ClaimedOut(t) <=>
             /\ t.exp # NoExp /\ t.exp + tv.skew > Now
             /\ t.nbf - tv.skew <= Now
             /\ tv.v2 /\ tv.audiences # {} => \E a \in tv.audiences : a \in t.aud
             /\ ~tv.v2 /\ tv.audience # "" => tv.audience \in t.aud
             /\ tv.v2 => \A c \in tv.required : c \in t.claims
<1>1. t.exp \in Int /\ t.nbf \in Int /\ Now \in Int /\ tv.skew \in Int
  <2>1. tv.skew \in Nat
    BY ConfigFacts, Zenon
  <2>2. tv.skew \in Int
    BY <2>1
  <2> QED
    BY <2>2, TokensAssumption, NowAssumption, Zenon
<1>2. ~Expired(t) <=> t.exp = NoExp \/ t.exp + tv.skew > Now
  <2>1. Now < t.exp + tv.skew <=> t.exp + tv.skew > Now
    BY <1>1
  <2> QED
    BY <2>1, Zenon DEF Expired
<1>3. ~NotYet(t) <=> t.nbf - tv.skew <= Now
  BY <1>1 DEF NotYet
<1>4. t.aud \cap tv.audiences = {} <=> ~\E a \in tv.audiences : a \in t.aud
  OBVIOUS
<1>5. tv.required \subseteq t.claims <=> \A c \in tv.required : c \in t.claims
  OBVIOUS
<1>6. V1Audience(t) <=> (~tv.v2 /\ tv.audience # "" => tv.audience \in t.aud)
  BY Zenon DEF V1Audience
<1>7. ~ClaimedOut(t) <=>
         /\ t.exp # NoExp /\ ~Expired(t) /\ ~NotYet(t) /\ V1Audience(t)
         /\ ~(tv.v2 /\ tv.audiences # {} /\ t.aud \cap tv.audiences = {})
         /\ ~(tv.v2 /\ ~(tv.required \subseteq t.claims))
  BY Zenon DEF ClaimedOut
<1>8. ~(tv.v2 /\ tv.audiences # {} /\ t.aud \cap tv.audiences = {}) <=>
         (tv.v2 /\ tv.audiences # {} => \E a \in tv.audiences : a \in t.aud)
  BY <1>4, Zenon
<1>9. ~(tv.v2 /\ ~(tv.required \subseteq t.claims)) <=>
         (tv.v2 => \A c \in tv.required : c \in t.claims)
  BY <1>5, Zenon
<1> HIDE DEF ClaimedOut
<1> QED
  BY <1>2, <1>3, <1>6, <1>7, <1>8, <1>9, Zenon

LEMMA GenuineMeans ==
    ASSUME NEW t
    PROVE  Genuine(t) <=> ~ParsedOut(t) /\ Signed(t)
BY Zenon DEF Genuine, ParsedOut, Signed, SignedAt

LEMMA AdmissibleMeans ==
    ASSUME Configured, NEW t \in Tokens
    PROVE  /\ ScreenedOut(t) => ~Admissible(t)
           /\ ~ScreenedOut(t) =>
                (Admissible(t) <=> ~ParsedOut(t) /\ Signed(t) /\ ~ClaimedOut(t))
<1>1. tv.v2 => ((tv.maxBytes > 0 /\ t.size > tv.maxBytes) <=> ~(t.size <= tv.maxBytes))
  <2>1. t.size \in Nat
    BY TokensAssumption
  <2>2. ASSUME tv.v2 PROVE tv.maxBytes \in Nat \ {0}
    BY <2>2, ConfigFacts
  <2>3. ASSUME NEW m \in Nat \ {0}
        PROVE  (m > 0 /\ t.size > m) <=> ~(t.size <= m)
    BY <2>1
  <2> QED
    BY <2>2, <2>3, Zenon
<1>2. Admissible(t) <=>
         Carried(t) /\ Genuine(t) /\ (tv.v2 => t.size <= tv.maxBytes) /\ ~ClaimedOut(t)
  BY ClaimsInTime, Zenon DEF Admissible
<1>3. ScreenedOut(t) => ~Admissible(t)
  <2>1. tv.v2 /\ ~tv.testMode => Methods = tv.algorithms
    BY DEF Methods
  <2>2. ~tv.testMode /\ FindValidator(t.iss) = 0 => ~Signed(t)
    BY FindsTheFirstOwn, Zenon DEF Signed, SignedAt
  <2> QED
    BY <1>1, <1>2, <2>1, <2>2, GenuineMeans, Zenon DEF ScreenedOut, ParsedOut
<1>4. ~ScreenedOut(t) => Carried(t) /\ (tv.v2 => t.size <= tv.maxBytes)
  BY <1>1, Zenon DEF ScreenedOut
<1> QED
  BY <1>2, <1>3, <1>4, GenuineMeans, Zenon

-----------------------------------------------------------------------------
(* The keys. *)

\* A token is signed when the cached keys of its own entry say so.
LEMMA OwnKeyDecides ==
    ASSUME Configured, ~tv.testMode, NEW t, NEW ks, FindValidator(t.iss) # 0
    PROVE  SignedAt(ks, t) <=>
             /\ t.kid \in DOMAIN ks[FindValidator(t.iss)]
             /\ ks[FindValidator(t.iss)][t.kid] = t.key
<1> DEFINE f == FindValidator(t.iss)
<1>1. f \in Nat /\ f \in Own(t) /\ \A j \in Own(t) : f <= j
  BY FindsTheFirstOwn
<1>2. Own(t) \subseteq Nat
  <2>1. Own(t) \subseteq 1 .. Len(Validators)
    BY ValidatorsFacts DEF Own
  <2> QED
    BY <2>1, Indices, Zenon
<1> HIDE DEF f
<1>3. ASSUME NEW i \in Own(t), \A j \in Own(t) : i <= j
      PROVE  i = f
  <2>1. i \in Nat /\ i <= f /\ f <= i
    BY <1>1, <1>2, <1>3, Zenon
  <2> QED
    BY <1>1, <2>1
<1> DEFINE Holds(i) == t.kid \in DOMAIN ks[i] /\ ks[i][t.kid] = t.key
<1>4. SignedAt(ks, t) <=> \E i \in Own(t) : (\A j \in Own(t) : i <= j) /\ Holds(i)
  BY DEF SignedAt
<1>5. Holds(f) <=> t.kid \in DOMAIN ks[f] /\ ks[f][t.kid] = t.key
  OBVIOUS
<1> HIDE DEF Holds
<1>6. (\E i \in Own(t) : (\A j \in Own(t) : i <= j) /\ Holds(i)) <=> Holds(f)
  BY <1>1, <1>3, Zenon
<1> QED
  BY <1>4, <1>5, <1>6, Zenon DEF f

LEMMA TokenFacts ==
    ASSUME NEW t \in Tokens
    PROVE  t.key \notin {"", Mistyped}
BY TokensAssumption, Zenon

\* Past the screening, a token has an entry of its own.
LEMMA ScreenedHasEntry ==
    ASSUME Configured, ~tv.testMode, NEW t, ~ScreenedOut(t)
    PROVE  FindValidator(t.iss) # 0
<1>1. CASE tv.v2
  BY <1>1, Zenon DEF ScreenedOut
<1>2. CASE ~tv.v2
  BY <1>2, FindsTheFirstOwn, Zenon
<1> QED
  BY <1>1, <1>2, Zenon

-----------------------------------------------------------------------------
(* The invariant. *)

KeysPerEntry == keys = [i \in DOMAIN Validators |-> keys[i]]

TInv ==
    /\ Configured
    /\ token \in Tokens
    /\ pc \in {"idle", "screen", "lookup", "verify", "answered"}
    /\ KeysPerEntry
    /\ pc # "answered" => answer = NoAnswer
    /\ pc \in {"lookup", "verify"} => ~ScreenedOut(token)
    /\ pc = "verify" => ~ParsedOut(token) /\ (token.key = found <=> Signed(token))
    /\ pc = "answered" =>
         /\ answer.code = "next" <=> Admissible(token)
         /\ answer.code \in ClaimsCodes => Genuine(token)

\* What the checks and the verdict read; nothing else moves them.
LEMMA ChecksRead ==
    ASSUME tv' = tv, token' = token
    PROVE  /\ Own(token)' = Own(token) /\ Validators' = Validators /\ Methods' = Methods
           /\ Carried(token)' <=> Carried(token)
           /\ WellFormed(token)' <=> WellFormed(token)
           /\ ScreenedOut(token)' <=> ScreenedOut(token)
           /\ ParsedOut(token)' <=> ParsedOut(token)
<1>1. Validators' = Validators /\ Methods' = Methods
  BY DEF Validators, V1Pool, Methods
<1>2. Own(token)' = Own(token)
  BY <1>1 DEF Own
<1>3. FindValidator(token.iss)' = FindValidator(token.iss)
  BY <1>1 DEF FindValidator, SelectInSeq, SelectLastInSeq
<1>4. /\ Carried(token)' <=> Carried(token)
      /\ WellFormed(token)' <=> WellFormed(token)
  BY Zenon DEF Carried, WellFormed
<1>5. ScreenedOut(token)' <=> ScreenedOut(token)
  BY <1>3, <1>4, Zenon DEF ScreenedOut
<1>6. ParsedOut(token)' <=> ParsedOut(token)
  BY <1>1, <1>4, Zenon DEF ParsedOut
<1> QED
  BY <1>1, <1>2, <1>4, <1>5, <1>6, Zenon

LEMMA VerdictReads ==
    ASSUME tv' = tv, keys' = keys, token' = token
    PROVE  /\ Admissible(token)' <=> Admissible(token)
           /\ Genuine(token)' <=> Genuine(token)
<1>1. Genuine(token)' <=> Genuine(token)
  BY ChecksRead, Zenon DEF Genuine
<1> QED
  BY <1>1, ChecksRead, Zenon DEF Admissible

LEMMA ConfigKept ==
    ASSUME Configured, UNCHANGED config
    PROVE  /\ Configured' /\ Validators' = Validators
           /\ KeysPerEntry /\ keys' = keys => KeysPerEntry'
<1>1. raw' = raw /\ tv' = tv
  BY DEF config
<1>2. Validators' = Validators
  BY <1>1 DEF Validators, V1Pool
<1> QED
  BY <1>1, <1>2 DEF Configured, KeysPerEntry

LEMMA TokensGiven == (CHOOSE t \in Tokens : TRUE) \in Tokens
BY TokensAssumption

LEMMA StartsIn == Init => TInv
<1> SUFFICES ASSUME Init PROVE TInv
  OBVIOUS
<1>1. Configured
  BY DEF Init, Configured
<1>2. token \in Tokens
  BY TokensGiven DEF Init
<1>3. KeysPerEntry
  BY DEF Init, KeysPerEntry
<1>4. pc = "idle" /\ answer = NoAnswer
  BY DEF Init
<1> QED
  BY <1>1, <1>2, <1>3, <1>4, Zenon DEF TInv

\* What every refusal tells, once its code and the tokens it concerns are known.
LEMMA RefusalKeeps ==
    ASSUME TInv, NEW code, NEW kind, Refuse(code, kind),
           UNCHANGED <<config, keys, token>>,
           code # "next", ~Admissible(token), code \in ClaimsCodes => Genuine(token)
    PROVE  TInv'
<1>1. pc' = "answered" /\ answer'.code = code
  BY DEF Refuse
<1>2. raw' = raw /\ tv' = tv /\ keys' = keys /\ token' = token
  BY DEF config
<1>3. Configured' /\ (token \in Tokens)' /\ KeysPerEntry'
  BY <1>2, ConfigKept, Zenon DEF TInv, config
<1>4. (answer.code = "next" <=> Admissible(token))'
  BY <1>1, <1>2, VerdictReads, Zenon
<1>5. (answer.code \in ClaimsCodes => Genuine(token))'
  BY <1>1, <1>2, VerdictReads, Zenon
<1> QED
  BY <1>1, <1>3, <1>4, <1>5, Zenon DEF TInv

LEMMA CodesApart ==
    /\ "next" \notin EarlyCodes \cup ClaimsCodes \cup {"INVALID_TOKEN", "JWKS_UNAVAILABLE"}
    /\ (EarlyCodes \cup {"INVALID_TOKEN", "JWKS_UNAVAILABLE"}) \cap ClaimsCodes = {}
BY DEF EarlyCodes, ClaimsCodes

LEMMA ScreenKeeps ==
    ASSUME TInv, Screen
    PROVE  TInv'
<1>1. raw' = raw /\ tv' = tv /\ keys' = keys /\ token' = token
  BY DEF Screen, config, caches
<1>2. token \in Tokens /\ Configured /\ pc = "screen" /\ answer = NoAnswer
  BY DEF TInv, Screen
<1>3. CASE First(Screening(token)) # 0
  <2> DEFINE c == Screening(token)[First(Screening(token))]
  <2>1. Refuse(c.code, c.kind)
    BY <1>3 DEF Screen, Pass
  <2>2. ScreenedOut(token) /\ c.code \in EarlyCodes
    BY <1>3, ScreeningMeans
  <2> HIDE DEF c
  <2>3. ~Admissible(token)
    BY <1>2, <2>2, AdmissibleMeans
  <2>4. c.code # "next" /\ c.code \notin ClaimsCodes
    BY <2>2, CodesApart, Zenon
  <2>5. UNCHANGED <<config, keys, token>>
    BY <1>1 DEF config
  <2> QED
    BY <2>1, <2>3, <2>4, <2>5, RefusalKeeps
<1>4. CASE First(Screening(token)) = 0
  <2>1. pc' = "lookup" /\ answer' = answer
    BY <1>4 DEF Screen, Pass
  <2>2. ~ScreenedOut(token)
    BY <1>4, ScreeningMeans
  <2>3. ~ScreenedOut(token)'
    BY <1>1, <2>2, ChecksRead, Zenon
  <2>4. Configured' /\ (token \in Tokens)' /\ KeysPerEntry'
    BY <1>1, ConfigKept, Zenon DEF TInv, config
  <2>5. (answer = NoAnswer)'
    BY <1>2, <2>1 DEF NoAnswer
  <2> QED
    BY <2>1, <2>3, <2>4, <2>5, Zenon DEF TInv
<1> QED
  BY <1>3, <1>4

LEMMA ParseFailsKeeps ==
    ASSUME TInv, ParseFails
    PROVE  TInv'
<1> DEFINE c == Parsing(token)[First(Parsing(token))]
<1>1. UNCHANGED <<config, keys, token>>
  BY DEF ParseFails, config, caches
<1>2. token \in Tokens /\ Configured /\ ~ScreenedOut(token)
  BY DEF TInv, ParseFails
<1>3. Refuse(c.code, c.kind)
  BY DEF ParseFails, Pass
<1>4. ParsedOut(token) /\ c.code = "INVALID_TOKEN"
  BY ParsingMeans DEF ParseFails
<1> HIDE DEF c
<1>5. ~Admissible(token)
  BY <1>2, <1>4, AdmissibleMeans
<1>6. c.code # "next" /\ c.code \notin ClaimsCodes
  BY <1>4, CodesApart, Zenon
<1> QED
  BY <1>1, <1>3, <1>5, <1>6, RefusalKeeps

LEMMA VerifyFailsKeeps ==
    ASSUME TInv, VerifyFails
    PROVE  TInv'
<1> DEFINE checks == Signature(token) \o Claims(token)
           c == checks[First(checks)]
<1>1. UNCHANGED <<config, keys, token>>
  BY DEF VerifyFails, config, caches
<1>2. /\ token \in Tokens /\ Configured
      /\ ~ScreenedOut(token) /\ ~ParsedOut(token)
      /\ token.key = found <=> Signed(token)
  BY DEF TInv, VerifyFails
<1>3. Refuse(c.code, c.kind)
  BY DEF VerifyFails, Pass
<1>4. \/ token.key # found /\ c.code = "INVALID_TOKEN"
      \/ token.key = found /\ ClaimedOut(token) /\ c.code \in ClaimsCodes \cup {"INVALID_TOKEN"}
  BY VerifyMeans DEF VerifyFails
<1> HIDE DEF c, checks
<1>5. ~Admissible(token)
  BY <1>2, <1>4, AdmissibleMeans, Zenon
<1>6. c.code # "next"
  BY <1>4, CodesApart, Zenon
<1>7. c.code \in ClaimsCodes => Genuine(token)
  <2>1. c.code \in ClaimsCodes => token.key = found
    BY <1>4, CodesApart, Zenon
  <2> QED
    BY <1>2, <2>1, GenuineMeans, Zenon
<1> QED
  BY <1>1, <1>3, <1>5, <1>6, <1>7, RefusalKeeps

LEMMA AcceptKeeps ==
    ASSUME TInv, Accept
    PROVE  TInv'
<1>1. raw' = raw /\ tv' = tv /\ keys' = keys /\ token' = token
  BY DEF Accept, config, caches
<1>2. /\ token \in Tokens /\ Configured
      /\ ~ScreenedOut(token) /\ ~ParsedOut(token)
      /\ token.key = found <=> Signed(token)
  BY DEF TInv, Accept
<1>3. token.key = found /\ ~ClaimedOut(token)
  BY VerifyMeans DEF Accept
<1>4. Admissible(token) /\ Genuine(token)
  BY <1>2, <1>3, AdmissibleMeans, GenuineMeans, Zenon
<1>5. pc' = "answered" /\ answer'.code = "next"
  BY DEF Accept
<1>6. Configured' /\ (token \in Tokens)' /\ KeysPerEntry'
  BY <1>1, ConfigKept, Zenon DEF TInv, config
<1>7. /\ (answer.code = "next" <=> Admissible(token))'
      /\ (answer.code \in ClaimsCodes => Genuine(token))'
  BY <1>1, <1>4, <1>5, VerdictReads, Zenon
<1> QED
  BY <1>5, <1>6, <1>7, Zenon DEF TInv

-----------------------------------------------------------------------------
(* The key lookups. *)

\* A key that is found leaves the invariant, when it matches the token's exactly
\* if the keys that are then cached sign the token.
LEMMA ResolveKeeps ==
    ASSUME TInv, NEW key, Parsed, Resolve(key),
           KeysPerEntry',
           token.key = key <=> SignedAt(keys', token)
    PROVE  TInv'
<1>1. /\ raw' = raw /\ tv' = tv /\ token' = token /\ answer' = answer
      /\ pc' = "verify" /\ found' = key
  BY DEF Resolve, config
<1>2. /\ Configured /\ token \in Tokens /\ answer = NoAnswer
      /\ ~ScreenedOut(token) /\ ~ParsedOut(token)
  BY ParsingMeans DEF TInv, Parsed
<1>3. ~ScreenedOut(token)' /\ ~ParsedOut(token)'
  BY <1>1, <1>2, ChecksRead, Zenon
<1>4. Signed(token)' <=> SignedAt(keys', token)
  BY <1>1, ChecksRead, Zenon DEF Signed, SignedAt
<1>5. Configured' /\ (token \in Tokens)' /\ (answer = NoAnswer)'
  BY <1>1, <1>2 DEF Configured, NoAnswer
<1> QED
  BY <1>1, <1>3, <1>4, <1>5, Zenon DEF TInv

LEMMA LookupFacts ==
    ASSUME TInv, NEW i, LooksUp(i)
    PROVE  /\ Configured /\ token \in Tokens /\ ~ScreenedOut(token) /\ ~tv.testMode
           /\ \A ks : SignedAt(ks, token) <=>
                         token.kid \in DOMAIN ks[i] /\ ks[i][token.kid] = token.key
           /\ token.key \notin {"", Mistyped}
<1>1. /\ Configured /\ token \in Tokens /\ ~ScreenedOut(token)
      /\ ~tv.testMode /\ i = FindValidator(token.iss)
  BY DEF TInv, LooksUp, Parsed
<1>2. FindValidator(token.iss) # 0
  BY <1>1, ScreenedHasEntry, Zenon
<1>3. ASSUME NEW ks
      PROVE  SignedAt(ks, token) <=>
                token.kid \in DOMAIN ks[i] /\ ks[i][token.kid] = token.key
  BY <1>1, <1>2, OwnKeyDecides, Zenon
<1>4. token.key \notin {"", Mistyped}
  BY <1>1, TokenFacts, Zenon
<1> QED
  BY <1>1, <1>3, <1>4, Zenon

LEMMA SecretKeyKeeps ==
    ASSUME TInv, SecretKey
    PROVE  TInv'
<1>1. Parsed /\ Resolve(tv.secret) /\ tv.testMode /\ keys' = keys
  BY DEF SecretKey, caches
<1>2. KeysPerEntry'
  BY <1>1, ConfigKept DEF TInv, Resolve
<1>3. token.key = tv.secret <=> SignedAt(keys', token)
  BY <1>1, Zenon DEF SignedAt
<1> QED
  BY <1>1, <1>2, <1>3, ResolveKeeps, Zenon

LEMMA CachedKeyKeeps ==
    ASSUME TInv, NEW i \in DOMAIN Validators, CachedKey(i)
    PROVE  TInv'
<1>1. LooksUp(i) /\ Resolve(keys[i][token.kid]) /\ token.kid \in DOMAIN keys[i] /\ keys' = keys
  BY DEF CachedKey, Live, caches
<1>2. Parsed
  BY <1>1 DEF LooksUp
<1>3. KeysPerEntry'
  BY <1>1, ConfigKept DEF TInv, Resolve
<1>4. token.key = keys[i][token.kid] <=> SignedAt(keys', token)
  BY <1>1, LookupFacts, Zenon
<1> QED
  BY <1>1, <1>2, <1>3, <1>4, ResolveKeeps, Zenon

LEMMA RefreshedKeyKeeps ==
    ASSUME TInv, NEW i \in DOMAIN Validators, RefreshedKey(i)
    PROVE  TInv'
<1> DEFINE key == Get(Answer(i), token.kid, "")
<1>1. LooksUp(i) /\ Resolve(key) /\ keys' = [keys EXCEPT ![i] = Answer(i)]
  BY DEF RefreshedKey
<1>2. Parsed
  BY <1>1 DEF LooksUp
<1>3. KeysPerEntry' /\ keys'[i] = Answer(i)
  <2>1. Validators' = Validators
    BY <1>1, ConfigKept DEF TInv, Resolve
  <2> HIDE DEF key
  <2> QED
    BY <1>1, <2>1 DEF TInv, KeysPerEntry
<1>4. token.key = key <=> token.kid \in DOMAIN Answer(i) /\ Answer(i)[token.kid] = token.key
  <2>1. token.key \notin {"", Mistyped}
    BY <1>1, LookupFacts, Zenon
  <2> QED
    BY <2>1 DEF Get
<1> HIDE DEF key
<1>5. token.key = key <=> SignedAt(keys', token)
  <2>1. SignedAt(keys', token) <=>
           token.kid \in DOMAIN keys'[i] /\ keys'[i][token.kid] = token.key
    BY <1>1, LookupFacts, Zenon
  <2> QED
    BY <1>3, <1>4, <2>1, Zenon
<1> QED
  BY <1>1, <1>2, <1>3, <1>5, ResolveKeeps, Zenon

LEMMA StaleKeyKeeps ==
    ASSUME TInv, NEW i \in DOMAIN Validators, StaleKey(i)
    PROVE  TInv'
<1> DEFINE key == Get(keys[i], token.kid, "")
<1>1. LooksUp(i) /\ Resolve(key) /\ keys' = keys
  BY DEF StaleKey, caches
<1>2. Parsed
  BY <1>1 DEF LooksUp
<1>3. KeysPerEntry'
  BY <1>1, ConfigKept DEF TInv, Resolve
<1>4. token.key = key <=> token.kid \in DOMAIN keys[i] /\ keys[i][token.kid] = token.key
  <2>1. token.key \notin {"", Mistyped}
    BY <1>1, LookupFacts, Zenon
  <2> QED
    BY <2>1 DEF Get
<1> HIDE DEF key
<1>5. token.key = key <=> SignedAt(keys', token)
  BY <1>1, <1>4, LookupFacts, Zenon
<1> QED
  BY <1>1, <1>2, <1>3, <1>5, ResolveKeeps, Zenon

\* Without a single cached key nothing is signed.
LEMMA ColdStartKeeps ==
    ASSUME TInv, NEW i \in DOMAIN Validators, ColdStart(i)
    PROVE  TInv'
<1>1. LooksUp(i) /\ keys[i] = <<>> /\ UNCHANGED <<config, keys, token>>
  BY DEF ColdStart, config, caches
<1>2. ~Signed(token)
  <2>1. DOMAIN keys[i] = {}
    BY <1>1
  <2> QED
    BY <1>1, <2>1, LookupFacts, Zenon DEF Signed
<1>3. ~Admissible(token)
  BY <1>1, <1>2, LookupFacts, AdmissibleMeans
<1>4. \/ Refuse("JWKS_UNAVAILABLE", "jwks_unavailable")
      \/ Refuse("INVALID_TOKEN", "invalid_signature")
  BY DEF ColdStart
<1>5. ASSUME NEW c \in {"JWKS_UNAVAILABLE", "INVALID_TOKEN"}, NEW k, Refuse(c, k)
      PROVE  TInv'
  <2>1. c # "next" /\ c \notin ClaimsCodes
    BY CodesApart, Zenon
  <2> QED
    BY <1>1, <1>3, <1>5, <2>1, RefusalKeeps
<1> QED
  BY <1>4, <1>5, Zenon

-----------------------------------------------------------------------------
(* The steps between requests. *)

LEMMA OthersKeep ==
    ASSUME TInv, Arrive \/ End \/ (\E u \in URLs : Serve(u))
              \/ \E i \in DOMAIN Validators : Expire(i)
    PROVE  TInv'
<1>1. raw' = raw /\ tv' = tv /\ keys' = keys
  BY DEF Arrive, End, Serve, Expire, config, caches
<1>2. Configured' /\ KeysPerEntry'
  BY <1>1, ConfigKept, Zenon DEF TInv, config
<1>3. CASE Arrive
  BY <1>2, <1>3 DEF Arrive, TInv, NoAnswer
<1>4. CASE End
  BY <1>2, <1>4, TokensGiven DEF End, TInv, NoAnswer
<1>5. CASE (\E u \in URLs : Serve(u)) \/ \E i \in DOMAIN Validators : Expire(i)
  <2>1. pc = "idle" /\ pc' = "idle" /\ token' = token /\ answer' = answer
    BY <1>5 DEF Serve, Expire
  <2>2. (token \in Tokens)' /\ (answer = NoAnswer)'
    BY <2>1 DEF TInv, NoAnswer
  <2> QED
    BY <1>2, <2>1, <2>2 DEF TInv
<1> QED
  BY <1>3, <1>4, <1>5

LEMMA StutterKeeps ==
    ASSUME TInv, UNCHANGED vars
    PROVE  TInv'
<1>1. /\ raw' = raw /\ tv' = tv /\ keys' = keys /\ pc' = pc
      /\ token' = token /\ found' = found /\ answer' = answer
  BY DEF vars
<1>2. Configured' /\ (token \in Tokens)' /\ KeysPerEntry'
  BY <1>1, ConfigKept, Zenon DEF TInv, config
<1>3. /\ pc' \in {"idle", "screen", "lookup", "verify", "answered"}
      /\ (pc # "answered" => answer = NoAnswer)'
  BY <1>1 DEF TInv, NoAnswer
<1>4. Signed(token)' <=> Signed(token)
  BY <1>1, ChecksRead, Zenon DEF Signed, SignedAt
<1>5. /\ (pc \in {"lookup", "verify"} => ~ScreenedOut(token))'
      /\ (pc = "verify" => ~ParsedOut(token) /\ (token.key = found <=> Signed(token)))'
  BY <1>1, <1>4, ChecksRead, Zenon DEF TInv
<1>6. (pc = "answered" =>
         /\ answer.code = "next" <=> Admissible(token)
         /\ answer.code \in ClaimsCodes => Genuine(token))'
  BY <1>1, VerdictReads, Zenon DEF TInv
<1> QED
  BY <1>2, <1>3, <1>5, <1>6, Zenon DEF TInv

LEMMA StepKeeps ==
    ASSUME TInv, [Next]_vars
    PROVE  TInv'
<1>1. CASE Screen
  BY <1>1, ScreenKeeps
<1>2. CASE ParseFails
  BY <1>2, ParseFailsKeeps
<1>3. CASE SecretKey
  BY <1>3, SecretKeyKeeps
<1>4. ASSUME NEW i \in DOMAIN Validators,
             CachedKey(i) \/ RefreshedKey(i) \/ StaleKey(i) \/ ColdStart(i)
      PROVE  TInv'
  BY <1>4, CachedKeyKeeps, RefreshedKeyKeeps, StaleKeyKeeps, ColdStartKeeps
<1>5. CASE VerifyFails
  BY <1>5, VerifyFailsKeeps
<1>6. CASE Accept
  BY <1>6, AcceptKeeps
<1>7. CASE Arrive \/ End \/ (\E u \in URLs : Serve(u))
              \/ \E i \in DOMAIN Validators : Expire(i)
  BY <1>7, OthersKeep
<1>8. CASE UNCHANGED vars
  BY <1>8, StutterKeeps
<1> QED
  BY <1>1, <1>2, <1>3, <1>4, <1>5, <1>6, <1>7, <1>8 DEF Next

LEMMA InvariantHolds == Spec => []TInv
<1>1. Init => TInv
  BY StartsIn
<1>2. TInv /\ [Next]_vars => TInv'
  BY StepKeeps
<1> QED
  BY <1>1, <1>2, PTL DEF Spec

\* Exactly the admissible tokens pass the plugin, whatever its configuration,
\* the rotation of the keys and the failures of the endpoints
\* (tokenvalidator/plugin.go:517-655, jwks.go:177-213).
THEOREM PassesExactlyValidHolds == Spec => []PassesExactlyValid
<1>1. TInv => PassesExactlyValid
  BY Zenon DEF TInv, PassesExactlyValid
<1> QED
  BY <1>1, InvariantHolds, PTL

\* An answer about a token's claims is given for genuine tokens only
\* (tokenvalidator/plugin.go:607-643).
THEOREM ClaimsJudgedHolds == Spec => []ClaimsJudgedAfterSignature
<1>1. TInv => ClaimsJudgedAfterSignature
  BY Zenon DEF TInv, ClaimsJudgedAfterSignature
<1> QED
  BY <1>1, InvariantHolds, PTL

-----------------------------------------------------------------------------
(* Types.  The statuses of on_failure are the configuration's: the code takes  *)
(* any number, and net/http panics on one that is not a status.                *)

StatusesGiven == \A c \in Configs : \A f \in FailureKinds :
    Get(Get(c, "on_failure", NoMap), f, 500) \in 100 .. 599

TypeInv ==
    /\ TypeOK /\ TInv
    /\ served = [u \in URLs |-> served[u]]

LEMMA StatusIsValid ==
    ASSUME StatusesGiven, Configured, NEW kind \in FailureKinds
    PROVE  StatusOf(kind) \in 100 .. 599
<1>1. 400 \in 100 .. 599 /\ 401 \in 100 .. 599 /\ 403 \in 100 .. 599 /\ 503 \in 100 .. 599
  OBVIOUS
<1>2. CASE ~tv.v2
  BY <1>1, <1>2 DEF StatusOf
<1>3. CASE tv.v2
  <2> DEFINE m == Get(raw, "on_failure", NoMap)
             def == FailureCodes(IF IsShim(raw) THEN 403 ELSE 401)
  <2>1. tv.v2 = IsV2Config(raw)
    BY DEF Configured, TVInit, InitV1, InitV2, TVZero
  <2>2. tv = [InitV2(TVZero, raw).tv EXCEPT !.v2 = IsV2Config(raw)]
    BY <1>3, <2>1 DEF Configured, TVInit
  <2>3. tv.onFailure = ParseFailureCodes(m, def)
    BY <2>2 DEF InitV2, TVZero
  <2>4. def[kind] \in 100 .. 599
    <3>1. def[kind] \in {400, 401, 403, 503}
      BY DEF FailureCodes
    <3> QED
      BY <1>1, <3>1
  <2>5. Get(m, kind, 500) \in 100 .. 599
    BY DEF StatusesGiven, Configured
  <2> HIDE DEF m, def
  <2>6. tv.onFailure[kind] = Get(m, kind, def[kind])
    BY <2>3 DEF ParseFailureCodes
  <2>7. Get(m, kind, def[kind]) \in {Get(m, kind, 500), def[kind]}
    BY DEF Get
  <2>8. StatusOf(kind) = tv.onFailure[kind]
    BY <1>3 DEF StatusOf
  <2> QED
    BY <2>4, <2>5, <2>6, <2>7, <2>8
<1> QED
  BY <1>2, <1>3

LEMMA NextKeepsValidators ==
    ASSUME TInv, [Next]_vars
    PROVE  Validators' = Validators
<1>1. tv' = tv
  BY DEF Next, vars, config, Arrive, Screen, ParseFails, SecretKey, CachedKey, RefreshedKey,
         StaleKey, ColdStart, Resolve, VerifyFails, Accept, End, Serve, Expire
<1> QED
  BY <1>1 DEF Validators, V1Pool

LEMMA RefusalTyped ==
    ASSUME TypeInv, StatusesGiven, NEW code \in Codes, NEW kind \in FailureKinds,
           Refuse(code, kind), UNCHANGED <<config, served, caches, token, found>>,
           TInv'
    PROVE  TypeInv'
<1>1. pc' = "answered" /\ answer' = [code |-> code, status |-> StatusOf(kind)]
  BY DEF Refuse
<1>2. answer'.code \in Codes /\ answer'.status \in 100 .. 599
  BY <1>1, StatusIsValid DEF TypeInv, TInv
<1>3. /\ raw' = raw /\ served' = served /\ keys' = keys /\ fresh' = fresh /\ token' = token
  BY DEF config, caches
<1>4. Validators' = Validators
  BY ConfigKept DEF TypeInv, TInv
<1> QED
  BY <1>1, <1>2, <1>3, <1>4 DEF TypeInv, TypeOK, Codes

LEMMA CodesAreCodes == EarlyCodes \cup ClaimsCodes \cup {"JWKS_UNAVAILABLE"} = Codes
BY DEF EarlyCodes, ClaimsCodes, Codes

LEMMA TypesStart == Init => TypeInv
<1> SUFFICES ASSUME Init PROVE TypeInv
  OBVIOUS
<1>1. TInv
  BY StartsIn
<1>2. TypeOK
  BY TokensGiven DEF Init, TypeOK
<1>3. served = [u \in URLs |-> served[u]]
  BY DEF Init
<1> QED
  BY <1>1, <1>2, <1>3 DEF TypeInv

LEMMA TypesKept ==
    ASSUME TypeInv, StatusesGiven, [Next]_vars, TInv'
    PROVE  TypeInv'
<1>0. Validators' = Validators
  BY NextKeepsValidators DEF TypeInv
<1>1. CASE Screen
  <2>1. CASE First(Screening(token)) # 0
    <3> DEFINE c == Screening(token)[First(Screening(token))]
    <3>1. Refuse(c.code, c.kind) /\ UNCHANGED <<config, served, caches, token, found>>
      BY <1>1, <2>1 DEF Screen, Pass
    <3>2. c.code \in Codes /\ c.kind \in FailureKinds
      BY <2>1, ScreeningMeans, CodesAreCodes
    <3> HIDE DEF c
    <3> QED
      BY <3>1, <3>2, RefusalTyped
  <2>2. CASE First(Screening(token)) = 0
    <3>1. /\ pc = "screen" /\ pc' = "lookup"
          /\ UNCHANGED <<raw, served, keys, fresh, token, answer>>
      BY <1>1, <2>2 DEF Screen, Pass, config, caches
    <3> QED
      BY <1>0, <3>1 DEF TypeInv, TypeOK
  <2> QED
    BY <2>1, <2>2
<1>2. CASE ParseFails
  <2> DEFINE c == Parsing(token)[First(Parsing(token))]
  <2>1. Refuse(c.code, c.kind) /\ UNCHANGED <<config, served, caches, token, found>>
    BY <1>2 DEF ParseFails, Pass
  <2>2. c.code \in Codes /\ c.kind \in FailureKinds
    BY <1>2, ParsingMeans DEF ParseFails, Codes
  <2> HIDE DEF c
  <2> QED
    BY <2>1, <2>2, RefusalTyped
<1>3. CASE VerifyFails
  <2> DEFINE checks == Signature(token) \o Claims(token)
             c == checks[First(checks)]
  <2>1. Refuse(c.code, c.kind) /\ UNCHANGED <<config, served, caches, token, found>>
    BY <1>3 DEF VerifyFails, Pass
  <2>2. c.code \in ClaimsCodes \cup {"INVALID_TOKEN"} /\ c.kind \in FailureKinds
    BY <1>3, VerifyMeans DEF VerifyFails
  <2> HIDE DEF c, checks
  <2>3. c.code \in Codes
    BY <2>2 DEF ClaimsCodes, Codes
  <2> QED
    BY <2>1, <2>2, <2>3, RefusalTyped
<1>4. ASSUME NEW i \in DOMAIN Validators, ColdStart(i)
      PROVE  TypeInv'
  <2>1. UNCHANGED <<config, served, caches, token, found>>
    BY <1>4 DEF ColdStart
  <2>2. \/ Refuse("JWKS_UNAVAILABLE", "jwks_unavailable")
        \/ Refuse("INVALID_TOKEN", "invalid_signature")
    BY <1>4 DEF ColdStart
  <2>3. {"JWKS_UNAVAILABLE", "INVALID_TOKEN"} \subseteq Codes
    BY DEF Codes
  <2>4. {"jwks_unavailable", "invalid_signature"} \subseteq FailureKinds
    BY DEF FailureKinds
  <2> QED
    BY <2>1, <2>2, <2>3, <2>4, RefusalTyped, Zenon
<1>5. CASE Accept
  <2>1. pc' = "answered" /\ answer' = [code |-> "next", status |-> 200]
    BY <1>5 DEF Accept
  <2>2. 200 \in 100 .. 599
    OBVIOUS
  <2> QED
    BY <1>0, <1>5, <2>1, <2>2 DEF Accept, TypeInv, TypeOK, config, caches
<1>6. CASE SecretKey
  BY <1>0, <1>6 DEF SecretKey, Resolve, TypeInv, TypeOK, Parsed, config, caches, NoAnswer
<1>7. ASSUME NEW i \in DOMAIN Validators, CachedKey(i) \/ StaleKey(i)
      PROVE  TypeInv'
  BY <1>0, <1>7 DEF CachedKey, StaleKey, LooksUp, Parsed, Resolve, TypeInv, TypeOK, config, caches,
              NoAnswer
<1>8. ASSUME NEW i \in DOMAIN Validators, RefreshedKey(i)
      PROVE  TypeInv'
  <2>1. /\ keys' = [keys EXCEPT ![i] = Answer(i)] /\ Answer(i) # Down
        /\ fresh' = fresh \cup {i} /\ pc' = "verify" /\ pc = "lookup"
        /\ raw' = raw /\ served' = served /\ token' = token /\ answer' = answer
    BY <1>8 DEF RefreshedKey, LooksUp, Parsed, Resolve, config
  <2>2. Answer(i) \in KeySets[Validators[i].url]
    BY <2>1 DEF Answer, TypeInv, TypeOK
  <2>3. \A j \in DOMAIN Validators : keys'[j] \in KeySets[Validators[j].url] \cup {<<>>}
    BY <2>1, <2>2 DEF TypeInv, TypeOK, TInv, KeysPerEntry
  <2> QED
    BY <1>0, <2>1, <2>3 DEF TypeInv, TypeOK, NoAnswer
<1>9. CASE Arrive \/ End
  <2>1. CASE Arrive
    BY <1>0, <2>1 DEF Arrive, TypeInv, TypeOK, config, caches, NoAnswer
  <2>2. CASE End
    <3>1. pc' = "idle" /\ token' \in Tokens /\ answer' = NoAnswer
      BY <2>2, TokensGiven DEF End
    <3>2. UNCHANGED <<raw, served, keys, fresh>>
      BY <2>2 DEF End, config, caches
    <3> QED
      BY <1>0, <3>1, <3>2 DEF TypeInv, TypeOK
  <2> QED
    BY <1>9, <2>1, <2>2
<1>10. ASSUME NEW u \in URLs, Serve(u)
       PROVE  TypeInv'
  <2>1. PICK doc \in KeySets[u] \cup {Down} : served' = [served EXCEPT ![u] = doc]
    BY <1>10 DEF Serve
  <2>2. /\ \A w \in URLs : served'[w] \in KeySets[w] \cup {Down}
        /\ served' = [w \in URLs |-> served'[w]]
    BY <2>1 DEF TypeInv, TypeOK
  <2> QED
    BY <1>0, <1>10, <2>2 DEF Serve, TypeInv, TypeOK, config, caches, NoAnswer
<1>11. ASSUME NEW i \in DOMAIN Validators, Expire(i)
       PROVE  TypeInv'
  BY <1>0, <1>11 DEF Expire, TypeInv, TypeOK, config, NoAnswer
<1>12. CASE UNCHANGED vars
  <2>1. /\ raw' = raw /\ served' = served /\ keys' = keys /\ fresh' = fresh
        /\ pc' = pc /\ token' = token /\ answer' = answer
    BY <1>12 DEF vars
  <2>2. TypeOK'
    <3>1. /\ raw' \in Configs /\ fresh' \in SUBSET DOMAIN Validators' /\ token' \in Tokens
          /\ pc' \in {"idle", "screen", "lookup", "verify", "answered"}
          /\ \A u \in URLs : served'[u] \in KeySets[u] \cup {Down}
          /\ \A i \in DOMAIN Validators' : keys'[i] \in KeySets[Validators'[i].url] \cup {<<>>}
      <4>1. /\ raw \in Configs /\ fresh \in SUBSET DOMAIN Validators /\ token \in Tokens
            /\ pc \in {"idle", "screen", "lookup", "verify", "answered"}
            /\ \A u \in URLs : served[u] \in KeySets[u] \cup {Down}
            /\ \A i \in DOMAIN Validators : keys[i] \in KeySets[Validators[i].url] \cup {<<>>}
        BY Zenon DEF TypeInv, TypeOK
      <4> QED
        BY <1>0, <2>1, <4>1
    <3>2. IF pc' = "answered"
             THEN answer'.code \in Codes \cup {"next"} /\ answer'.status \in 100 .. 599
             ELSE answer' = NoAnswer
      <4>1. IF pc = "answered"
               THEN answer.code \in Codes \cup {"next"} /\ answer.status \in 100 .. 599
               ELSE answer = NoAnswer
        BY Zenon DEF TypeInv, TypeOK
      <4> QED
        BY <2>1, <4>1, Zenon
    <3> QED
      BY <3>1, <3>2, Zenon DEF TypeOK, NoAnswer
  <2>3. served' = [u \in URLs |-> served'[u]]
    BY <2>1, Zenon DEF TypeInv
  <2> QED
    BY <2>2, <2>3, Zenon DEF TypeInv
<1>13. CASE \E i \in DOMAIN Validators :
              CachedKey(i) \/ RefreshedKey(i) \/ StaleKey(i) \/ ColdStart(i) \/ Expire(i)
  BY <1>4, <1>7, <1>8, <1>11, <1>13, Zenon
<1>14. CASE \E u \in URLs : Serve(u)
  BY <1>10, <1>14, Zenon
<1>15. Next \/ UNCHANGED vars
  OBVIOUS
<1> QED
  BY <1>1, <1>2, <1>3, <1>5, <1>6, <1>9, <1>12, <1>13, <1>14, <1>15, Zenon DEF Next

\* Types; and where on_failure gives statuses that net/http takes, every answer
\* has one (tokenvalidator/plugin.go:113-124, 517-655).
THEOREM TypeCorrect ==
    ASSUME StatusesGiven
    PROVE  Spec => []TypeOK
<1>1. Init => TypeInv
  BY TypesStart
<1>2. TypeInv /\ [Next]_vars => TypeInv'
  <2> SUFFICES ASSUME TypeInv, [Next]_vars PROVE TypeInv'
    OBVIOUS
  <2>1. TInv'
    BY StepKeeps DEF TypeInv
  <2> QED
    BY <2>1, TypesKept
<1>3. TypeInv => TypeOK
  BY DEF TypeInv
<1> QED
  BY <1>1, <1>2, <1>3, PTL DEF Spec
=============================================================================
