--------------------------- MODULE FrontDoorProofs ---------------------------
(***************************************************************************)
(* Proofs about the configuration, for any ports, command lines and lists  *)
(* of trusted proxies.                                                     *)
(***************************************************************************)
EXTENDS FrontDoor, TLAPS

ListenFields == {"ListenHTTP", "ListenHTTPS", "ListenControl"}

\* A setting that no flag has named is what the environment makes of it.
LoadInv ==
  /\ DOMAIN cfg = Fields
  /\ stage # "env" => \A f \in Fields \ flagged : cfg[f] = FromEnv(env)[f]
  /\ stage # "env" => cfg["PublicHTTPPort"] \in Ports \cup {Empty}

\* A server that has come up has all its listeners.
UpInv == stage = "up" => ~ Clash(cfg)

IInv == FrontDoorTypeOK /\ LoadInv /\ UpInv

-----------------------------------------------------------------------------

\* The environment is a configuration before it is read.
LEMMA EmptyConfig == [f \in Fields |-> Empty] \in Config
  BY DEF Fields, Config, May

\* The initial state.
LEMMA InitIInv == FrontDoorInit => IInv
<1> SUFFICES ASSUME FrontDoorInit PROVE IInv
  OBVIOUS
<1>1. env \in Config /\ DOMAIN cfg = Fields
  BY EmptyConfig DEF FrontDoorInit, SettingsInit
<1>2. SettingsTypeOK
  BY <1>1, MaxFlagsAssumption DEF FrontDoorInit, SettingsInit, SettingsTypeOK
<1> QED
  BY <1>1, <1>2 DEF FrontDoorInit, SettingsInit, IInv, FrontDoorTypeOK, LoadInv, UpInv

\* What the environment gives a field is a choice, or its default.
LEMMA FromEnvFacts ==
  ASSUME NEW e \in Config
  PROVE  /\ DOMAIN FromEnv(e) = Fields
         /\ \A f \in ListenFields : FromEnv(e)[f] \in Ports
         /\ FromEnv(e)["PublicHTTPPort"] \in Ports \cup {Empty}
<1>1. \A f \in ListenFields \cup {"PublicHTTPPort"} : f \in Fields /\ e[f] \in May(f)
  BY DEF Config, ListenFields, Fields
<1>2. \A f \in ListenFields \cup {"PublicHTTPPort"} : May(f) \subseteq Ports \cup {Empty}
  BY ChoicesAssumption DEF ListenFields, May
<1>3. \A f \in ListenFields : Default(f, e.Email) \in Ports
  <2>1. Default("ListenHTTP", e.Email) = IF e.Email # Empty THEN 80 ELSE 8080
    BY DEF Default
  <2>2. Default("ListenHTTPS", e.Email) = 443
    BY DEF Default
  <2>3. Default("ListenControl", e.Email) = IF e.Email # Empty THEN 7443 ELSE 7080
    BY DEF Default
  <2>4. 80 \in Ports /\ 8080 \in Ports /\ 443 \in Ports /\ 7443 \in Ports /\ 7080 \in Ports
    BY DEF Ports
  <2> QED
    BY <2>1, <2>2, <2>3, <2>4 DEF ListenFields
<1>4. Default("PublicHTTPPort", e.Email) = Empty
  BY DEF Default
<1> QED
  BY <1>1, <1>2, <1>3, <1>4 DEF FromEnv

\* Reading the environment.
LEMMA ReadEnvStep ==
  ASSUME IInv, NEW e \in Config, ReadEnv(e), UNCHANGED connectionVars
  PROVE  IInv'
<1>1. SettingsTypeOK' /\ LoadInv'
  BY FromEnvFacts DEF IInv, FrontDoorTypeOK, SettingsTypeOK, LoadInv, ReadEnv, ListenFields
<1>2. UpInv'
  BY DEF IInv, UpInv, ReadEnv
<1> QED
  BY <1>1, <1>2 DEF IInv, FrontDoorTypeOK, connectionVars

\* A flag.
LEMMA ParseFlagStep ==
  ASSUME IInv, NEW f \in Fields, NEW v \in May(f), ParseFlag(f, v), UNCHANGED connectionVars
  PROVE  IInv'
<1>1. /\ stage = "flags" /\ stage' = "flags" /\ env' = env
      /\ cfg' = [cfg EXCEPT ![f] = v] /\ flagged' = flagged \cup {f}
      /\ args' = args + 1 /\ args < MaxFlags
  BY DEF ParseFlag
<1>2. f \in ListenFields \cup {"PublicHTTPPort"} => v \in Ports \cup {Empty}
  BY ChoicesAssumption DEF ListenFields, May
<1>3. DOMAIN cfg = Fields /\ DOMAIN cfg' = Fields
  BY <1>1 DEF IInv, LoadInv
<1>4. \A g \in ListenFields : cfg'[g] \in Ports \/ (g \in flagged' /\ cfg'[g] = Empty)
  BY <1>1, <1>2, <1>3 DEF IInv, FrontDoorTypeOK, SettingsTypeOK, ListenFields, Fields
<1>5. args' \in 0..MaxFlags
  BY <1>1, MaxFlagsAssumption DEF IInv, FrontDoorTypeOK, SettingsTypeOK
<1>6. SettingsTypeOK'
  BY <1>1, <1>4, <1>5 DEF IInv, FrontDoorTypeOK, SettingsTypeOK, ListenFields
<1>7. cfg'["PublicHTTPPort"] \in Ports \cup {Empty}
  BY <1>1, <1>2, <1>3 DEF IInv, LoadInv, Fields
<1>8. LoadInv'
  BY <1>1, <1>3, <1>7 DEF IInv, LoadInv, FromEnv
<1>9. UpInv'
  BY <1>1 DEF IInv, UpInv
<1> QED
  BY <1>6, <1>8, <1>9 DEF IInv, FrontDoorTypeOK, connectionVars

\* The server comes up, or does not.
LEMMA ServeStep ==
  ASSUME IInv, NEW valid, Serve(valid), UNCHANGED connectionVars
  PROVE  IInv'
<1>1. /\ stage = "flags" /\ stage' \in {"up", "failed"}
      /\ stage' = "up" => ~ Clash(cfg)
      /\ UNCHANGED <<env, cfg, flagged, args>>
  BY DEF Serve
<1>2. SettingsTypeOK' /\ LoadInv'
  BY <1>1 DEF IInv, FrontDoorTypeOK, SettingsTypeOK, LoadInv, FromEnv
<1>3. UpInv'
  BY <1>1 DEF UpInv, Clash, ControlPort, FrontPort, ChallengePort, Enabled
<1> QED
  BY <1>2, <1>3 DEF IInv, FrontDoorTypeOK, connectionVars

\* A connection.
LEMMA ConnectStep ==
  ASSUME IInv, NEW p \in Addresses, NEW a \in Addresses \cup {None}, Connect(p, a)
  PROVE  IInv'
<1>1. /\ stage = "up" /\ peer' = p /\ claim' = a
      /\ remote' = RemoteAddr(ParseTrusted(TrustedList), p, a, None)
      /\ UNCHANGED <<stage, env, cfg, flagged, args>>
  BY DEF Connect, settingsVars
<1>2. SettingsTypeOK' /\ LoadInv' /\ UpInv'
  BY <1>1 DEF IInv, FrontDoorTypeOK, SettingsTypeOK, LoadInv, UpInv, FromEnv, Clash,
              ControlPort, FrontPort, ChallengePort, Enabled
<1>3. remote' \in Addresses \cup {None}
  BY <1>1 DEF RemoteAddr
<1> QED
  BY <1>1, <1>2, <1>3 DEF IInv, FrontDoorTypeOK

\* Every step keeps the invariant.
LEMMA StepIInv == IInv /\ [FrontDoorNext]_FrontDoorVars => IInv'
<1> SUFFICES ASSUME IInv, [FrontDoorNext]_FrontDoorVars PROVE IInv'
  OBVIOUS
<1>1. CASE UNCHANGED <<settingsVars, connectionVars>>
  BY <1>1 DEF IInv, FrontDoorTypeOK, SettingsTypeOK, LoadInv, UpInv, FromEnv,
              Clash, ControlPort, FrontPort, ChallengePort, Enabled,
              settingsVars, connectionVars
<1>2. CASE Configure
  BY <1>2, ReadEnvStep, ParseFlagStep, ServeStep DEF Configure
<1>3. CASE \E p \in Addresses, a \in Addresses \cup {None} : Connect(p, a)
  BY <1>3, ConnectStep
<1> QED
  BY <1>1, <1>2, <1>3 DEF FrontDoorNext, FrontDoorVars, Spell

LEMMA Invariance == FrontDoorSpec => []IInv
  BY InitIInv, StepIInv, PTL DEF FrontDoorSpec

-----------------------------------------------------------------------------
(* What the invariant says of a server that has come up.                   *)

\* Its front end's port is the setting, and any port if that is empty.
LEMMA Listeners ==
  ASSUME IInv, stage = "up"
  PROVE  /\ \A f \in ListenFields : cfg[f] \in Ports \cup {Empty}
         /\ cfg["PublicHTTPPort"] \in Ports \cup {Empty}
         /\ ~ Clash(cfg)
  BY DEF IInv, FrontDoorTypeOK, SettingsTypeOK, LoadInv, UpInv, ListenFields

\* What the proofs need of numbers.
LEMMA PortFacts ==
  /\ 80 \in Ports /\ 443 \in Ports /\ 80 # 443
  /\ \A p \in Ports : p # Empty /\ p # AnyPort
  /\ Empty # AnyPort
<1>1. 80 \in Ports /\ 443 \in Ports /\ 80 # 443 /\ \A p \in Ports : p # AnyPort
  BY DEF Ports, AnyPort
<1> QED
  BY <1>1, EmptyAssumption

\* The front end's port, and that the challenge listener is elsewhere.
LEMMA FrontAndChallenge ==
  ASSUME IInv, stage = "up"
  PROVE  /\ FrontPort(cfg) # Empty
         /\ Enabled(cfg) => /\ \A p \in Ports : FrontPort(cfg) = p <=> cfg.ListenHTTPS = p
                            /\ ChallengePort(cfg) # FrontPort(cfg)
         /\ ~ Enabled(cfg) => \A p \in Ports : FrontPort(cfg) = p <=> cfg.ListenHTTP = p
<1>1. /\ cfg.ListenHTTP \in Ports \cup {Empty} /\ cfg.ListenHTTPS \in Ports \cup {Empty}
      /\ ~ Clash(cfg)
  BY Listeners DEF ListenFields
<1>2. CASE Enabled(cfg)
  <2>1. FrontPort(cfg) = IF cfg.ListenHTTPS = Empty THEN AnyPort ELSE cfg.ListenHTTPS
    BY <1>2 DEF FrontPort
  <2> QED
    BY <1>1, <1>2, <2>1, PortFacts DEF Clash
<1>3. CASE ~ Enabled(cfg)
  <2>1. FrontPort(cfg) = IF cfg.ListenHTTP = Empty THEN AnyPort ELSE cfg.ListenHTTP
    BY <1>3 DEF FrontPort
  <2> QED
    BY <1>1, <1>3, <2>1, PortFacts
<1> QED
  BY <1>2, <1>3

\* Types: every variable of the settings and of the connection keeps its type,
\* and a listener's setting is a port unless a flag has emptied it.
THEOREM FrontDoorTypeCorrect == FrontDoorSpec => []FrontDoorTypeOK
<1>1. IInv => FrontDoorTypeOK
  BY DEF IInv
<1> QED
  BY <1>1, Invariance, PTL

\* Public URLs lead to the front end in exactly the configurations the property
\* lists, for all 65535 ports (publicPortSuffix, main's listeners).
THEOREM UrlsReachFrontEnd == FrontDoorSpec => []UrlReachesFrontEnd
<1>1. ASSUME IInv PROVE UrlReachesFrontEnd
  <2> SUFFICES ASSUME stage = "up" PROVE UrlReachesFrontEnd
    BY DEF UrlReachesFrontEnd
  <2>1. cfg.ListenHTTP \in Ports \cup {Empty}
    BY <1>1, Listeners DEF ListenFields
  <2>2. ASSUME cfg.PublicHTTPPort = Empty
        PROVE  Reaches(UrlPort(cfg)) <=> OnUsualPorts(cfg)
    <3>1. publicPortSuffix(cfg) =
            IF cfg.ListenHTTP \in {80, 443} THEN Empty ELSE cfg.ListenHTTP
      BY <2>2 DEF publicPortSuffix
    <3>2. CASE cfg.ListenHTTP \in {80, 443, Empty}
      <4>1. UrlPort(cfg) = SchemePort(cfg)
        BY <3>1, <3>2 DEF UrlPort
      <4>2. CASE Enabled(cfg)
        <5>1. Reaches(UrlPort(cfg)) <=> cfg.ListenHTTPS = 443
          BY <1>1, <4>1, <4>2, FrontAndChallenge, PortFacts DEF Reaches, SchemePort
        <5>2. cfg.ListenHTTP = 443 => cfg.ListenHTTPS # 443
          BY <1>1, <4>2, FrontAndChallenge, PortFacts DEF ChallengePort
        <5> QED
          BY <3>2, <4>2, <5>1, <5>2, PortFacts DEF OnUsualPorts
      <4>3. CASE ~ Enabled(cfg)
        <5>1. Reaches(UrlPort(cfg)) <=> cfg.ListenHTTP = 80
          BY <1>1, <4>1, <4>3, FrontAndChallenge, PortFacts DEF Reaches, SchemePort
        <5> QED
          BY <3>2, <4>3, <5>1, PortFacts DEF OnUsualPorts
      <4> QED
        BY <4>2, <4>3
    <3>3. CASE cfg.ListenHTTP \notin {80, 443, Empty}
      <4>1. UrlPort(cfg) = cfg.ListenHTTP /\ cfg.ListenHTTP \in Ports
        BY <2>1, <3>1, <3>3 DEF UrlPort
      <4>2. CASE Enabled(cfg)
        BY <1>1, <3>3, <4>1, <4>2, FrontAndChallenge
           DEF Reaches, ChallengePort, OnUsualPorts
      <4>3. CASE ~ Enabled(cfg)
        BY <1>1, <3>3, <4>1, <4>3, FrontAndChallenge DEF Reaches, OnUsualPorts
      <4> QED
        BY <4>2, <4>3
    <3> QED
      BY <3>2, <3>3
  <2>3. ASSUME cfg.PublicHTTPPort = FrontPort(cfg),
               cfg.PublicHTTPPort # (IF Enabled(cfg) THEN 80 ELSE 443)
        PROVE  Reaches(UrlPort(cfg))
    <3>1. cfg.PublicHTTPPort # Empty
      BY <1>1, <2>3, FrontAndChallenge
    <3>2. publicPortSuffix(cfg) =
            IF cfg.PublicHTTPPort \in {80, 443} THEN Empty ELSE cfg.PublicHTTPPort
      BY <3>1 DEF publicPortSuffix
    <3>3. UrlPort(cfg) =
            IF cfg.PublicHTTPPort \in {80, 443} THEN SchemePort(cfg) ELSE cfg.PublicHTTPPort
      BY <3>1, <3>2 DEF UrlPort
    <3> QED
      BY <2>3, <3>3 DEF Reaches, SchemePort
  <2> QED
    BY <2>2, <2>3 DEF UrlReachesFrontEnd
<1> QED
  BY <1>1, Invariance, PTL

\* Redirects lead to the front end in exactly the configurations in which the
\* URLs do without PUBLIC_HTTP_PORT (redirectToHTTPS).
THEOREM RedirectsAgree == FrontDoorSpec => []RedirectAgrees
<1>1. ASSUME IInv PROVE RedirectAgrees
  <2> SUFFICES ASSUME stage = "up", Enabled(cfg) PROVE RedirectAgrees
    BY DEF RedirectAgrees
  <2>1. \A p \in Ports : Reaches(p) <=> cfg.ListenHTTPS = p
    BY <1>1, FrontAndChallenge DEF Reaches
  <2>2. CASE cfg.ListenHTTP \in {80, Empty}
    <3>1. RedirectPort(cfg) = 443
      BY <2>2 DEF RedirectPort, ChallengePort
    <3> QED
      BY <2>1, <2>2, <3>1, PortFacts DEF RedirectAgrees, OnUsualPorts
  <2>3. CASE cfg.ListenHTTP \notin {80, Empty}
    <3>1. RedirectPort(cfg) = ChallengePort(cfg)
      BY <2>3 DEF RedirectPort, ChallengePort
    <3> QED
      BY <1>1, <2>3, <3>1, FrontAndChallenge DEF Reaches, RedirectAgrees, OnUsualPorts
  <2> QED
    BY <2>2, <2>3
<1> QED
  BY <1>1, Invariance, PTL

\* A server whose operator sets no port gives out URLs that lead to it, if the
\* mode was not chosen by a flag (config.Load's defaults).
THEOREM DefaultsLeadHome == FrontDoorSpec => []DefaultsAreConsistent
<1>1. ASSUME IInv PROVE DefaultsAreConsistent
  <2> SUFFICES ASSUME stage = "up",
                      \A f \in {"ListenHTTP", "ListenHTTPS", "PublicHTTPPort"} : env[f] = Empty,
                      flagged \cap {"ListenHTTP", "ListenHTTPS", "PublicHTTPPort", "Email"} = {}
               PROVE  Reaches(UrlPort(cfg))
    BY DEF DefaultsAreConsistent
  <2>1. \A f \in {"ListenHTTP", "ListenHTTPS", "PublicHTTPPort", "Email"} :
          cfg[f] = IF env[f] # Empty THEN env[f] ELSE Default(f, env.Email)
    BY <1>1 DEF IInv, LoadInv, FromEnv, Fields
  <2>2. cfg["Email"] = env.Email
    <3>1. Default("Email", env.Email) = Empty
      BY DEF Default
    <3> QED
      BY <2>1, <3>1
  <2>3. cfg["PublicHTTPPort"] = Empty
    <3>1. Default("PublicHTTPPort", env.Email) = Empty
      BY DEF Default
    <3> QED
      BY <2>1, <3>1
  <2>4. cfg["ListenHTTP"] = IF env.Email # Empty THEN 80 ELSE 8080
    <3>1. Default("ListenHTTP", env.Email) = IF env.Email # Empty THEN 80 ELSE 8080
      BY DEF Default
    <3> QED
      BY <2>1, <3>1
  <2>5. cfg["ListenHTTPS"] = 443
    <3>1. Default("ListenHTTPS", env.Email) = 443
      BY DEF Default
    <3> QED
      BY <2>1, <3>1
  <2>6. Empty \notin {80, 443, 8080}
    <3>1. 80 \in Ports /\ 443 \in Ports /\ 8080 \in Ports
      BY DEF Ports
    <3> QED
      BY <3>1, EmptyAssumption
  <2>7. publicPortSuffix(cfg) =
          IF cfg["ListenHTTP"] \in {80, 443} THEN Empty ELSE cfg["ListenHTTP"]
    BY <2>3 DEF publicPortSuffix
  <2>8. CASE env.Email # Empty
    <3>1. UrlPort(cfg) = 443
      BY <2>2, <2>4, <2>7, <2>8 DEF UrlPort, SchemePort, Enabled
    <3> QED
      BY <2>2, <2>5, <2>6, <2>8, <3>1 DEF Reaches, FrontPort, Enabled
  <2>9. CASE env.Email = Empty
    <3>1. UrlPort(cfg) = 8080
      BY <2>4, <2>6, <2>7, <2>9 DEF UrlPort
    <3> QED
      BY <2>2, <2>4, <2>6, <2>9, <3>1 DEF Reaches, FrontPort, Enabled
  <2> QED
    BY <2>8, <2>9
<1> QED
  BY <1>1, Invariance, PTL
=============================================================================
