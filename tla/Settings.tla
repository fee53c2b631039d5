------------------------------ MODULE Settings ------------------------------
(***************************************************************************)
(* The server's configuration, internal/config, and what main makes of it: *)
(* the environment, then the flags, then the listeners.  From the same     *)
(* settings the control plane derives the port of the public URLs and the  *)
(* challenge listener its redirects, so all of them have to agree.         *)
(*                                                                         *)
(* The settings are a record with the fields of Config; ports are numbers. *)
(* The settings that are left out are read in the same way.                *)
(***************************************************************************)
EXTENDS Naturals, FiniteSets

CONSTANTS
  Empty,      \* an unset or empty variable, an empty flag
  Choices,    \* Choices[f]: what an operator may set f to
  MaxFlags    \* bound: the flags on one command line

Fields == {"ListenHTTP", "ListenHTTPS", "ListenControl", "PublicHTTPPort",
           "Email", "DNSProvider", "ProxyProtocolTrusted"}

Ports == 1..65535

\* The port the system picks for an empty address.
AnyPort == 0

ASSUME EmptyAssumption == Empty \notin Ports \cup {AnyPort}
ASSUME ChoicesAssumption ==
  /\ DOMAIN Choices = Fields
  /\ \A f \in {"ListenHTTP", "ListenHTTPS", "ListenControl", "PublicHTTPPort"} :
       Choices[f] \subseteq Ports
  /\ \A f \in Fields : Empty \notin Choices[f]
ASSUME MaxFlagsAssumption == MaxFlags \in Nat

VARIABLES
  stage,    \* how far main has come
  env,      \* the environment
  cfg,      \* the settings
  flagged,  \* the flags given so far
  args      \* their number

settingsVars == <<stage, env, cfg, flagged, args>>

May(f) == Choices[f] \cup {Empty}

Config == [ListenHTTP: May("ListenHTTP"), ListenHTTPS: May("ListenHTTPS"),
           ListenControl: May("ListenControl"), Email: May("Email"),
           PublicHTTPPort: May("PublicHTTPPort"),
           DNSProvider: May("DNSProvider"),
           ProxyProtocolTrusted: May("ProxyProtocolTrusted")]

SettingsTypeOK ==
  /\ stage \in {"env", "flags", "up", "failed"}
  /\ env \in Config
  /\ flagged \subseteq Fields /\ args \in 0..MaxFlags
  /\ stage # "env" => \A f \in {"ListenHTTP", "ListenHTTPS", "ListenControl"} :
                         cfg[f] \in Ports \/ (f \in flagged /\ cfg[f] = Empty)

Enabled(c) == c.Email # Empty

\* Mutant of Default: the HTTP listener does not follow the mode.
DefaultFixed(f, email) ==
  CASE f = "ListenHTTP"    -> 8080
    [] f = "ListenHTTPS"   -> 443
    [] f = "ListenControl" -> IF email # Empty THEN 7443 ELSE 7080
    [] f = "DNSProvider"   -> "cloudflare"
    [] OTHER           -> Empty

\* The defaults, from the ACME_EMAIL of the environment.
Default(f, email) ==
  CASE f = "ListenHTTP"    -> IF email # Empty THEN 80 ELSE 8080
    [] f = "ListenHTTPS"   -> 443
    [] f = "ListenControl" -> IF email # Empty THEN 7443 ELSE 7080
    [] f = "DNSProvider"   -> "cloudflare"
    [] OTHER           -> Empty

\* Mutant of FromEnv: a variable that is empty is taken as it is.
FromEnvAsIs(e) == e

FromEnv(e) ==
  [f \in Fields |-> IF e[f] # Empty THEN e[f] ELSE Default(f, e.Email)]

-----------------------------------------------------------------------------
(* The listeners.                                                          *)

\* main's front end listens through net.Listen, which takes an empty address
\* for any port; net/http's own listeners take it for the scheme's port.
FrontPort(c) ==
  LET p == IF Enabled(c) THEN c.ListenHTTPS ELSE c.ListenHTTP
  IN  IF p = Empty THEN AnyPort ELSE p

ChallengePort(c) == IF c.ListenHTTP = Empty THEN 80 ELSE c.ListenHTTP

ControlPort(c) ==
  IF c.ListenControl # Empty THEN c.ListenControl ELSE IF Enabled(c) THEN 443 ELSE 80

\* Two listeners on one port: one of them fails, and the process exits.
Clash(c) ==
  \/ ControlPort(c) = FrontPort(c)
  \/ Enabled(c) /\ ChallengePort(c) \in {FrontPort(c), ControlPort(c)}

-----------------------------------------------------------------------------
(* Addresses the server gives out.  Scheme ports: 443 with ACME, else 80.  *)

SchemePort(c) == IF Enabled(c) THEN 443 ELSE 80

\* Mutant of publicPortSuffix: PUBLIC_HTTP_PORT is not looked at.
SuffixOfListener(c) ==
  IF c.ListenHTTP \in {80, 443} THEN Empty ELSE c.ListenHTTP

\* The port written into public URLs, Empty for none.
publicPortSuffix(c) ==
  LET port == IF c.PublicHTTPPort # Empty THEN c.PublicHTTPPort
              ELSE c.ListenHTTP
  IN  IF port \in {80, 443} THEN Empty ELSE port

\* The port a browser contacts for a public URL.
UrlPort(c) ==
  IF publicPortSuffix(c) = Empty THEN SchemePort(c) ELSE publicPortSuffix(c)

\* Mutant of RedirectPort: the port of the Host header is not kept.
RedirectToScheme(c) == 443

\* The port a browser contacts after redirectToHTTPS: "https://" and the Host
\* header, which names the challenge listener's port unless that is 80.
RedirectPort(c) == IF ChallengePort(c) = 80 THEN 443 ELSE ChallengePort(c)

-----------------------------------------------------------------------------

SettingsInit ==
  /\ stage = "env"
  /\ env = [f \in Fields |-> Empty]
  /\ cfg = env /\ flagged = {} /\ args = 0

\* Load in environment e, up to the flags.
ReadEnv(e) == /\ stage = "env"
              /\ env' = e
              /\ cfg' = FromEnv(e)
              /\ stage' = "flags"
              /\ UNCHANGED <<flagged, args>>

\* flag.Parse: the next flag of the command line.
ParseFlag(f, v) == /\ stage = "flags" /\ args < MaxFlags
                   /\ cfg' = [cfg EXCEPT ![f] = v]
                   /\ flagged' = flagged \cup {f}
                   /\ args' = args + 1
                   /\ UNCHANGED <<stage, env>>

\* main: the store, the trusted proxies (valid tells whether they parse), Setup
\* with ACME, and the listeners.  Any of them may also fail by itself.
Serve(valid) ==
  /\ stage = "flags"
  /\ \/ stage' = "failed"
     \/ /\ valid /\ (Enabled(cfg) => cfg.DNSProvider = "cloudflare")
        /\ ~ Clash(cfg)
        /\ stage' = "up"
  /\ UNCHANGED <<env, cfg, flagged, args>>

-----------------------------------------------------------------------------

Reaches(port) == port = FrontPort(cfg)

\* Whether the listeners are where URLs without PUBLIC_HTTP_PORT lead to: a
\* plain server is not on 443, a server with ACME is on 80 and 443.
OnUsualPorts(c) ==
  IF Enabled(c) THEN c.ListenHTTP \in {80, Empty} /\ c.ListenHTTPS = 443
  ELSE c.ListenHTTP \notin {443, Empty}

\* The public URLs of a server that has come up lead to its front end if its
\* listeners are on the usual ports or PUBLIC_HTTP_PORT names the front end's,
\* other than the default of the other scheme.  Without PUBLIC_HTTP_PORT they
\* lead there in no other case: a custom LISTEN_HTTPS never shows in them.
UrlReachesFrontEnd ==
  stage = "up" =>
    /\ cfg.PublicHTTPPort = Empty => (Reaches(UrlPort(cfg)) <=> OnUsualPorts(cfg))
    /\ cfg.PublicHTTPPort = FrontPort(cfg)
         /\ cfg.PublicHTTPPort # (IF Enabled(cfg) THEN 80 ELSE 443)
       => Reaches(UrlPort(cfg))

\* With ACME, a browser that starts at the challenge listener is redirected to
\* the front end in just those configurations in which the public URLs lead
\* there without PUBLIC_HTTP_PORT; that setting does not help redirects.
RedirectAgrees ==
  stage = "up" /\ Enabled(cfg) =>
    (Reaches(RedirectPort(cfg)) <=> OnUsualPorts(cfg))

\* "Listener defaults flip when ACME is on": a server whose operator sets no
\* port gives out URLs that lead to it, whichever mode is on, provided the mode
\* was chosen in the environment and not by the flag --acme-email.
DefaultsAreConsistent ==
  LET ports == {"ListenHTTP", "ListenHTTPS", "PublicHTTPPort"} IN
  /\ stage = "up"
  /\ \A f \in ports : env[f] = Empty
  /\ flagged \cap (ports \cup {"Email"}) = {}
  => Reaches(UrlPort(cfg))
=============================================================================
