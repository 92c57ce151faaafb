------------------------------- MODULE Startup -------------------------------
(***************************************************************************)
(* From a config file to a listening server (main.rs, config.rs, certs.rs, *)
(* identity.rs): the refusals in their order, what is derived from the     *)
(* settings, the cookie key that is generated once and kept, and a process *)
(* that may be killed between any two stages and started again, with the   *)
(* settings edited meanwhile.  A setting is the class of values the stages *)
(* tell apart; sizes are numbers.                                          *)
(***************************************************************************)
EXTENDS Integers, FiniteSets

CONSTANTS
  BootSettings,  \* settings an operator may write: see BootSetting
  MaxBoots       \* bound: times the server is started

Bytes == Nat
BootSetting ==
  [simple : BOOLEAN,                     \* `webshell simple` instead of `run`
   root : BOOLEAN,                       \* the effective uid is 0
   named : BOOLEAN,                      \* the config file exists; the environment names a user
   parses : BOOLEAN,                     \* it is well-formed, and so are the stores
   envKey : BOOLEAN,                     \* WEBSHELL_SECRET is set
   acme : BOOLEAN,                       \* certs.lets_encrypt_enabled
   url : {"none", "http", "https", "odd"},  \* public_base_url; odd: https, but no name to certify
   bind : {"443", "loopback", "other"},
   mail : BOOLEAN,                       \* contact_email is absent or looks like one
   cookie : BOOLEAN,                     \* network.cookie_secure
   methods : SUBSET {"local", "google", "unknown"},
   users : SUBSET {"local", "google", "microsoft"},  \* providers on the allowlist
   twice : BOOLEAN,                      \* somebody is on it twice
   client : BOOLEAN,                     \* google client id and secret
   mfa : BOOLEAN, remember : BOOLEAN,
   keep : BOOLEAN,                       \* auth.session_path is set
   slots : Nat, ring : Bytes]            \* max_sessions and scrollback_bytes, as requested

ASSUME StartupAssumption == BootSettings \subseteq BootSetting /\ MaxBoots \in Nat

VARIABLES
  boot,      \* the stage reached
  settings,  \* the settings on disk and in the environment
  fileKey,   \* auth.secret_base64 in the file: the boot that generated it, or 0
  boots,     \* times started
  running,   \* the Config this process serves with
  servedBy   \* checking only: the keys cookies were signed with, with the settings' envKey

bootVars == <<boot, settings, fileKey, boots, running, servedBy>>

Stages == {"off", "chosen", "loaded", "keyed", "certified", "checked", "serving", "refused"}
Providers == {"local", "google"}
EnvKey == -1
NoKey == 0
NoConfig == [slots |-> 1, cap |-> 4096, secure |-> FALSE, tls |-> FALSE, methods |-> {},
             mfa |-> FALSE, remember |-> FALSE, key |-> NoKey]

ClampTo(n, lo, hi) == IF n < lo THEN lo ELSE IF n > hi THEN hi ELSE n

----------------------------------------------------------------------------
(* Config::from_settings() and what derives from it. *)

AggregateBudget == 256 * 1024 * 1024
SlotsOf(s) == ClampTo(s.slots, 1, 64)
CapUnshared(s) == ClampTo(s.ring, 4 * 1024, 16 * 1024 * 1024)
CapOf(s) ==
  LET most == AggregateBudget \div SlotsOf(s)
      asked == ClampTo(s.ring, 4 * 1024, 16 * 1024 * 1024)
  IN  IF asked < most THEN asked ELSE most

MethodsOf(s) == IF s.simple THEN {"local"} ELSE s.methods \cap Providers
UsersOf(s) == IF s.simple THEN {"local"} ELSE s.users
RedirectUri(s) == ~s.simple /\ s.url # "none"
LocalUsable(s) == "local" \in MethodsOf(s) /\ "local" \in UsersOf(s)
GoogleUsable(s) == "google" \in MethodsOf(s) /\ s.client /\ RedirectUri(s)

RememberOf(s) == s.mfa /\ s.remember

SecureByUrl(s) == s.cookie \/ s.url \in {"https", "odd"}
SecureOf(s) == SecureByUrl(s) \/ s.acme    \* attach()

ConfigOf(s, key) ==
  IF s.simple
  THEN [NoConfig EXCEPT !.slots = 10, !.cap = 128 * 1024, !.methods = {"local"}, !.key = key]
  ELSE [slots |-> SlotsOf(s), cap |-> CapOf(s), secure |-> SecureOf(s), tls |-> s.acme,
        methods |-> MethodsOf(s), mfa |-> s.mfa, remember |-> RememberOf(s), key |-> key]

----------------------------------------------------------------------------
(* The stages. *)

BootInit ==
  /\ boot = "off" /\ settings \in BootSettings /\ fileKey = NoKey /\ boots = 0
  /\ running = NoConfig /\ servedBy = {}

\* A stage is passed if `good`, and otherwise the process exits.
Stage(from, to, good) ==
  /\ boot = from
  /\ boot' = IF good THEN to ELSE "refused"

BootKept == UNCHANGED <<settings, fileKey, boots, running, servedBy>>

\* ensure_unprivileged(), choose().
BootChoose ==
  /\ boots < MaxBoots
  /\ Stage("off", "chosen", ~settings.root /\ settings.named)
  /\ boots' = boots + 1
  /\ UNCHANGED <<settings, fileKey, running, servedBy>>

\* Settings::load(); run_simple() has nothing to load.
BootLoad == Stage("chosen", "loaded", settings.simple \/ settings.parses) /\ BootKept

\* No key anywhere: one is generated and saved, or the start is refused.
NeedsKey == ~settings.simple /\ ~settings.envKey /\ fileKey = NoKey
BootKeyUnsaved ==
  /\ boot = "loaded" /\ boot' = "keyed"
  /\ \E saved \in BOOLEAN : fileKey' = IF NeedsKey /\ saved THEN boots ELSE fileKey
  /\ UNCHANGED <<settings, boots, running, servedBy>>

BootKey ==
  \E saved \in BOOLEAN :
    /\ Stage("loaded", "keyed", ~NeedsKey \/ saved)
    /\ fileKey' = IF NeedsKey /\ saved THEN boots ELSE fileKey
    /\ UNCHANGED <<settings, boots, running, servedBy>>

\* certs::validate(): a public https name on 443, reachable, and an address.
BootCerts ==
  /\ Stage("keyed", "certified",
           \/ settings.simple \/ ~settings.acme
           \/ (settings.url = "https" /\ settings.bind = "443" /\ settings.mail))
  /\ BootKept

\* identity::validate() and the checks of the login methods.
AllowlistGood(s) == s.users # {} /\ s.users \subseteq Providers /\ ~s.twice
MethodsGood(s) ==
  /\ LocalUsable(s) \/ GoogleUsable(s)
  /\ "google" \in MethodsOf(s) => GoogleUsable(s)

BootCheck ==
  /\ Stage("certified", "checked",
           settings.simple \/ (AllowlistGood(settings) /\ MethodsGood(settings)))
  /\ BootKept

\* serve(): the stores load, the key is read, the address is bound.  Without
\* a key anywhere this process signs with one of its own.
SigningKey ==
  IF settings.envKey THEN EnvKey
  ELSE IF ~settings.simple /\ fileKey # NoKey THEN fileKey ELSE boots

Serve ==
  \E bound \in BOOLEAN :
    /\ Stage("checked", "serving", settings.parses /\ bound)
    /\ running' = IF boot' = "serving" THEN ConfigOf(settings, SigningKey) ELSE NoConfig
    /\ servedBy' = IF boot' = "serving" /\ ~settings.simple /\ ~settings.envKey
                   THEN servedBy \cup {SigningKey} ELSE servedBy
    /\ UNCHANGED <<settings, fileKey, boots>>

\* The process ends, at any stage; the operator may edit the settings.
BootEnds ==
  /\ boot # "off"
  /\ boot' = "off" /\ running' = NoConfig
  /\ settings' \in {settings} \cup {[settings EXCEPT !.envKey = ~@], [settings EXCEPT !.root = ~@]}
  /\ UNCHANGED <<fileKey, boots, servedBy>>

BootNext ==
  BootChoose \/ BootLoad \/ BootKey \/ BootCerts \/ BootCheck \/ Serve \/ BootEnds

BootSpec == BootInit /\ [][BootNext]_bootVars

----------------------------------------------------------------------------
(* Properties. *)

\* Types; only a server that got through every stage runs with a Config.
StartupTypeOK ==
  /\ boot # "serving" => running = NoConfig
  /\ boot \in Stages /\ settings \in BootSetting /\ boots \in 0..MaxBoots /\ fileKey \in 0..boots
  /\ running \in [slots : Nat, cap : Nat, secure : BOOLEAN, tls : BOOLEAN, methods : SUBSET Providers,
                  mfa : BOOLEAN, remember : BOOLEAN, key : {EnvKey} \cup Nat]
  /\ servedBy \subseteq Nat

\* The cookies of one start are good at the next: whatever is killed when, no
\* server signs with a generated key that is not the one on disk.
KeyKept == \A k \in servedBy : k = fileKey

\* A server that got through all its stages can work: a slot's index fits the
\* one byte a frame has for it, a ring is never empty (push() expects so) and
\* all rings of a user together stay in the budget; Google's button has the parts
\* it needs, no device skips a second factor there is not, and no cookie travels
\* in clear where it serves TLS.
ServesSoundly ==
  boot = "serving" =>
    /\ running.slots \in 1..255
    /\ running.cap > 0 /\ running.slots * running.cap <= AggregateBudget
    /\ "google" \in running.methods => settings.client /\ settings.url # "none"
    /\ running.remember => running.mfa
    /\ running.tls => running.secure /\ settings.bind = "443"

\* Somebody on the allowlist has a login method to use ("Everything a login
\* depends on is checked here, at startup, rather than discovered by the first
\* person who tries to sign in").
SomebodyMayLogIn ==
  boot = "serving" => running.methods \cap UsersOf(settings) # {}
=============================================================================
