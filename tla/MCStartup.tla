----------------------------- MODULE MCStartup -----------------------------
(* Settings to start with, for TLC. *)
EXTENDS Startup

Working ==
  [simple |-> FALSE, root |-> FALSE, named |-> TRUE, parses |-> TRUE, envKey |-> FALSE,
   acme |-> TRUE, url |-> "https", bind |-> "443", mail |-> TRUE, cookie |-> FALSE,
   methods |-> {"local", "google"}, users |-> {"local", "google"}, twice |-> FALSE, client |-> TRUE,
   mfa |-> TRUE, remember |-> TRUE, keep |-> TRUE, slots |-> 10, ring |-> 131072]

\* Settings that work, with each group of them varied by itself.
MCSettings ==
  LET Sizes   == {[Working EXCEPT !.slots = n, !.ring = r] :
                    n \in {0, 1, 64, 65, 300}, r \in {0, 4095, 131072, 1000000000}}
      Certs   == {[Working EXCEPT !.acme = a, !.url = u, !.bind = b, !.mail = m, !.cookie = c] :
                    a \in BOOLEAN, u \in {"none", "http", "https", "odd"},
                    b \in {"443", "loopback", "other"}, m \in BOOLEAN, c \in BOOLEAN}
      Logins  == {[Working EXCEPT !.acme = FALSE, !.url = u, !.methods = m, !.users = w, !.client = c, !.twice = t] :
                    u \in {"none", "https"}, m \in SUBSET {"local", "google", "unknown"},
                    w \in SUBSET {"local", "google", "microsoft"}, c \in BOOLEAN, t \in BOOLEAN}
      Factors == {[Working EXCEPT !.mfa = m, !.remember = r, !.simple = s, !.envKey = e] : m, r, s, e \in BOOLEAN}
      Files   == {[Working EXCEPT !.root = r, !.named = n, !.parses = p, !.simple = s] : r, n, p, s \in BOOLEAN}
  IN  Sizes \cup Certs \cup Logins \cup Factors \cup Files
=============================================================================
