-------------------------------- MODULE Https --------------------------------
(***************************************************************************)
(* Https: the transport the daemon starts with, the certificate files that *)
(* `tailscale cert` writes, and the certificate that is served.  The daily *)
(* renewal and any number of "Re-issue now" requests write the same files, *)
(* each the chain and then the key, and only the renewal reloads them; an  *)
(* admin saves another configuration meanwhile, which waits for a restart. *)
(***************************************************************************)
EXTENDS Naturals, Absent

CONSTANTS
  Domain,     \* bound: the domains an admin enters
  Admin,      \* bound: "Re-issue now" requests at a time
  MaxSerial   \* bound: certificates issued

Boot == "boot"  \* the issuer of the start, then of the renewal
Issuer == Admin \cup {Boot}

ASSUME HttpsAssumption ==
  /\ None \notin Domain /\ Boot \notin Admin
  /\ MaxSerial \in Nat
  /\ None \notin [domain : Domain, serial : 1..MaxSerial]
  /\ None \notin [domain : Domain, at : {"issue", "key", "reload"}, cert : [domain : Domain, serial : 1..MaxSerial] \cup {None}]

HttpsConfig == [mode : {"off", "tailscale", "acme"}, domain : Domain \cup {None}]
disabled == [mode |-> "off", domain |-> None]

(* A certificate: one more serial for each that is issued. *)
Cert == [domain : Domain, serial : 1..MaxSerial]

VARIABLES
  saved,    \* the https_config row
  server,   \* the transport: starting, a mode, or down; and the domain it has
  chain,    \* fullchain.pem, or None
  key,      \* privkey.pem, or None
  served,   \* the certificate in RustlsConfig, or None
  work,     \* work[i]: the run of tailscale cert that i waits for, or None
  serial,   \* the last serial issued
  foreign,  \* history: since the start, a request wrote files for a domain not served
  touched   \* history: since the last load, something wrote the files

files      == <<chain, key>>
https_vars == <<saved, server, files, served, work, serial, foreign, touched>>

-----------------------------------------------------------------------------
(* put_https asks for a domain; a row from elsewhere may lack it.          *)
valid_https(c) == c.mode \in {"tailscale", "acme"} => c.domain # None

(* spawn_server: without the domain it needs, a mode is not used.          *)
effective(c) == IF valid_https(c) THEN c ELSE disabled

HttpsInit ==
  /\ saved = disabled
  /\ server = disabled
  /\ chain = None /\ key = None
  /\ served = None
  /\ work = [i \in Issuer |-> None]
  /\ serial = 0
  /\ foreign = FALSE /\ touched = FALSE

-----------------------------------------------------------------------------
put_https(c) ==
  /\ server.mode \in {"off", "tailscale", "acme"}
  /\ valid_https(c)
  /\ saved' = c
  /\ UNCHANGED <<server, files, served, work, serial, foreign, touched>>

(* The database is replaced under a daemon that is stopped or running.     *)
Replaced(c) ==
  /\ saved' = c
  /\ UNCHANGED <<server, files, served, work, serial, foreign, touched>>

(* The daemon starts, again or after a crash, and what the old one waited  *)
(* for goes with it, files half written included.                          *)
own(d) == [domain |-> d, at |-> "issue", cert |-> None]

Start ==
  LET c == effective(saved)
  IN  /\ server' = IF c.mode = "tailscale" THEN [c EXCEPT !.mode = "starting"] ELSE c
      /\ work' = [i \in Issuer |-> IF i = Boot /\ c.mode = "tailscale" THEN own(c.domain) ELSE None]
      /\ served' = None
      /\ foreign' = FALSE /\ touched' = FALSE
      /\ UNCHANGED <<saved, files, serial>>

-----------------------------------------------------------------------------
(* Who runs tailscale cert: the start, then the renewal, for the domain of *)
(* the start; a request for the one that is saved by now.                  *)
mut_renewed == saved.domain
renewed == server.domain

Renew ==
  /\ server.mode = "tailscale" /\ work[Boot] = None
  /\ work' = [work EXCEPT ![Boot] = own(renewed)]
  /\ UNCHANGED <<saved, server, files, served, serial, foreign, touched>>

reissue_https_cert(a) ==
  /\ server.mode \in {"off", "tailscale", "acme"} /\ work[a] = None
  /\ saved.mode = "tailscale" /\ saved.domain # None
  /\ work' = [work EXCEPT ![a] = own(saved.domain)]
  /\ UNCHANGED <<saved, server, files, served, serial, foreign, touched>>

(* run_tailscale_cert writes the chain ...                                 *)
At(i, at) == work[i] # None /\ work[i].at = at

Issue(i) ==
  /\ At(i, "issue")
  /\ serial < MaxSerial /\ serial' = serial + 1
  /\ LET cert == [domain |-> work[i].domain, serial |-> serial']
     IN  /\ chain' = cert
         /\ work' = [work EXCEPT ![i] = [domain |-> cert.domain, at |-> "key", cert |-> cert]]
  /\ foreign' = (foreign \/ (i # Boot /\ work[i].domain # server.domain))
  /\ touched' = (touched \/ i # Boot)
  /\ UNCHANGED <<saved, server, key, served>>

(* ... and then the key.  Only the daemon's own run is followed by a load. *)
mut_Written(i) ==
  IF i = Boot /\ server.mode = "starting" THEN [work EXCEPT ![i].at = "reload"] ELSE [work EXCEPT ![i] = None]
Written(i) == IF i = Boot THEN [work EXCEPT ![i].at = "reload"] ELSE [work EXCEPT ![i] = None]

WriteKey(i) ==
  /\ At(i, "key")
  /\ key' = work[i].cert
  /\ work' = Written(i)
  /\ touched' = (touched \/ i # Boot)
  /\ UNCHANGED <<saved, server, chain, served, serial, foreign>>

(* What fails ends the server if it was starting, and nothing otherwise.   *)
Ended(i) ==
  /\ work' = [work EXCEPT ![i] = None]
  /\ server' = IF i = Boot /\ server.mode = "starting" THEN [server EXCEPT !.mode = "down"] ELSE server

Fail(i) ==
  /\ work[i] # None
  /\ Ended(i)
  /\ touched' = (touched \/ ~At(i, "issue"))
  /\ UNCHANGED <<saved, files, served, serial, foreign>>

(* Both files are read; they load if they belong together.                 *)
Load ==
  /\ At(Boot, "reload")
  /\ chain = key
  /\ served' = chain
  /\ work' = [work EXCEPT ![Boot] = None]
  /\ server' = [server EXCEPT !.mode = "tailscale"]
  /\ touched' = FALSE
  /\ UNCHANGED <<saved, files, serial, foreign>>

HttpsNext ==
  \/ \E c \in HttpsConfig : put_https(c) \/ Replaced(c)
  \/ Start \/ Renew \/ Load
  \/ \E a \in Admin : reissue_https_cert(a)
  \/ \E i \in Issuer : Issue(i) \/ WriteKey(i) \/ Fail(i)

HttpsSpec == HttpsInit /\ [][HttpsNext]_https_vars

-----------------------------------------------------------------------------
(* Every variable has its type, and TLS is served with a certificate.      *)
Work == [domain : Domain, at : {"issue"}, cert : {None}]
        \cup [domain : Domain, at : {"key", "reload"}, cert : Cert]

HttpsTypeOK ==
  /\ saved \in HttpsConfig
  /\ server \in [mode : {"starting", "off", "tailscale", "acme", "down"}, domain : Domain \cup {None}]
  /\ {chain, key, served} \subseteq Cert \cup {None}
  /\ work \in [Issuer -> Work \cup {None}]
  /\ serial \in 0..MaxSerial
  /\ foreign \in BOOLEAN /\ touched \in BOOLEAN
  /\ server.mode = "tailscale" <=> served # None

(* The server speaks for the domain it was started with, whatever is saved *)
(* and renewed since, as long as no request re-issued for another domain   *)
(* and so had the renewal load foreign files.                              *)
ServedIsOwn == server.mode = "tailscale" /\ ~foreign => served.domain = server.domain

(* The certificate the System page reads from disk is the one that is      *)
(* served, unless a re-issue, which reloads nothing, wrote the files, or a *)
(* renewal failed on its way.                                              *)
StatusIsServed ==
  server.mode = "tailscale" /\ ~touched /\ work[Boot] = None => chain = served /\ key = served
=============================================================================
