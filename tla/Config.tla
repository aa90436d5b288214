------------------------------- MODULE Config -------------------------------
(***************************************************************************)
(* config/config.go: the settings of the server, from the environment.     *)
(*                                                                         *)
(* An environment gives some of the settings a value (DNS_CACHE_SIZE and   *)
(* so on), which stands for its text: a number, -1 for a text that is none *)
(* or is negative; the parts of a list, of which there may be none.        *)
(***************************************************************************)
EXTENDS Integers, SequencesExt

\* A server is the text ip:port: is ip an address, and what number is port?
Server1111 == [isIP |-> TRUE, port |-> 53]

DefaultAppConfig ==
  [cache_size |-> 1000, disable_cache |-> "false", env |-> "prod", log_level |-> "info",
   port |-> 53, zone_dir |-> "/etc/rr-dns/zones/", servers |-> <<Server1111, Server1111>>,
   max_recursion |-> 8]

ValidIPPort(server) == server.isIP /\ server.port \in 1..65535

\* The validate tags of AppConfig. A list without parts is not nil, so "required"
\* does not refuse it.
IsValidConfig(cfg) ==
  /\ cfg.cache_size >= 1
  /\ cfg.disable_cache \in {"true", "false"}
  /\ cfg.env \in {"dev", "prod"}
  /\ cfg.log_level \in {"debug", "info", "warn", "error"}
  /\ cfg.port \in 1..65534
  /\ cfg.zone_dir # ""
  /\ \A i \in DOMAIN cfg.servers : ValidIPPort(cfg.servers[i])
  /\ cfg.max_recursion >= 1

\* What the environment does not set is as in DEFAULT_APP_CONFIG.
Load(environ) ==
  LET cfg == environ @@ DefaultAppConfig
  IN IF IsValidConfig(cfg) THEN [ok |-> TRUE, cfg |-> cfg] ELSE [ok |-> FALSE]
=============================================================================
