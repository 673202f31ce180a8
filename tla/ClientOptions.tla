---------------------------- MODULE ClientOptions ---------------------------
(***************************************************************************)
(* How suiclient.New turns an endpoint and options into a client           *)
(* (suiclient/options.go, suiclient/new.go, client/client.go,              *)
(* client/auth.go).  A connection has a target, a transport security and   *)
(* the headers it sends with every request.  An option is a tagged tuple:  *)
(*   <<"WithGRPCDialOptions", list>>   of <<"creds", security>>            *)
(*   <<"WithGRPCConn", name>>          a connection, or "nil"              *)
(*   <<"WithInsecure">>                                                    *)
(*   <<"WithHeader", key, value>>                                          *)
(***************************************************************************)
EXTENDS Integers, Sequences, SequencesExt

(* Every option there can be.  Connections are one of the caller's and nil, *)
(* credentials are told apart by what they secure.                          *)
Options ==
  ({"WithGRPCDialOptions"} \X Seq({"creds"} \X {"TLS", "plaintext", "mTLS"}))
    \cup ({"WithGRPCConn"} \X {"caller", "nil"}) \cup {<<"WithInsecure">>}
    \cup ({"WithHeader"} \X STRING \X STRING)

(* strings.ToLower on the keys used. *)
ToLower(key) == IF key = "Auth" THEN "auth" ELSE key

(* Not reserved by gRPC, and in its character set. *)
ValidHeaderKey(key) == ToLower(key) \notin {"", ":path", "grpc-timeout", "two words"}

(* Entries of a map put over those of another; @@ has no proof rules. *)
Over(new, old) ==
  [key \in DOMAIN new \cup DOMAIN old |-> IF key \in DOMAIN new THEN new[key] ELSE old[key]]

EmptyConfig == [dial |-> <<>>, conn |-> "nil", headers |-> <<>>, insecure |-> "no"]

Apply(cfg, option) ==
  CASE option[1] = "WithGRPCDialOptions" -> [cfg EXCEPT !.dial = @ \o option[2]]
    [] option[1] = "WithGRPCConn" -> [cfg EXCEPT !.conn = option[2]]
    [] option[1] = "WithInsecure" -> [cfg EXCEPT !.insecure = "yes"]
    [] option[1] = "WithHeader" ->
         [cfg EXCEPT !.headers = Over([key \in {ToLower(option[2])} |-> option[3]], @)]

(* An endpoint is [scheme, rest]; the port is 443 if none is given. *)
ParseEndpoint(endpoint) ==
  IF endpoint.scheme \notin {"none", "grpc"} \/ endpoint.rest \in {"", "host/path"} THEN "invalid"
  ELSE IF endpoint.rest = "host" THEN "host:443"
  ELSE endpoint.rest

(* EXTERNAL: grpc.NewClient applies the dial options in their order, so the *)
(* last credentials count.                                                  *)
GrpcDial(target, dialOptions) ==
  FoldLeft(LAMBDA conn, o :
             IF o[1] = "creds" THEN [conn EXCEPT !.security = o[2]]
             ELSE [conn EXCEPT !.headers = Over(o[2], @)],
           [target |-> target, security |-> "none", headers |-> <<>>], dialOptions)

(* What New returns: an error, a client on the caller's connection, or a    *)
(* client on one dialled for it, which is then its ownedConn.               *)
NewClientWithConn(name) == [err |-> "none", uses |-> name]
NewClientError(why) == [err |-> why, uses |-> "nil"]

(* dialled is "error" if gRPC refuses the target or the options. *)
NewClient(endpoint, dialOptions, dialled) ==
  LET target == ParseEndpoint(endpoint)
  IN IF target = "invalid" THEN NewClientError("endpoint")
     ELSE IF dialled = "error" THEN NewClientError("dial")
     ELSE [err |-> "none", uses |-> "ownedConn",
           ownedConn |-> GrpcDial(target, <<<<"creds", "TLS">>>> \o dialOptions)]

(* Mutant: plaintext is put behind the caller's dial options. *)
DialOptions_last(cfg) ==
  cfg.dial
    \o (IF cfg.insecure = "yes" THEN <<<<"creds", "plaintext">>>> ELSE <<>>)
    \o (IF cfg.headers # <<>> THEN <<<<"headers", cfg.headers>>>> ELSE <<>>)

(* WithInsecure goes before the caller's dial options, the headers after. *)
DialOptions(cfg) ==
  (IF cfg.insecure = "yes" THEN <<<<"creds", "plaintext">>>> ELSE <<>>)
    \o cfg.dial
    \o (IF cfg.headers # <<>> THEN <<<<"headers", cfg.headers>>>> ELSE <<>>)

(* suiclient.New *)
New(endpoint, options, dialled) ==
  LET cfg == FoldLeft(Apply, EmptyConfig, options)
  IN IF \E k \in DOMAIN cfg.headers : ~ ValidHeaderKey(k) THEN NewClientError("header")
     ELSE IF cfg.conn # "nil" /\ cfg.dial # <<>> THEN NewClientError("dial options")
     ELSE IF cfg.conn # "nil" /\ cfg.headers # <<>> THEN NewClientError("headers")
     ELSE IF cfg.conn # "nil" THEN NewClientWithConn(cfg.conn)
     ELSE NewClient(endpoint, DialOptions(cfg), dialled)
=============================================================================
