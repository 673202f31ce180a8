----------------------------- MODULE MCExecution ----------------------------
EXTENDS Execution

CONSTANTS a, b

MCOptions ==
  {<<"WithInsecure">>, <<"WithGRPCConn", "caller">>, <<"WithGRPCConn", "nil">>,
   <<"WithGRPCDialOptions", <<>> >>, <<"WithGRPCDialOptions", << <<"creds", "mTLS">> >> >>,
   <<"WithHeader", "auth", "1">>, <<"WithHeader", "Auth", "2">>, <<"WithHeader", "grpc-timeout", "1">>}

(* No option, one, every pair in both orders; the other client is on the    *)
(* caller's connection.                                                     *)
MCOptionLists ==
  [c \in Clients |->
     IF c = a THEN {<<>>} \cup {<<o>> : o \in MCOptions} \cup (MCOptions \X MCOptions)
     ELSE {<<<<"WithGRPCConn", "caller">>>>}]

MCEndpoints == {[scheme |-> "grpc", rest |-> "host"], [scheme |-> "https", rest |-> "host"]}

(* A success with an event and an owner that does not parse, a failure that *)
(* is described, and one that is not.                                       *)
MCOutcomes ==
  << [success |-> "yes", description |-> "", owner |-> "BAD_ADDRESS", events |-> <<"ok">>,
      outputs |-> << [mutated |-> << [argument |-> [kind |-> "GAS"], value |-> "0"],
                                     [argument |-> [kind |-> "INPUT", index |-> 3], value |-> "1"] >>,
                      returned |-> <<>>],
                     [mutated |-> << [argument |-> [kind |-> "RESULT", index |-> 0, subresult |-> Unset],
                                      value |-> "2"] >>,
                      returned |-> <<"3", "4">>] >>],
     [success |-> "no", description |-> "abort", owner |-> "ADDRESS", events |-> <<>>, outputs |-> <<>>],
     [success |-> "no", description |-> "", owner |-> "ADDRESS", events |-> <<>>, outputs |-> <<>>] >>

(* A sponsored transaction. *)
MCSigners == [tx \in Txs |-> {"sender", "sponsor"}]

(* Both signatures in both orders and forms, the sender's alone, and one    *)
(* that is none.                                                            *)
MCSignatureLists ==
  { << <<"Ed25519", "sender">>, <<"text", "sponsor">> >>,
    << <<"Base64Data", "sponsor">>, <<"bytes", "sender">> >>,
    << <<"Secp256k1", "sender">> >>,
    << <<"text", "sender">>, <<"text", "not base64">> >> }

MCExecuteOptions == {{"RawInput"}, {"Effects", "Events", "ObjectChanges", "BalanceChanges"}}
=============================================================================
