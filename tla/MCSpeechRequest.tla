--------------------------- MODULE MCSpeechRequest ---------------------------
(* A plain request or one that differs from it in one of its fields, beside  *)
(* a request for at most two tokens.                                         *)
EXTENDS SpeechRequest

MCAlias == [l \in {"en", "english", "ar", "fr"} |-> IF l = "english" THEN "en" ELSE l]

Plain == [text |-> 1, language |-> "en", reference |-> "clip", limit |-> <<>>, weight |-> <<>>,
          penalty |-> <<>>, policy |-> "reference", unsupported |-> FALSE]

Fields ==
  [text |-> {0, 4, 5}, language |-> {"english", "fr", "xx"},
   reference |-> {"voice", "none", "malformed", "unusable"}, limit |-> {<<0>>, <<1>>, <<3>>, <<4>>},
   weight |-> {<<-1>>, <<0>>, <<1>>, <<6>>, <<11>>}, penalty |-> {<<0>>, <<1>>, <<9>>},
   policy |-> {"hardened", "none"}, unsupported |-> {TRUE}]

Varied(base) ==
  UNION {{[base EXCEPT ![f] = v] : v \in Fields[f]} : f \in DOMAIN Fields}

MCRequests == <<{Plain} \cup Varied(Plain), {[Plain EXCEPT !.limit = <<2>>, !.policy = "hardened"]}>>
=============================================================================
