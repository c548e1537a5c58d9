------------------------------- MODULE RuleExt ------------------------------
(***************************************************************************)
(* The extensions of a rule (pkg/controller/ext, extctl): what the         *)
(* annotations of an ingress put on the rule made from it, what a rule     *)
(* inherits from its frontend and its alb, what a frontend does on its     *)
(* own, and how equal configurations are shared between policies.          *)
(*                                                                         *)
(* cr is a rule resource, ft the frontend resource it hangs on and alb the *)
(* alb resource; each has the fields timeout, auth, otel and waf (pointers)*)
(* and ft and cr have redirect.  A timeout is a function from some of its  *)
(* settings to numbers.  An otel setting is a function that always has     *)
(* "enable" and may have others.  A redirect is [code, url, scheme, host,  *)
(* port], with 0 and "" when a part is not set.                            *)
(***************************************************************************)
EXTENDS RouteTranslate

(* ------------------- from an ingress to its rule ---------------------- *)

(* The prefixes of an annotation, strongest first.                         *)
AnnotationPrefixes == <<"index", "alb", "nginx">>

(* ResolverXFromAnnotation: the value under the strongest prefix, or "".   *)
Resolve(ann, key) ==
    LET has == {i \in DOMAIN AnnotationPrefixes :
                  <<AnnotationPrefixes[i], key>> \in DOMAIN ann}
    IN  IF has = {} THEN "" ELSE ann[<<AnnotationPrefixes[Min(has)], key>>]

(* The older extensions read one annotation and no other.                  *)
Plain(ann, key) ==
    IF <<"nginx", key>> \in DOMAIN ann THEN ann[<<"nginx", key>>] ELSE ""

HasTls(ing) == ing.host # <<>> /\ ing.host \in ing.tls

NoRedirect == [code |-> 0, url |-> "", scheme |-> "", host |-> "", port |-> 0]

Empty(r) == [r EXCEPT !.code = 0] = NoRedirect

OnlySslRedirect(r, port) ==
    /\ r.url = "" /\ r.scheme = "https" /\ r.host = ""
    /\ r.port \in {0, port}

(* stringToIntOr, on the numbers the annotations of a model hold.          *)
StringToIntOr(text, default) ==
    CASE text = "301" -> 301 [] text = "302" -> 302 [] text = "443" -> 443
      [] OTHER -> default

(* A url of the temporal kind replaces a permanent one.  ReAssign leaves   *)
(* permanent-redirect-code in the code even when there is no url.          *)
BuildRedirectCR(ing) ==
    LET Ann(key) == Resolve(ing.ann, key)
        perm == Ann("permanent-redirect")
        permCode == Ann("permanent-redirect-code")
        temp == Ann("temporal-redirect")
        ssl == \/ Ann("force-ssl-redirect") = "true"
               \/ Ann("ssl-redirect") = "true" /\ HasTls(ing)
        cr == [code |-> CASE temp # "" ->
                              StringToIntOr(Ann("temporal-redirect-code"), 302)
                          [] temp = "" /\ perm # "" ->
                              StringToIntOr(permCode, 301)
                          [] temp = "" /\ perm = "" /\ permCode # "" ->
                              StringToIntOr(permCode, 308)
                          [] OTHER -> IF ssl THEN 308 ELSE 0,
               url |-> IF temp # "" THEN temp ELSE perm,
               scheme |-> IF ssl THEN "https" ELSE "",
               host |-> Ann("redirect-host"),
               port |-> IF Ann("redirect-port") = "" THEN 0
                        ELSE StringToIntOr(Ann("redirect-port"), 308)]
    IN  IF Empty(cr) THEN Nil ELSE <<cr>>

(* Mutated form: an https frontend redirects to https like any other.      *)
RedirectAnnotationAnyFt(ft, ing) == BuildRedirectCR(ing)

(* An https frontend does not redirect to itself.                          *)
RedirectAnnotation(ft, ing) ==
    LET cr == BuildRedirectCR(ing)
    IN  IF cr # Nil /\ ft.protocol = "https" /\ OnlySslRedirect(cr[1], ft.port)
        THEN Nil ELSE cr

(* A value parseTimeout refuses spoils the whole setting.                  *)
ParseTimeout(text) ==
    CASE text = "3s" -> <<3000>> [] text = "3" -> <<3000>>
      [] text = "7ms" -> <<7>> [] OTHER -> Nil

TimeoutAnnotation(ing) ==
    LET keys == {"connect", "read", "send"}
        set == {k \in keys : Resolve(ing.ann, k) # ""}
        bad == {k \in set : ParseTimeout(Resolve(ing.ann, k)) = Nil}
    IN  IF set = {} \/ bad # {} THEN Nil
        ELSE <<[k \in set |-> ParseTimeout(Resolve(ing.ann, k))[1]]>>

WafAnnotation(ing) ==
    LET on == Plain(ing.ann, "enable-modsecurity")
    IN  IF on = "" THEN Nil
        ELSE <<[enable |-> on = "true",
                core |-> Plain(ing.ann, "enable-owasp-core-rules") = "true",
                snippet |-> Plain(ing.ann, "modsecurity-snippet"),
                cm |-> Plain(ing.ann, "modsecurity-cm-ref")]>>

OtelAnnotation(ing) ==
    LET on == Plain(ing.ann, "enable-opentelemetry")
    IN  IF on = "" THEN Nil ELSE <<[enable |-> on]>>

(* IngressWithFtAnnotationToRule, the redirect and timeout extensions      *)
(* first, then the older ones.                                             *)
IngressWithFtAnnotationToRule(ft, ing, rule) ==
    [rule EXCEPT !.redirect = RedirectAnnotation(ft, ing),
                 !.timeout = TimeoutAnnotation(ing),
                 !.waf = WafAnnotation(ing),
                 !.otel = OtelAnnotation(ing)]

(* ------------------- from a rule to its policy ------------------------ *)

(* ToInternalRule of the timeout and auth extensions: rule, then frontend, *)
(* then alb, and the name of the one it came from.                         *)
Inherit(kind, cr, ft, alb) ==
    CASE cr[kind] # Nil -> [val |-> cr[kind], src |-> cr.name]
      [] cr[kind] = Nil /\ ft[kind] # Nil -> [val |-> ft[kind], src |-> ft.name]
      [] OTHER -> [val |-> alb[kind], src |-> alb.name]

DefaultOtel == [enable |-> "false", sampler |-> "always_on"]

(* MergeWithDefaultJsonPatch: default < alb < frontend < rule, setting by  *)
(* setting.                                                                *)
MergeOtel(cr, ft, alb) ==
    FoldLeft(LAMBDA acc, c : c @@ acc, DefaultOtel, alb.otel \o ft.otel \o cr.otel)

OtelToInternal(cr, ft, alb) ==
    LET need == \E c \in Range(alb.otel \o ft.otel \o cr.otel) : c.enable = "true"
        cf == MergeOtel(cr, ft, alb)
    IN  IF need /\ cf.enable = "true" THEN <<cf>> ELSE Nil

(* Mutated form: the location is named after the frontend alone.           *)
MergeWafFtKey(cr, ft, alb) ==
    [waf |-> CASE cr.waf # Nil -> cr.waf
               [] cr.waf = Nil /\ ft.waf # Nil -> ft.waf
               [] OTHER -> alb.waf,
     key |-> <<"ft", ft.name>>]

(* mergeWaf: the strongest setting with the name of its nginx location.    *)
MergeWaf(cr, ft, alb) ==
    CASE cr.waf # Nil /\ cr.source # Nil ->
            [waf |-> cr.waf, key |-> <<"ing", cr.source[1]>>]
      [] cr.waf # Nil /\ cr.source = Nil ->
            [waf |-> cr.waf, key |-> <<"rule", cr.name>>]
      [] cr.waf = Nil /\ ft.waf # Nil ->
            [waf |-> ft.waf, key |-> <<"ft", ft.name>>]
      [] OTHER -> [waf |-> alb.waf, key |-> <<"alb", ft.name>>]

(* The setting is kept only when it is on.                                 *)
WafToInternal(cr, ft, alb) ==
    LET m == MergeWaf(cr, ft, alb)
    IN  IF m.waf = Nil \/ ~(\E w \in Range(m.waf) : w.enable) THEN Nil
        ELSE <<[key |-> m.key, raw |-> m.waf[1]]>>

(* mergeLegacyRedirectConfig: the old fields of the rule win.              *)
RedirectToInternal(cr) ==
    IF cr.redirect = Nil /\ cr.legacy = Nil THEN Nil
    ELSE LET base == IF cr.redirect = Nil THEN NoRedirect ELSE cr.redirect[1]
         IN  IF cr.legacy = Nil THEN <<base>>
             ELSE <<[base EXCEPT
                       !.url = IF cr.legacy[1].url = "" THEN @
                               ELSE cr.legacy[1].url,
                       !.code = IF cr.legacy[1].code = 0 THEN @
                                ELSE cr.legacy[1].code]>>

(* RuleToInternalRule with ToInternalRule of every extension.  src holds   *)
(* the configuration's sources: a map that is always made here.  (The      *)
(* source of a waf setting is its location and is never looked up.)        *)
RuleToInternalRule(cr, ft, alb) ==
    LET timeout == Inherit("timeout", cr, ft, alb)
        auth == Inherit("auth", cr, ft, alb)
        waf == WafToInternal(cr, ft, alb)
        src == (IF timeout.val = Nil THEN <<>> ELSE "timeout" :> timeout.src)
               @@ (IF auth.val = Nil THEN <<>> ELSE "auth" :> auth.src)
    IN  [EmptyRule EXCEPT
           !.id = cr.name, !.prio = cr.prio, !.matcher = cr.matcher,
           !.dslx = cr.dslx, !.domain = cr.domain, !.cert = cr.cert,
           !.source = cr.source, !.svcs = cr.svcs, !.proto = cr.proto,
           !.timeout = timeout.val, !.auth = auth.val, !.waf = waf,
           !.otel = OtelToInternal(cr, ft, alb),
           !.redirect = RedirectToInternal(cr), !.src = <<src>>]

(* ------------------ what a frontend does by itself -------------------- *)

(* On a tcp frontend the setting of the alb is written over the            *)
(* frontend's.                                                             *)
InitL4Ft(ft, cr, alb) ==
    IF ft.protocol # "tcp" THEN ft
    ELSE [ft EXCEPT !.timeout = IF alb.timeout # Nil THEN alb.timeout
                                ELSE cr.timeout,
                    !.keepalive = cr.keepalive]

IsIngressSSLRedirectFrontend(cr, alb) ==
    /\ cr.protocol = "http"
    /\ alb.sslRedirect
    /\ alb.httpPort # <<0>>
    /\ cr.port = IF alb.httpPort = Nil THEN 80 ELSE alb.httpPort[1]

InitL7Ft(ft, cr, alb) ==
    [ft EXCEPT
       !.redirect = CASE cr.redirect # Nil -> cr.redirect
                      [] cr.redirect = Nil
                         /\ IsIngressSSLRedirectFrontend(cr, alb) ->
                            <<[NoRedirect EXCEPT !.code = 308,
                                                 !.scheme = "https"]>>
                      [] OTHER -> Nil,
       !.keepalive = cr.keepalive]

NeedL7DefaultPolicy(ft) == ft.redirect # Nil

(* --------------------------- the policies ----------------------------- *)

EmptyPolicy ==
    [ft |-> Nil, port |-> 0, rule |-> Nil, prio |-> 0, complex |-> 0, dslLen |-> 0,
     upstream |-> Nil, proto |-> "http", timeout |-> Nil, auth |-> Nil, otel |-> Nil,
     redirect |-> Nil, loc |-> Nil, refs |-> Nil, plugins |-> {}]

MakeItMatchFirst(p) == [p EXCEPT !.prio = 0 - 1, !.complex = 999999999]

(* Mutated form: only the calculated priority is lowered.                  *)
MakeItMatchLastByComplexity(p) == [p EXCEPT !.complex = 0 - 1]

MakeItMatchLast(p) == [p EXCEPT !.prio = 999, !.complex = 0 - 1]

InitL7DefaultPolicy(ft, p) ==
    IF ft.redirect = Nil THEN p
    ELSE [MakeItMatchFirst(p) EXCEPT !.redirect = ft.redirect]

InitL4DefaultPolicy(ft, p) ==
    IF ft.timeout = Nil THEN p ELSE [p EXCEPT !.timeout = ft.timeout]

(* ToPolicy of every extension.                                            *)
ToPolicy(rule, p) ==
    [p EXCEPT !.timeout = rule.timeout, !.auth = rule.auth,
              !.otel = rule.otel, !.redirect = rule.redirect,
              !.loc = IF rule.waf = Nil THEN Nil ELSE <<rule.waf[1].key>>]

(* ToMaps: the kinds of configuration a policy carries.                    *)
ToMaps(p) == {k \in {"timeout", "otel", "auth", "redirect"} : p[k] # Nil}

SkipMerge == {"redirect"}

(* The name a shared configuration gets: its source, or the hash of its    *)
(* content when it has none.                                               *)
ShareId(p, k) ==
    IF p.refs # Nil /\ k \in DOMAIN p.refs[1]
    THEN [by |-> "source", name |-> p.refs[1][k], kind |-> k, hash |-> Nil]
    ELSE [by |-> "hash", name |-> Nil, kind |-> k, hash |-> p[k]]

(* init_http_share writes the ids into the policy's reference map: a       *)
(* policy that has none and something to share makes the program panic.    *)
SharePanics(p) == p.refs = Nil /\ ToMaps(p) \ SkipMerge # {}

(* Mutated form: a configuration with a source keeps the source's name.    *)
InitHttpShareKeepsSource(p) ==
    LET shared == ToMaps(p) \ SkipMerge
    IN  [p EXCEPT
           !.refs = IF shared = {} THEN @
                    ELSE <<[k \in shared \ DOMAIN @[1] |-> ShareId(p, k)]>>,
           !.timeout = IF "timeout" \in shared THEN Nil ELSE @,
           !.otel = IF "otel" \in shared THEN Nil ELSE @,
           !.auth = IF "auth" \in shared THEN Nil ELSE @,
           !.plugins = ToMaps(p)]

InitHttpShare(p) ==
    LET shared == ToMaps(p) \ SkipMerge
    IN  [p EXCEPT
           !.refs = IF shared = {} THEN @
                    ELSE <<[k \in shared |-> ShareId(p, k)]>>,
           !.timeout = IF "timeout" \in shared THEN Nil ELSE @,
           !.otel = IF "otel" \in shared THEN Nil ELSE @,
           !.auth = IF "auth" \in shared THEN Nil ELSE @,
           !.plugins = ToMaps(p)]

Claims(ps) ==
    UNION {{<<ShareId(p, k), p[k]>> : k \in ToMaps(p) \ SkipMerge} : p \in ps}

(* Mutated form: the configurations of a kind share one entry.             *)
SharedOfKind(ps) ==
    [id \in {e[1] : e \in Claims(ps)} |->
        (CHOOSE e \in Claims(ps) : e[1].kind = id.kind)[2]]

(* The shared entries of all policies; the first to claim an id fills it.  *)
Shared(ps) ==
    [id \in {e[1] : e \in Claims(ps)} |->
        (CHOOSE e \in Claims(ps) : e[1] = id)[2]]

(* The otel collector's name is resolved in the shared entry; when that    *)
(* fails the entry keeps the name, since only a copy is cleared.           *)
UpdatePolicyAfterUniq(share, dns) ==
    [id \in DOMAIN share |->
        IF id.kind = "otel" /\ dns
        THEN <<("resolved" :> "true") @@ share[id][1]>> ELSE share[id]]
=============================================================================
