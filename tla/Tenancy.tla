------------------------------ MODULE Tenancy ------------------------------
(***************************************************************************)
(* Which tenant a caller is (core/tenancy.py), at each of the two doors:   *)
(* behind an auth proxy the caller comes as headers (resolve_tenant), with *)
(* OAuth as the claims of a token (resolve_tenant_from_claims).  server.py *)
(* opens one of them.                                                      *)
(*                                                                         *)
(* An identity is a string.  Here it is what normalize_tenant makes of it  *)
(* (its stem) and how it was written (its spelling): case, punctuation and *)
(* a leading t_ are what normalising loses.                                *)
(***************************************************************************)
EXTENDS Integers

CONSTANTS
    Stem,       \* what is left of identities that are normalised
    Spelling    \* ways to write one stem

VARIABLES
  config,    \* the settings that decide
  caller,    \* what the proxy or the token says of the caller
  door,      \* "proxy" or "oauth"
  tenant     \* the namespace resolved, {} before that

tenancyVars == <<config, caller, door, tenant>>

Id == [stem : Stem \cup {"no letters"}, spelling : Spelling]

Optional(S) == {{}} \cup {{x} : x \in S}

Default == [stem |-> "default", spelling |-> 1]

Group == {"group 1", "group 2"}

\* bound: the map sends one subject, and the two groups, to tenants.  (In the
\* code they are keys of one dictionary; nobody is called like a group here.)
MappedSubject == CHOOSE id \in Id : id.stem \in Stem

Tenants == {id \in Id : id.stem \in Stem /\ id.spelling = 1}

\* subjectHeader, groupHeader: whether their names are set.  claim: whether
\* oauth_tenant_claim is the subject, as by default, or a claim of its own.
Config == [mode : {"auto", "shared", "private", "mapped"},
           subjectHeader : BOOLEAN, groupHeader : BOOLEAN, claim : {"sub", "own"},
           bySubject : Optional(Tenants), byGroup : [Group -> Optional(Tenants)]]

\* named: the tenant header, which clients set, or the claim of its own.
Caller == [subject : Optional(Id), named : Optional(Id),
           groups : {<<>>, <<"group 1">>, <<"group 2">>, <<"group 2", "group 1">>}]

TenancyInit ==
    /\ config \in Config /\ caller \in Caller /\ door \in {"proxy", "oauth"}
    /\ tenant = {}

Refusal == <<"refused">>

\* normalize_tenant
Normal(id) == IF id.stem = "no letters" THEN Refusal ELSE <<"t", id.stem>>

\* Mutant: a private tenant is the identity, normalised.
PrivateByName(id) == Normal(id)

\* _private_tenant: a hash, which tells all identities apart.
Private(id) == <<"hash", id>>

Only(set) == CHOOSE x \in set : TRUE

\* _mapped_tenant: the subject, or else the first group that has a tenant.
Mapped(subject, groups) ==
    LET known == {i \in DOMAIN groups : config.byGroup[groups[i]] # {}}
        first == CHOOSE i \in known : \A j \in known : i <= j
    IN  CASE subject = {MappedSubject} /\ config.bySubject # {} -> Normal(Only(config.bySubject))
          [] OTHER -> IF known = {} THEN Refusal
                      ELSE Normal(Only(config.byGroup[groups[first]]))

\* Mutant: who is in no map may choose.
MappedOrNamed(who) ==
    LET found == Mapped(IF config.subjectHeader THEN who.subject ELSE {},
                        IF config.groupHeader THEN who.groups ELSE <<>>)
    IN  IF found = Refusal /\ who.named # {} THEN Normal(Only(who.named)) ELSE found

HasMap == config.bySubject # {} \/ \E g \in Group : config.byGroup[g] # {}

\* A header whose name is not set is not there.
Provisioned(who) ==
    Mapped(IF config.subjectHeader THEN who.subject ELSE {},
           IF config.groupHeader THEN who.groups ELSE <<>>)

\* resolve_tenant
ByHeaders(who) ==
    CASE config.mode = "shared" -> Normal(Default)
      [] config.mode = "private" ->
             IF config.subjectHeader /\ who.subject # {} THEN Private(Only(who.subject))
             ELSE Refusal
      [] config.mode = "mapped" \/ (config.mode = "auto" /\ config.subjectHeader) ->
             Provisioned(who)
      [] OTHER -> Normal(IF who.named = {} THEN Default ELSE Only(who.named))

Claim(who) == IF config.claim = "sub" THEN who.subject ELSE who.named

\* Mutant: groups are left to the proxy.
ByClaimsWithoutGroups(who) ==
    CASE config.mode = "shared" -> Normal(Default)
      [] config.mode = "private" ->
             IF who.subject = {} THEN Refusal ELSE Private(Only(who.subject))
      [] OTHER -> Mapped(who.subject, <<>>)

\* resolve_tenant_from_claims
ByClaims(who) ==
    LET identity == IF Claim(who) # {} THEN Claim(who) ELSE who.subject
    IN  CASE config.mode = "shared" -> Normal(Default)
          [] config.mode = "private" ->
                 IF identity = {} THEN Refusal ELSE Private(Only(identity))
          [] config.mode = "mapped" \/ (config.mode = "auto" /\ HasMap) ->
                 Mapped(who.subject, who.groups)
          [] OTHER -> IF Claim(who) = {} THEN Refusal ELSE Normal(Only(Claim(who)))

Resolved(who) == IF door = "proxy" THEN ByHeaders(who) ELSE ByClaims(who)

\* _tenant in server.py
Resolve ==
    /\ tenant = {}
    /\ tenant' = {Resolved(caller)}
    /\ UNCHANGED <<config, caller, door>>

TenancyNext == Resolve

TenancySpec == TenancyInit /\ [][TenancyNext]_tenancyVars
-----------------------------------------------------------------------------
\* The settings under which the caller's own word does not count: any mode
\* but auto, and auto with a subject header, or with OAuth and a map.
Closed == \/ config.mode # "auto"
          \/ IF door = "proxy" THEN config.subjectHeader ELSE HasMap

\* In private mode, with identities from the subject, no two callers who are
\* told apart share a tenant, however alike their names.
PrivateIsPrivate ==
    config.mode = "private" /\ (door = "proxy" \/ config.claim = "sub") =>
        \A other \in Caller :
            tenant \ {Refusal} # {} /\ tenant = {Resolved(other)} =>
                other.subject = caller.subject

\* Where the caller's word does not count, it changes nothing: whatever else a
\* client writes into the tenant header, it gets the same tenant or is
\* refused all the same.  (A claim of a signed token is no such word.)
WordDoesNotCount ==
    door = "proxy" /\ Closed /\ tenant # {} =>
        \A word \in Optional(Id) : tenant = {Resolved([caller EXCEPT !.named = word])}

\* "The same rule applies to both": in the explicit modes, a proxy that says
\* what the token would say leads to the same tenant.
DoorsAgree ==
    /\ tenant # {} /\ config.mode # "auto" /\ config.claim = "sub"
    /\ config.subjectHeader /\ config.groupHeader
    => ByHeaders(caller) = ByClaims(caller)
=============================================================================
