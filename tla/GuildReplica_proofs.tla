------------------------- MODULE GuildReplica_proofs -------------------------
(***************************************************************************)
(* The mirror of Discord is sound, its permissions are those of the         *)
(* reference and a revocation is always owed to a sweep under way, for any  *)
(* guilds, members, roles, channels, overwrites, events and handlers.       *)
(*                                                                         *)
(* ReplicaIsSound is inductive: a channel is of one guild for ever, so a    *)
(* write to one guild touches no index entry of another.  RevokedIsOwed is  *)
(* inductive with it, and with VictimsKnown.                                *)
(***************************************************************************)
EXTENDS GuildReplica, TLAPS

-----------------------------------------------------------------------------
(* The algorithm of domain/src/discord.rs.                                  *)

\* The overwrites of one step, bit by bit.
LEMMA AppliedBit ==
  ASSUME NEW base, NEW os, NEW bit
  PROVE  bit \in Applied(base, os) <=>
           bit \in Allows(os) \/ (bit \notin Denies(os) /\ bit \in base)
BY DEF Applied

\* The seven steps of resolve grant a bit exactly when the most specific rule
\* that mentions it does, whatever the roles and the overwrites (resolve).
THEOREM ResolveIsReference ==
  ASSUME NEW roles, NEW guild, NEW owner, NEW user, NEW ids, NEW os,
         \A r \in ids \cup {guild} : roles[r] \subseteq Bits,
         \A o \in os : o.allow \subseteq Bits
  PROVE  Resolve(roles, guild, owner, user, ids, os) =
           {bit \in Bits : Granted(bit, roles, guild, owner, user, ids, os)}
<1> DEFINE base     == Base(roles, guild, ids)
           everyone == OfEveryone(os, guild)
           held     == OfRoles(os, guild, ids)
           own      == OfMember(os, user)
           p        == Applied(base, everyone)
           q        == Applied(p, held)
           result   == Applied(q, own)
<1>1. CASE user = owner \/ "administrator" \in base
  BY <1>1 DEF Resolve, Granted
<1>2. CASE ~(user = owner \/ "administrator" \in base)
  <2>1. Resolve(roles, guild, owner, user, ids, os) = result
    BY <1>2 DEF Resolve
  <2>2. base \subseteq Bits
    BY DEF Base
  <2>3. Allows(everyone) \subseteq Bits /\ Allows(held) \subseteq Bits /\ Allows(own) \subseteq Bits
    BY DEF Allows, OfEveryone, OfRoles, OfMember
  <2>4. result \subseteq Bits
    <3> HIDE DEF everyone, held, own, base
    <3> QED
      BY <2>2, <2>3 DEF Applied
  <2>5. ASSUME NEW bit \in Bits
        PROVE  bit \in result <=> Granted(bit, roles, guild, owner, user, ids, os)
    <3>1. bit \in p <=> bit \in Allows(everyone) \/ (bit \notin Denies(everyone) /\ bit \in base)
      BY AppliedBit
    <3>2. bit \in q <=> bit \in Allows(held) \/ (bit \notin Denies(held) /\ bit \in p)
      BY AppliedBit
    <3>3. bit \in result <=> bit \in Allows(own) \/ (bit \notin Denies(own) /\ bit \in q)
      BY AppliedBit
    <3>4. Granted(bit, roles, guild, owner, user, ids, os) <=>
            \/ user = owner \/ "administrator" \in base
            \/ bit \in Allows(own)
            \/ /\ bit \notin Denies(own)
               /\ \/ bit \in Allows(held)
                  \/ /\ bit \notin Denies(held)
                     /\ \/ bit \in Allows(everyone)
                        \/ bit \notin Denies(everyone) /\ bit \in base
      BY DEF Granted
    <3> HIDE DEF everyone, held, own, base, p, q, result
    <3> QED
      BY <1>2, <3>1, <3>2, <3>3, <3>4
  <2> HIDE DEF result
  <2> QED
    BY <2>1, <2>4, <2>5
<1> QED
  BY <1>1, <1>2

-----------------------------------------------------------------------------
(* Partial functions.                                                       *)

LEMMA PutIsPartial ==
  ASSUME NEW A, NEW B, NEW f, NEW k \in A, NEW v \in B, IsPartialFunction(f, A, B)
  PROVE  IsPartialFunction(Put(f, k, v), A, B) /\ DOMAIN Put(f, k, v) = DOMAIN f \cup {k}
BY DEF IsPartialFunction, Put

LEMMA DropIsPartial ==
  ASSUME NEW A, NEW B, NEW f, NEW k, IsPartialFunction(f, A, B)
  PROVE  IsPartialFunction(Drop(f, k), A, B) /\ DOMAIN Drop(f, k) = DOMAIN f \ {k}
BY DEF IsPartialFunction, Drop

-----------------------------------------------------------------------------
(* One write to a guild that is mirrored (replica.rs, the upserts and       *)
(* removals).                                                               *)

\* Data that keeps its channels may replace a guild's (upsert_member,
\* remove_member, upsert_role, remove_role).
LEMMA WriteKeepsChannels ==
  ASSUME ReplicaIsSound, NEW g \in Guilds, NEW d, Writes(g, d), UNCHANGED index,
         g \in mirrored => IsGuildData(g, d) /\ DOMAIN d.channels = DOMAIN guilds[g].channels
  PROVE  ReplicaIsSound'
<1> USE DEF ReplicaIsSound
<1>1. CASE g \notin mirrored
  BY <1>1 DEF Writes, MirrorTypeOK
<1>2. CASE g \in mirrored
  <2>1. guilds' = [guilds EXCEPT ![g] = d] /\ mirrored' = mirrored
    BY <1>2 DEF Writes
  <2>2. guilds'[g] = d /\ \A h \in Guilds : h # g => guilds'[h] = guilds[h]
    BY <2>1 DEF MirrorTypeOK
  <2>3. guilds' = [h \in Guilds |-> guilds'[h]]
    BY <2>1 DEF MirrorTypeOK
  <2>4. MirrorTypeOK'
    BY <1>2, <2>1, <2>2, <2>3 DEF MirrorTypeOK
  <2>5. \A c \in Channels, h \in Guilds :
          index'[c] = h <=> h \in mirrored' /\ c \in DOMAIN guilds'[h].channels
    BY <1>2, <2>1, <2>2
  <2> QED
    BY <2>1, <2>4, <2>5
<1> QED
  BY <1>1, <1>2

\* The four fields, one of them replaced.
LEMMA WithMembers ==
  ASSUME NEW g, NEW d, IsGuildData(g, d), NEW ms, IsPartialFunction(ms, Users, SUBSET Roles)
  PROVE  LET e == [d EXCEPT !.members = ms]
         IN IsGuildData(g, e) /\ DOMAIN e.channels = DOMAIN d.channels
<1> DEFINE e == [d EXCEPT !.members = ms]
<1>1. d = [owner |-> d.owner, roles |-> d.roles, members |-> d.members, channels |-> d.channels]
  BY DEF IsGuildData
<1>2. e = [owner |-> d.owner, roles |-> d.roles, members |-> ms, channels |-> d.channels]
  BY <1>1
<1> HIDE DEF e
<1>3. e.owner = d.owner /\ e.roles = d.roles /\ e.members = ms /\ e.channels = d.channels
  BY <1>2
<1>4. IsGuildData(g, e)
  BY <1>2, <1>3 DEF IsGuildData
<1> QED
  BY <1>3, <1>4 DEF e

LEMMA WithRoles ==
  ASSUME NEW g, NEW d, IsGuildData(g, d), NEW rs \in [RoleIds -> SUBSET Bits]
  PROVE  LET e == [d EXCEPT !.roles = rs]
         IN IsGuildData(g, e) /\ DOMAIN e.channels = DOMAIN d.channels
<1> DEFINE e == [d EXCEPT !.roles = rs]
<1>1. d = [owner |-> d.owner, roles |-> d.roles, members |-> d.members, channels |-> d.channels]
  BY DEF IsGuildData
<1>2. e = [owner |-> d.owner, roles |-> rs, members |-> d.members, channels |-> d.channels]
  BY <1>1
<1> HIDE DEF e
<1>3. e.owner = d.owner /\ e.roles = rs /\ e.members = d.members /\ e.channels = d.channels
  BY <1>2
<1>4. IsGuildData(g, e)
  BY <1>2, <1>3 DEF IsGuildData
<1> QED
  BY <1>3, <1>4 DEF e

LEMMA WithChannels ==
  ASSUME NEW g, NEW d, IsGuildData(g, d), NEW cs,
         IsPartialFunction(cs, ChannelsOf(g), AnyRules)
  PROVE  LET e == [d EXCEPT !.channels = cs] IN IsGuildData(g, e) /\ e.channels = cs
<1> DEFINE e == [d EXCEPT !.channels = cs]
<1>1. d = [owner |-> d.owner, roles |-> d.roles, members |-> d.members, channels |-> d.channels]
  BY DEF IsGuildData
<1>2. e = [owner |-> d.owner, roles |-> d.roles, members |-> d.members, channels |-> cs]
  BY <1>1
<1> HIDE DEF e
<1>3. e.owner = d.owner /\ e.roles = d.roles /\ e.members = d.members /\ e.channels = cs
  BY <1>2
<1>4. IsGuildData(g, e)
  BY <1>2, <1>3 DEF IsGuildData
<1> QED
  BY <1>3, <1>4 DEF e

-----------------------------------------------------------------------------
(* The handlers, one by one (bot/src/handler.rs).                           *)

\* guild_member_addition, guild_member_update and a page of backfill_members.
LEMMA UpsertMemberStep ==
  ASSUME ReplicaIsSound, NEW g \in Guilds, NEW u \in Users, NEW ids \in SUBSET Roles,
         UpsertMember(g, u, ids), UNCHANGED index
  PROVE  ReplicaIsSound'
<1> DEFINE ms == Put(guilds[g].members, u, ids)
           d  == [guilds[g] EXCEPT !.members = ms]
<1>1. ASSUME g \in mirrored
      PROVE  IsGuildData(g, d) /\ DOMAIN d.channels = DOMAIN guilds[g].channels
  <2>1. IsGuildData(g, guilds[g])
    BY <1>1 DEF ReplicaIsSound, MirrorTypeOK
  <2>2. IsPartialFunction(ms, Users, SUBSET Roles)
    BY <2>1, PutIsPartial DEF IsGuildData
  <2> HIDE DEF ms
  <2> QED
    BY <2>1, <2>2, WithMembers
<1>2. Writes(g, d)
  BY DEF UpsertMember
<1> HIDE DEF d
<1> QED
  BY <1>1, <1>2, WriteKeepsChannels

LEMMA MemberRemovalStep ==
  ASSUME ReplicaIsSound, NEW h \in Handlers, NEW g \in Guilds, NEW u \in Users,
         MemberRemoval(h, g, u)
  PROVE  ReplicaIsSound'
<1> DEFINE ms == Drop(guilds[g].members, u)
           d  == [guilds[g] EXCEPT !.members = ms]
<1>1. ASSUME g \in mirrored
      PROVE  IsGuildData(g, d) /\ DOMAIN d.channels = DOMAIN guilds[g].channels
  <2>1. IsGuildData(g, guilds[g])
    BY <1>1 DEF ReplicaIsSound, MirrorTypeOK
  <2>2. IsPartialFunction(ms, Users, SUBSET Roles)
    BY <2>1, DropIsPartial DEF IsGuildData
  <2> HIDE DEF ms
  <2> QED
    BY <2>1, <2>2, WithMembers
<1>2. Writes(g, d) /\ UNCHANGED index
  BY DEF MemberRemoval
<1> HIDE DEF d
<1> QED
  BY <1>1, <1>2, WriteKeepsChannels

\* guild_role_create and guild_role_update.
LEMMA UpsertRoleStep ==
  ASSUME ReplicaIsSound, NEW g \in Guilds, NEW r \in RoleIds, NEW mask \in Masks,
         UpsertRole(g, r, mask), UNCHANGED index
  PROVE  ReplicaIsSound'
<1> DEFINE rs == [guilds[g].roles EXCEPT ![r] = mask]
           d  == [guilds[g] EXCEPT !.roles = rs]
<1>1. ASSUME g \in mirrored
      PROVE  IsGuildData(g, d) /\ DOMAIN d.channels = DOMAIN guilds[g].channels
  <2>1. IsGuildData(g, guilds[g])
    BY <1>1 DEF ReplicaIsSound, MirrorTypeOK
  <2>2. rs \in [RoleIds -> SUBSET Bits]
    BY <2>1, ReplicaAssumption DEF IsGuildData
  <2> HIDE DEF rs
  <2> QED
    BY <2>1, <2>2, WithRoles
<1>2. Writes(g, d)
  BY DEF UpsertRole
<1> HIDE DEF d
<1> QED
  BY <1>1, <1>2, WriteKeepsChannels

\* The role goes, and the members lose it.
LEMMA WithoutRole ==
  ASSUME NEW g, NEW d, IsGuildData(g, d), NEW r
  PROVE  LET e == [d EXCEPT !.roles = [@ EXCEPT ![r] = {}],
                              !.members = [u \in DOMAIN @ |-> @[u] \ {r}]]
         IN IsGuildData(g, e) /\ DOMAIN e.channels = DOMAIN d.channels
<1> DEFINE rs == [d.roles EXCEPT ![r] = {}]
           ms == [u \in DOMAIN d.members |-> d.members[u] \ {r}]
           a  == [d EXCEPT !.roles = rs]
           e  == [a EXCEPT !.members = ms]
<1>1. d = [owner |-> d.owner, roles |-> d.roles, members |-> d.members, channels |-> d.channels]
  BY DEF IsGuildData
<1>2. rs \in [RoleIds -> SUBSET Bits]
  BY DEF IsGuildData
<1>3. IsPartialFunction(ms, Users, SUBSET Roles)
  BY DEF IsGuildData, IsPartialFunction
<1>4. [d EXCEPT !.roles = [@ EXCEPT ![r] = {}],
                !.members = [u \in DOMAIN @ |-> @[u] \ {r}]] = e
  BY <1>1
<1> HIDE DEF rs, ms
<1>5. e = [owner |-> d.owner, roles |-> rs, members |-> ms, channels |-> d.channels]
  <2>1. a = [owner |-> d.owner, roles |-> rs, members |-> d.members, channels |-> d.channels]
    BY <1>1
  <2> HIDE DEF a
  <2> QED
    BY <2>1
<1> HIDE DEF e
<1>6. e.owner = d.owner /\ e.roles = rs /\ e.members = ms /\ e.channels = d.channels
  BY <1>5
<1>7. IsGuildData(g, e)
  BY <1>2, <1>3, <1>5, <1>6 DEF IsGuildData
<1> QED
  BY <1>4, <1>6, <1>7

LEMMA RoleDeleteStep ==
  ASSUME ReplicaIsSound, NEW h \in Handlers, NEW g \in Guilds, NEW r \in Roles,
         RoleDelete(h, g, r)
  PROVE  ReplicaIsSound'
<1> DEFINE d == [guilds[g] EXCEPT !.roles = [@ EXCEPT ![r] = {}],
                    !.members = [u \in DOMAIN @ |-> @[u] \ {r}]]
<1>1. ASSUME g \in mirrored
      PROVE  IsGuildData(g, d) /\ DOMAIN d.channels = DOMAIN guilds[g].channels
  <2>1. IsGuildData(g, guilds[g])
    BY <1>1 DEF ReplicaIsSound, MirrorTypeOK
  <2> QED
    BY <2>1, WithoutRole
<1>2. Writes(g, d) /\ UNCHANGED index
  BY DEF RoleDelete
<1> HIDE DEF d
<1> QED
  BY <1>1, <1>2, WriteKeepsChannels

\* channel_create, channel_update and channel_delete: guild and index together.
LEMMA ChannelWrite ==
  ASSUME ReplicaIsSound, NEW g \in Guilds, NEW c \in Channels, Home[c] = g,
         NEW cs, NEW to \in {g, None}, g \in mirrored,
         Writes(g, [guilds[g] EXCEPT !.channels = cs]), index' = [index EXCEPT ![c] = to],
         IsPartialFunction(cs, ChannelsOf(g), AnyRules),
         \A b \in Channels : b # c => (b \in DOMAIN cs <=> b \in DOMAIN guilds[g].channels),
         to = g <=> c \in DOMAIN cs
  PROVE  ReplicaIsSound'
<1> USE DEF ReplicaIsSound
<1> DEFINE d == [guilds[g] EXCEPT !.channels = cs]
<1>1. IsGuildData(g, guilds[g])
  BY DEF MirrorTypeOK
<1>2. IsGuildData(g, d) /\ d.channels = cs
  BY <1>1, WithChannels DEF d
<1>3. guilds' = [guilds EXCEPT ![g] = d] /\ mirrored' = mirrored
  BY DEF Writes
<1> HIDE DEF d
<1>4. guilds'[g] = d /\ \A h \in Guilds : h # g => guilds'[h] = guilds[h]
  BY <1>3 DEF MirrorTypeOK
<1>5. guilds' = [h \in Guilds |-> guilds'[h]]
  BY <1>3 DEF MirrorTypeOK
<1>6. index'[c] = to /\ \A b \in Channels : b # c => index'[b] = index[b]
  BY DEF MirrorTypeOK
<1>7. MirrorTypeOK'
  BY <1>2, <1>3, <1>4, <1>5 DEF MirrorTypeOK
<1>8. ASSUME NEW b \in Channels, NEW h \in Guilds
      PROVE  index'[b] = h <=> h \in mirrored' /\ b \in DOMAIN guilds'[h].channels
  <2>1. CASE b # c
    BY <1>2, <1>3, <1>4, <1>6, <2>1
  <2>2. CASE b = c /\ h = g
    BY <1>2, <1>3, <1>4, <1>6, <2>2, ReplicaAssumption
  <2>3. CASE b = c /\ h # g
    <3>1. h \in mirrored => b \notin DOMAIN guilds[h].channels
      BY <2>3 DEF MirrorTypeOK, IsGuildData, IsPartialFunction, ChannelsOf
    <3> QED
      BY <1>3, <1>4, <1>6, <2>3, <3>1, ReplicaAssumption
  <2> QED
    BY <2>1, <2>2, <2>3
<1> QED
  BY <1>3, <1>7, <1>8

LEMMA RefreshChannelStep ==
  ASSUME ReplicaIsSound, NEW h \in Handlers, NEW g \in Guilds, NEW c \in Channels,
         NEW os \in RuleSets, RefreshChannel(h, g, c, os)
  PROVE  ReplicaIsSound'
<1> DEFINE cs == Put(guilds[g].channels, c, os)
<1>1. Writes(g, [guilds[g] EXCEPT !.channels = cs]) /\ Home[c] = g
  BY DEF RefreshChannel
<1>2. CASE g \notin mirrored
  BY <1>1, <1>2 DEF RefreshChannel, Writes, ReplicaIsSound, MirrorTypeOK
<1>3. CASE g \in mirrored
  <2>1. IsGuildData(g, guilds[g])
    BY <1>3 DEF ReplicaIsSound, MirrorTypeOK
  <2>2. IsPartialFunction(guilds[g].channels, ChannelsOf(g), AnyRules)
    BY <2>1 DEF IsGuildData
  <2>3. c \in ChannelsOf(g) /\ os \in AnyRules
    BY <1>1, ReplicaAssumption DEF ChannelsOf
  <2>4. /\ IsPartialFunction(cs, ChannelsOf(g), AnyRules)
        /\ DOMAIN cs = DOMAIN guilds[g].channels \cup {c}
    <3>1. IsPartialFunction(cs, ChannelsOf(g), AnyRules)
      BY <2>2, <2>3, PutIsPartial
    <3> QED
      BY <3>1 DEF Put
  <2>5. index' = [index EXCEPT ![c] = g]
    BY <1>3 DEF RefreshChannel
  <2> HIDE DEF cs
  <2> QED
    BY <1>1, <1>3, <2>4, <2>5, ChannelWrite
<1> QED
  BY <1>2, <1>3

LEMMA ChannelDeleteStep ==
  ASSUME ReplicaIsSound, NEW h \in Handlers, NEW g \in Guilds, NEW c \in Channels,
         ChannelDelete(h, g, c)
  PROVE  ReplicaIsSound'
<1> DEFINE cs == Drop(guilds[g].channels, c)
<1>1. /\ Writes(g, [guilds[g] EXCEPT !.channels = cs]) /\ Home[c] = g
      /\ index' = [index EXCEPT ![c] = None]
  BY DEF ChannelDelete
<1>2. CASE g \notin mirrored
  <2>1. guilds' = guilds /\ mirrored' = mirrored
    BY <1>1, <1>2 DEF Writes
  <2>2. \A k \in mirrored : c \notin DOMAIN guilds[k].channels
    BY <1>1, <1>2 DEF ReplicaIsSound, MirrorTypeOK, IsGuildData, IsPartialFunction, ChannelsOf
  <2>3. index'[c] = None /\ \A b \in Channels : b # c => index'[b] = index[b]
    BY <1>1 DEF ReplicaIsSound, MirrorTypeOK
  <2>4. MirrorTypeOK'
    BY <1>1, <2>1 DEF ReplicaIsSound, MirrorTypeOK
  <2>5. \A b \in Channels, k \in Guilds :
          index'[b] = k <=> k \in mirrored' /\ b \in DOMAIN guilds'[k].channels
    BY <2>1, <2>2, <2>3, ReplicaAssumption DEF ReplicaIsSound
  <2> QED
    BY <2>1, <2>4, <2>5 DEF ReplicaIsSound
<1>3. CASE g \in mirrored
  <2>1. IsGuildData(g, guilds[g])
    BY <1>3 DEF ReplicaIsSound, MirrorTypeOK
  <2>2. /\ IsPartialFunction(cs, ChannelsOf(g), AnyRules)
        /\ DOMAIN cs = DOMAIN guilds[g].channels \ {c}
    <3>1. IsPartialFunction(guilds[g].channels, ChannelsOf(g), AnyRules)
      BY <2>1 DEF IsGuildData
    <3>2. IsPartialFunction(cs, ChannelsOf(g), AnyRules)
      BY <3>1, DropIsPartial
    <3> QED
      BY <3>2 DEF Drop
  <2> HIDE DEF cs
  <2> QED
    BY <1>1, <1>3, <2>2, ChannelWrite, ReplicaAssumption
<1> QED
  BY <1>2, <1>3

\* guild_create: replace_guild takes the old entries of the index away.
LEMMA ReplaceGuildStep ==
  ASSUME ReplicaIsSound, NEW g \in Served, NEW d \in Layouts[g], ReplaceGuild(g, d)
  PROVE  ReplicaIsSound'
<1> USE DEF ReplicaIsSound
<1>1. g \in Guilds /\ IsGuildData(g, d)
  BY ReplicaAssumption
<1>2. /\ mirrored' = mirrored \cup {g} /\ guilds' = [guilds EXCEPT ![g] = d]
      /\ \A c \in Channels : index'[c] = IF c \in DOMAIN d.channels THEN g
                                         ELSE IF index[c] = g THEN None ELSE index[c]
  BY DEF ReplaceGuild
<1>3. guilds'[g] = d /\ \A h \in Guilds : h # g => guilds'[h] = guilds[h]
  BY <1>1, <1>2 DEF MirrorTypeOK
<1>4. guilds' = [h \in Guilds |-> guilds'[h]]
  BY <1>2 DEF MirrorTypeOK
<1>5. index' \in [Channels -> Guilds \cup {None}]
  BY <1>1 DEF ReplaceGuild, MirrorTypeOK
<1>6. MirrorTypeOK'
  BY <1>1, <1>2, <1>3, <1>4, <1>5 DEF MirrorTypeOK
<1>7. \A c \in DOMAIN d.channels : c \in Channels /\ Home[c] = g
  BY <1>1 DEF IsGuildData, IsPartialFunction, ChannelsOf
<1>8. ASSUME NEW c \in Channels, NEW h \in Guilds
      PROVE  index'[c] = h <=> h \in mirrored' /\ c \in DOMAIN guilds'[h].channels
  <2>1. CASE h = g
    BY <1>2, <1>3, <2>1, ReplicaAssumption
  <2>2. CASE h # g
    <3>1. h \in mirrored => DOMAIN guilds[h].channels \subseteq {b \in Channels : Home[b] = h}
      BY DEF MirrorTypeOK, IsGuildData, IsPartialFunction, ChannelsOf
    <3> QED
      BY <1>2, <1>3, <1>7, <2>2, <3>1, ReplicaAssumption
  <2> QED
    BY <2>1, <2>2
<1> QED
  BY <1>2, <1>6, <1>8

\* guild_delete, of a guild that is gone or only unavailable.
LEMMA GuildDeleteStep ==
  ASSUME ReplicaIsSound, NEW h \in Handlers, NEW g \in Guilds, GuildDelete(h, g)
  PROVE  ReplicaIsSound'
<1> USE DEF ReplicaIsSound
<1>1. CASE UNCHANGED replica
  BY <1>1 DEF replica, MirrorTypeOK
<1>2. CASE /\ mirrored' = mirrored \ {g} /\ guilds' = [guilds EXCEPT ![g] = None]
           /\ index' = [c \in Channels |-> IF index[c] = g THEN None ELSE index[c]]
  <2>1. \A k \in Guilds : k # g => guilds'[k] = guilds[k]
    BY <1>2 DEF MirrorTypeOK
  <2>2. guilds' = [k \in Guilds |-> guilds'[k]]
    BY <1>2 DEF MirrorTypeOK
  <2>3. MirrorTypeOK'
    BY <1>2, <2>1, <2>2 DEF MirrorTypeOK
  <2>4. \A c \in Channels, k \in Guilds :
          index'[c] = k <=> k \in mirrored' /\ c \in DOMAIN guilds'[k].channels
    BY <1>2, <2>1, ReplicaAssumption
  <2> QED
    BY <1>2, <2>3, <2>4
<1> QED
  BY <1>1, <1>2 DEF GuildDelete

\* A page of backfill_members, for a guild that may have gone meanwhile.
LEMMA BackfillStep ==
  ASSUME ReplicaIsSound, NEW h \in Handlers, Backfill(h)
  PROVE  ReplicaIsSound'
<1> DEFINE g == handler[h].guild
<1>1. CASE UNCHANGED replica
  BY <1>1 DEF replica, ReplicaIsSound, MirrorTypeOK
<1>2. ASSUME NEW u \in Users, NEW ids \in SUBSET Roles, UpsertMember(g, u, ids)
      PROVE  ReplicaIsSound'
  <2>1. UNCHANGED index
    BY DEF Backfill
  <2>2. CASE g \in Guilds
    BY <1>2, <2>1, <2>2, UpsertMemberStep
  <2>3. CASE g \notin Guilds
    <3>1. g \notin mirrored
      BY <2>3 DEF ReplicaIsSound, MirrorTypeOK
    <3>2. UNCHANGED replica
      BY <1>2, <2>1, <3>1 DEF UpsertMember, Writes, replica
    <3> QED
      BY <3>2, <1>1
  <2> QED
    BY <2>2, <2>3
<1>3. QED
  BY <1>1, <1>2 DEF Backfill, replica

-----------------------------------------------------------------------------
LEMMA SoundInit == Init => ReplicaIsSound
BY ReplicaAssumption DEF Init, ReplicaIsSound, MirrorTypeOK

\* A step that leaves the mirror alone.
LEMMA MirrorUntouched ==
  ASSUME ReplicaIsSound, UNCHANGED replica PROVE ReplicaIsSound'
BY DEF replica, ReplicaIsSound, MirrorTypeOK

LEMMA DiscordStep ==
  ASSUME ReplicaIsSound, NEW h \in Handlers, Discord(h) PROVE ReplicaIsSound'
<1>1. PICK g \in Guilds :
        \/ GuildCreate(h, g) \/ GuildDelete(h, g)
        \/ \E u \in Users : \/ MemberRemoval(h, g, u)
                            \/ \E ids \in SUBSET Roles :
                                 MemberAddition(h, g, u, ids) \/ MemberUpdate(h, g, u, ids)
        \/ \E r \in Roles \cup {g} : \E mask \in Masks : RoleUpdate(h, g, r, mask)
        \/ \E r \in Roles : RoleDelete(h, g, r) \/ \E mask \in Masks : RoleCreate(h, g, r, mask)
        \/ \E c \in Channels : \/ ChannelDelete(h, g, c)
                               \/ \E os \in RuleSets : RefreshChannel(h, g, c, os)
  BY DEF Discord
<1>2. CASE GuildCreate(h, g)
  BY <1>2, ReplaceGuildStep, MirrorUntouched DEF GuildCreate
<1>3. CASE GuildDelete(h, g)
  BY <1>3, GuildDeleteStep
<1>4. ASSUME NEW u \in Users, MemberRemoval(h, g, u) PROVE ReplicaIsSound'
  BY <1>4, MemberRemovalStep
<1>5. ASSUME NEW u \in Users, NEW ids \in SUBSET Roles,
             MemberAddition(h, g, u, ids) \/ MemberUpdate(h, g, u, ids)
      PROVE  ReplicaIsSound'
  BY <1>5, UpsertMemberStep DEF MemberAddition, MemberUpdate
<1>6. ASSUME NEW r \in Roles \cup {g}, NEW mask \in Masks,
             RoleUpdate(h, g, r, mask) \/ RoleCreate(h, g, r, mask)
      PROVE  ReplicaIsSound'
  <2>1. r \in RoleIds
    BY DEF RoleIds
  <2> QED
    BY <1>6, <2>1, UpsertRoleStep DEF RoleUpdate, RoleCreate
<1>7. ASSUME NEW r \in Roles, RoleDelete(h, g, r) PROVE ReplicaIsSound'
  BY <1>7, RoleDeleteStep
<1>8. ASSUME NEW c \in Channels,
             ChannelDelete(h, g, c) \/ \E os \in RuleSets : RefreshChannel(h, g, c, os)
      PROVE  ReplicaIsSound'
  BY <1>8, ChannelDeleteStep, RefreshChannelStep
<1> QED
  BY <1>1, <1>2, <1>3, <1>4, <1>5, <1>6, <1>7, <1>8

LEMMA SoundStep == ReplicaIsSound /\ [Next]_vars => ReplicaIsSound'
<1> SUFFICES ASSUME ReplicaIsSound, [Next]_vars PROVE ReplicaIsSound'
  OBVIOUS
<1>1. ASSUME NEW h \in Handlers, Discord(h) PROVE ReplicaIsSound'
  BY <1>1, DiscordStep
<1>2. ASSUME NEW h \in Handlers, Sweeps(h) PROVE ReplicaIsSound'
  BY <1>2, BackfillStep, MirrorUntouched
     DEF Sweeps, ListOccupied, NextRoom, ListRoom, CheckPerson, Evict
<1>3. ASSUME NEW u \in Users, Door(u) PROVE ReplicaIsSound'
  BY <1>3, MirrorUntouched DEF Door, CheckAccess, IssueToken, Leave, Ask, Enter
<1>4. CASE (\E up \in BOOLEAN : SetConnected(up)) \/ Tick
  BY <1>4, MirrorUntouched DEF SetConnected, Tick
<1>5. CASE UNCHANGED vars
  BY <1>5, MirrorUntouched DEF vars, replica
<1> QED
  BY <1>1, <1>2, <1>3, <1>4, <1>5 DEF Next

\* Whatever events, pages and removals overlap, the index names exactly the
\* channels of the mirrored guilds, and only served guilds are mirrored
\* (api/src/discord/replica.rs).
THEOREM MirrorIsSound == ReplicaSpec => []ReplicaIsSound
BY SoundInit, SoundStep, PTL DEF ReplicaSpec

\* What resolve computes from any mirrored guild is what the reference grants
\* (domain/src/discord.rs, Replica::permissions).
THEOREM PermissionsAreReference == ReplicaSpec => []PermissionIsReference
<1>1. ReplicaIsSound => PermissionIsReference
  <2> SUFFICES ASSUME ReplicaIsSound, NEW g \in mirrored,
                      NEW u \in DOMAIN guilds[g].members, NEW c \in DOMAIN guilds[g].channels
               PROVE  LET d == guilds[g] IN
                      Resolve(d.roles, g, d.owner, u, d.members[u], d.channels[c]) =
                        {bit \in Bits : Granted(bit, d.roles, g, d.owner, u, d.members[u],
                                               d.channels[c])}
    BY DEF PermissionIsReference
  <2>1. IsGuildData(g, guilds[g]) /\ g \in Guilds
    BY DEF ReplicaIsSound, MirrorTypeOK
  <2>2. guilds[g].members[u] \subseteq Roles
    BY <2>1 DEF IsGuildData, IsPartialFunction
  <2>3. \A r \in guilds[g].members[u] \cup {g} : guilds[g].roles[r] \subseteq Bits
    BY <2>1, <2>2 DEF IsGuildData, RoleIds
  <2>4. guilds[g].channels[c] \subseteq Overwrite(RoleIds \cup Users)
    BY <2>1 DEF IsGuildData, IsPartialFunction, AnyRules
  <2>5. \A o \in guilds[g].channels[c] : o.allow \subseteq Bits
    BY <2>4 DEF Overwrite
  <2> QED
    BY <2>3, <2>5, ResolveIsReference
<1> QED
  BY <1>1, MirrorIsSound, PTL
-----------------------------------------------------------------------------
(* Revocation: what the replica answers about a room, before and after.     *)

Owed ==
  \A u \in Users \ excused :
    row[u] # None /\ ~MayJoin(u, row[u]) => \E h \in Handlers : Covers(h, u, row[u])

\* channel_info answers what the index says.
LEMMA InfoIsIndex ==
  ReplicaIsSound => \A c \in Channels : InfoGuild(c) = index[c] /\ index[c] \in {Home[c], None}
<1> SUFFICES ASSUME ReplicaIsSound, NEW c \in Channels
             PROVE  InfoGuild(c) = index[c] /\ index[c] \in {Home[c], None}
  OBVIOUS
<1>1. index[c] \in Guilds \cup {None}
  BY DEF ReplicaIsSound, MirrorTypeOK
<1>2. CASE index[c] = None
  BY <1>2, ReplicaAssumption DEF InfoGuild
<1>3. CASE index[c] \in Guilds
  <2>1. index[c] \in mirrored /\ c \in DOMAIN guilds[index[c]].channels
    BY <1>3 DEF ReplicaIsSound
  <2>2. DOMAIN guilds[index[c]].channels \subseteq ChannelsOf(index[c])
    BY <2>1 DEF ReplicaIsSound, MirrorTypeOK, IsGuildData, IsPartialFunction
  <2> QED
    BY <2>1, <2>2 DEF InfoGuild, ChannelsOf
<1> QED
  BY <1>1, <1>2, <1>3

LEMMA InfoIsIndexNext ==
  ReplicaIsSound' => (\A c \in Channels : InfoGuild(c) = index[c])'
<1>1. ReplicaIsSound => \A c \in Channels : InfoGuild(c) = index[c]
  BY InfoIsIndex
<1> QED
  BY <1>1, PTL

\* A room whose guild is not written answers as before.
LEMMA SameAnswer ==
  ASSUME ReplicaIsSound, ReplicaIsSound', NEW c \in Channels, NEW u,
         index'[c] = index[c], index[c] # None => guilds'[index[c]] = guilds[index[c]]
  PROVE  InfoGuild(c)' = InfoGuild(c) /\ (MayJoin(u, c)' <=> MayJoin(u, c))
<1>1. InfoGuild(c) = index[c] /\ InfoGuild(c)' = index[c]
  BY InfoIsIndex, InfoIsIndexNext
<1>2. Permissions(u, c)' = Permissions(u, c)
  BY <1>1 DEF Permissions
<1> QED
  BY <1>1, <1>2 DEF MayJoin

\* Whoever is in a room is still owed an eviction after a write, if the room
\* answers about them as before or the handler that wrote reaches them.
LEMMA OwedAfterWrite ==
  ASSUME Owed, UNCHANGED row, excused \subseteq excused', NEW h \in Handlers,
         row \in [Users -> Channels \cup {None}],
         \A k \in Handlers : handler[k] # None => handler'[k] = handler[k],
         \A u \in Users \ excused', c \in Channels :
           row[u] = c /\ c # None =>
             \/ Covers(h, u, c)'
             \/ InfoGuild(c)' = InfoGuild(c) /\ (MayJoin(u, c) => MayJoin(u, c)')
  PROVE  Owed'
<1> SUFFICES ASSUME NEW u \in Users \ excused', row'[u] # None, ~MayJoin(u, row[u])'
             PROVE  \E k \in Handlers : Covers(k, u, row[u])'
  BY DEF Owed
<1>1. PICK c \in Channels : row[u] = c /\ row'[u] = c /\ c # None
  OBVIOUS
<1>2. ~MayJoin(u, c)'
  BY <1>1 DEF MayJoin, Permissions, InfoGuild
<1>3. CASE Covers(h, u, c)'
  BY <1>1, <1>3 DEF Covers, InfoGuild
<1>4. CASE InfoGuild(c)' = InfoGuild(c) /\ ~MayJoin(u, c)
  <2>1. PICK k \in Handlers : Covers(k, u, c)
    BY <1>1, <1>4 DEF Owed
  <2>2. Covers(k, u, c)'
    BY <1>4, <2>1 DEF Covers
  <2> QED
    BY <1>1, <2>2 DEF Covers, InfoGuild
<1> QED
  BY <1>1, <1>2, <1>3, <1>4

-----------------------------------------------------------------------------
(* Revocation: the handlers of Discord's events.                            *)

\* A handler that begins a sweep disturbs no other.
LEMMA BeginsOne ==
  ASSUME TasksTypeOK, NEW h \in Handlers, NEW stage \in Stages, NEW g \in Guilds,
         NEW c \in Channels \cup {None}, Begins(h, stage, g, c)
  PROVE  /\ \A k \in Handlers : handler[k] # None => handler'[k] = handler[k]
         /\ handler'[h] = [at |-> stage, guild |-> g, rooms |-> {}, room |-> c,
                           people |-> {}, victim |-> None]
         /\ handler'[h] # None
         /\ handler' \in [Handlers -> Tasks \cup {None}]
<1> DEFINE new == [at |-> stage, guild |-> g, rooms |-> {}, room |-> c,
                   people |-> {}, victim |-> None]
<1>1. new \in Tasks
  BY DEF Tasks
<1>2. handler \in [Handlers -> Tasks \cup {None}]
  BY DEF TasksTypeOK
<1>3. handler[h] = None /\ handler' = [handler EXCEPT ![h] = new]
  BY DEF Begins
<1>4. new # None
  BY <1>1, ReplicaAssumption
<1> HIDE DEF new
<1>5. handler'[h] = new
  BY <1>2, <1>3
<1>6. handler' \in [Handlers -> Tasks \cup {None}]
  BY <1>1, <1>2, <1>3
<1>7. \A k \in Handlers : handler[k] # None => handler'[k] = handler[k]
  BY <1>2, <1>3
<1> QED
  BY <1>4, <1>5, <1>6, <1>7 DEF new

\* A guild is written and swept from its list of occupied channels on
\* (guild_member_update, guild_member_removal, guild_role_update,
\* guild_role_delete).
LEMMA SweptWrite ==
  ASSUME RevokedIsOwed, ReplicaIsSound, ReplicaIsSound', NEW h \in Handlers, NEW g \in Guilds,
         Begins(h, "occupied", g, None), UNCHANGED <<index, row, excused>>,
         \A k \in Guilds : k # g => guilds'[k] = guilds[k]
  PROVE  Owed'
<1>1. TasksTypeOK /\ Owed
  BY DEF RevokedIsOwed, Owed
<1>2. /\ \A k \in Handlers : handler[k] # None => handler'[k] = handler[k]
      /\ handler'[h] # None /\ handler'[h].at = "occupied" /\ handler'[h].guild = g
  <2>1. "occupied" \in Stages /\ None \in Channels \cup {None}
    BY DEF Stages
  <2>2. /\ \A k \in Handlers : handler[k] # None => handler'[k] = handler[k]
        /\ handler'[h] = [at |-> "occupied", guild |-> g, rooms |-> {}, room |-> None,
                          people |-> {}, victim |-> None]
        /\ handler'[h] # None
    BY <1>1, <2>1, BeginsOne
  <2> QED
    BY <2>2
<1>3. ASSUME NEW u, NEW c \in Channels
      PROVE  \/ Covers(h, u, c)'
             \/ InfoGuild(c)' = InfoGuild(c) /\ (MayJoin(u, c) => MayJoin(u, c)')
  <2>1. CASE index[c] = g
    <3>1. InfoGuild(c)' = g
      BY <2>1, InfoIsIndexNext
    <3> QED
      BY <1>2, <3>1 DEF Covers
  <2>2. CASE index[c] # g
    <3>1. index[c] \in Guilds \cup {None}
      BY DEF ReplicaIsSound, MirrorTypeOK
    <3>2. index'[c] = index[c] /\ (index[c] # None => guilds'[index[c]] = guilds[index[c]])
      BY <2>2, <3>1
    <3> QED
      BY <3>2, SameAnswer
  <2> QED
    BY <2>1, <2>2
<1>4. row \in [Users -> Channels \cup {None}]
  BY <1>1 DEF TasksTypeOK
<1> QED
  BY <1>1, <1>2, <1>3, <1>4, OwedAfterWrite

\* A channel is written and its room swept (refresh_channel, channel_delete).
LEMMA SweptRoom ==
  ASSUME RevokedIsOwed, ReplicaIsSound, ReplicaIsSound', NEW h \in Handlers, NEW g \in Guilds,
         NEW x \in Channels, Begins(h, "list", g, x), UNCHANGED <<row, excused>>,
         \A c \in Channels : c # x => index'[c] = index[c],
         \A k \in Guilds : k # g => guilds'[k] = guilds[k],
         \A c \in Channels, u \in Users :
           c # x /\ index[c] = g => (MayJoin(u, c) => MayJoin(u, c)')
  PROVE  Owed'
<1>1. TasksTypeOK /\ Owed
  BY DEF RevokedIsOwed, Owed
<1>2. /\ \A k \in Handlers : handler[k] # None => handler'[k] = handler[k]
      /\ handler'[h] # None /\ handler'[h].at = "list" /\ handler'[h].room = x
  <2>1. "list" \in Stages /\ x \in Channels \cup {None}
    BY DEF Stages
  <2>2. /\ \A k \in Handlers : handler[k] # None => handler'[k] = handler[k]
        /\ handler'[h] = [at |-> "list", guild |-> g, rooms |-> {}, room |-> x,
                          people |-> {}, victim |-> None]
        /\ handler'[h] # None
    BY <1>1, <2>1, BeginsOne
  <2> QED
    BY <2>2
<1>3. ASSUME NEW u \in Users, NEW c \in Channels
      PROVE  \/ Covers(h, u, c)'
             \/ InfoGuild(c)' = InfoGuild(c) /\ (MayJoin(u, c) => MayJoin(u, c)')
  <2>1. CASE c = x
    BY <1>2, <2>1 DEF Covers
  <2>2. CASE c # x /\ index[c] = g
    BY <2>2, InfoIsIndex, InfoIsIndexNext
  <2>3. CASE c # x /\ index[c] # g
    <3>1. index[c] \in Guilds \cup {None}
      BY DEF ReplicaIsSound, MirrorTypeOK
    <3>2. index'[c] = index[c] /\ (index[c] # None => guilds'[index[c]] = guilds[index[c]])
      BY <2>3, <3>1
    <3> QED
      BY <3>2, SameAnswer
  <2> QED
    BY <2>1, <2>2, <2>3
<1>4. row \in [Users -> Channels \cup {None}]
  BY <1>1 DEF TasksTypeOK
<1> QED
  BY <1>1, <1>2, <1>3, <1>4, OwedAfterWrite

\* A write to one guild leaves the others, and the rows, alone.
LEMMA WritesOne ==
  ASSUME ReplicaIsSound, NEW g \in Guilds, NEW d, Writes(g, d)
  PROVE  /\ \A k \in Guilds : k # g => guilds'[k] = guilds[k]
         /\ g \in mirrored => guilds'[g] = d
         /\ UNCHANGED <<mirrored, row, excused>>
BY DEF Writes, ReplicaIsSound, MirrorTypeOK

\* What Replica::permissions reads of a guild decides what it answers.
LEMMA SameRights ==
  ASSUME ReplicaIsSound, ReplicaIsSound', NEW c \in Channels, NEW u, NEW g \in Guilds,
         index[c] = g, index'[c] = g,
         guilds'[g].owner = guilds[g].owner,
         u \in DOMAIN guilds[g].members <=> u \in DOMAIN guilds'[g].members,
         u \in DOMAIN guilds[g].members =>
           /\ guilds'[g].members[u] = guilds[g].members[u]
           /\ Base(guilds'[g].roles, g, guilds[g].members[u]) =
                Base(guilds[g].roles, g, guilds[g].members[u]),
         guilds'[g].channels[c] = guilds[g].channels[c]
  PROVE  MayJoin(u, c)' <=> MayJoin(u, c)
<1>1. InfoGuild(c) = g /\ InfoGuild(c)' = g /\ g # None
  BY InfoIsIndex, InfoIsIndexNext, ReplicaAssumption
<1>2. Permissions(u, c)' = Permissions(u, c)
  BY <1>1 DEF Permissions, Resolve
<1> QED
  BY <1>2 DEF MayJoin

\* Handlers that sweep nothing: someone who was no member had no rights, and a
\* role nobody has changes nobody's (guild_member_addition, guild_role_create).
LEMMA AdditionOwed ==
  ASSUME RevokedIsOwed, ReplicaIsSound, ReplicaIsSound', NEW h \in Handlers, NEW g \in Guilds,
         NEW x \in Users, NEW ids \in SUBSET Roles, MemberAddition(h, g, x, ids)
  PROVE  Owed'
<1>1. TasksTypeOK /\ Owed /\ row \in [Users -> Channels \cup {None}]
  BY DEF RevokedIsOwed, Owed, TasksTypeOK
<1>2. UNCHANGED <<index, row, excused, mirrored, handler>>
  BY DEF MemberAddition, UpsertMember, Writes, Ends
<1>3. \A k \in Guilds : k # g => guilds'[k] = guilds[k]
  BY WritesOne DEF MemberAddition, UpsertMember
<1>4. ASSUME NEW u \in Users, NEW c \in Channels
      PROVE  InfoGuild(c)' = InfoGuild(c) /\ (MayJoin(u, c) => MayJoin(u, c)')
  <2>1. InfoGuild(c)' = InfoGuild(c) /\ InfoGuild(c) = index[c]
    BY <1>2, InfoIsIndex, InfoIsIndexNext
  <2>2. CASE index[c] = g
    <3>1. g \in mirrored /\ c \in DOMAIN guilds[g].channels
      BY <2>2 DEF ReplicaIsSound
    <3>2. guilds'[g] = [guilds[g] EXCEPT !.members = Put(@, x, ids)] /\ IsGuildData(g, guilds[g])
      <4>1. Writes(g, [guilds[g] EXCEPT !.members = Put(@, x, ids)])
        BY DEF MemberAddition, UpsertMember
      <4>2. guilds'[g] = [guilds[g] EXCEPT !.members = Put(@, x, ids)]
        BY <3>1, <4>1, WritesOne
      <4>3. IsGuildData(g, guilds[g])
        BY <3>1 DEF ReplicaIsSound, MirrorTypeOK
      <4> QED
        BY <4>2, <4>3
    <3>3. /\ guilds'[g].owner = guilds[g].owner /\ guilds'[g].roles = guilds[g].roles
          /\ guilds'[g].channels = guilds[g].channels
          /\ guilds'[g].members = Put(guilds[g].members, x, ids)
      BY <3>2 DEF IsGuildData
    <3>4. CASE u = x
      <4>1. u \notin DOMAIN guilds[g].members
        BY <3>1, <3>4 DEF MemberAddition
      <4>2. Permissions(u, c) = {}
        BY <2>1, <2>2, <4>1 DEF Permissions
      <4> QED
        BY <2>1, <4>2 DEF MayJoin, CanJoinRoom, CanView
    <3>5. CASE u # x
      <4>1. /\ u \in DOMAIN guilds[g].members <=> u \in DOMAIN guilds'[g].members
            /\ u \in DOMAIN guilds[g].members =>
                 guilds'[g].members[u] = guilds[g].members[u]
        BY <3>3, <3>5 DEF Put
      <4>2. index'[c] = g
        BY <1>2, <2>2
      <4>3. MayJoin(u, c)' <=> MayJoin(u, c)
        BY <2>2, <3>3, <4>1, <4>2, SameRights
      <4> QED
        BY <2>1, <4>3
    <3> QED
      BY <3>4, <3>5
  <2>3. CASE index[c] # g
    <3>1. index[c] \in Guilds \cup {None}
      BY DEF ReplicaIsSound, MirrorTypeOK
    <3>2. index'[c] = index[c] /\ (index[c] # None => guilds'[index[c]] = guilds[index[c]])
      BY <1>2, <1>3, <2>3, <3>1
    <3> QED
      BY <3>2, SameAnswer
  <2> QED
    BY <2>2, <2>3
<1> QED
  BY <1>1, <1>2, <1>4, OwedAfterWrite

LEMMA RoleCreateOwed ==
  ASSUME RevokedIsOwed, ReplicaIsSound, ReplicaIsSound', NEW h \in Handlers, NEW g \in Guilds,
         NEW r \in Roles, NEW mask \in Masks, RoleCreate(h, g, r, mask)
  PROVE  Owed'
<1>1. TasksTypeOK /\ Owed /\ row \in [Users -> Channels \cup {None}]
  BY DEF RevokedIsOwed, Owed, TasksTypeOK
<1>2. UNCHANGED <<index, row, excused, mirrored, handler>>
  BY DEF RoleCreate, UpsertRole, Writes, Ends
<1>3. \A k \in Guilds : k # g => guilds'[k] = guilds[k]
  BY WritesOne DEF RoleCreate, UpsertRole
<1>4. ASSUME NEW u \in Users, NEW c \in Channels
      PROVE  InfoGuild(c)' = InfoGuild(c) /\ (MayJoin(u, c) => MayJoin(u, c)')
  <2>1. InfoGuild(c)' = InfoGuild(c) /\ InfoGuild(c) = index[c]
    BY <1>2, InfoIsIndex, InfoIsIndexNext
  <2>2. CASE index[c] = g
    <3>1. g \in mirrored /\ c \in DOMAIN guilds[g].channels
      BY <2>2 DEF ReplicaIsSound
    <3>2. guilds'[g] = [guilds[g] EXCEPT !.roles[r] = mask] /\ IsGuildData(g, guilds[g])
      <4>1. Writes(g, [guilds[g] EXCEPT !.roles[r] = mask])
        BY DEF RoleCreate, UpsertRole
      <4>2. guilds'[g] = [guilds[g] EXCEPT !.roles[r] = mask]
        BY <3>1, <4>1, WritesOne
      <4>3. IsGuildData(g, guilds[g])
        BY <3>1 DEF ReplicaIsSound, MirrorTypeOK
      <4> QED
        BY <4>2, <4>3
    <3>3. /\ guilds'[g].owner = guilds[g].owner /\ guilds'[g].members = guilds[g].members
          /\ guilds'[g].channels = guilds[g].channels
          /\ guilds'[g].roles = [guilds[g].roles EXCEPT ![r] = mask]
          /\ guilds[g].roles \in [RoleIds -> SUBSET Bits]
      BY <3>2 DEF IsGuildData
    <3>4. ASSUME u \in DOMAIN guilds[g].members
          PROVE  Base(guilds'[g].roles, g, guilds[g].members[u]) =
                   Base(guilds[g].roles, g, guilds[g].members[u])
      <4>1. r \notin guilds[g].members[u] /\ r # g
        BY <3>1, <3>4, ReplicaAssumption DEF RoleCreate
      <4>2. guilds[g].members[u] \subseteq Roles
        BY <3>2, <3>4 DEF IsGuildData, IsPartialFunction
      <4>3. \A q \in guilds[g].members[u] \cup {g} : guilds'[g].roles[q] = guilds[g].roles[q]
        BY <3>3, <4>1, <4>2 DEF RoleIds
      <4> QED
        BY <4>3 DEF Base
    <3>5. index'[c] = g
      BY <1>2, <2>2
    <3>6. MayJoin(u, c)' <=> MayJoin(u, c)
      BY <2>2, <3>3, <3>4, <3>5, SameRights
    <3> QED
      BY <2>1, <3>6
  <2>3. CASE index[c] # g
    <3>1. index[c] \in Guilds \cup {None}
      BY DEF ReplicaIsSound, MirrorTypeOK
    <3>2. index'[c] = index[c] /\ (index[c] # None => guilds'[index[c]] = guilds[index[c]])
      BY <1>2, <1>3, <2>3, <3>1
    <3> QED
      BY <3>2, SameAnswer
  <2> QED
    BY <2>2, <2>3
<1> QED
  BY <1>1, <1>2, <1>4, OwedAfterWrite


\* The handlers that write a guild and sweep it.
LEMMA SweptOwed ==
  ASSUME RevokedIsOwed, ReplicaIsSound, ReplicaIsSound', NEW h \in Handlers, NEW g \in Guilds,
         \/ \E u \in Users : \/ MemberRemoval(h, g, u)
                             \/ \E ids \in SUBSET Roles : MemberUpdate(h, g, u, ids)
         \/ \E r \in Roles \cup {g} : \E mask \in Masks : RoleUpdate(h, g, r, mask)
         \/ \E r \in Roles : RoleDelete(h, g, r)
  PROVE  Owed'
<1>1. PICK d : Writes(g, d)
  BY DEF MemberRemoval, MemberUpdate, RoleUpdate, RoleDelete, UpsertMember, UpsertRole
<1>2. Begins(h, "occupied", g, None) /\ UNCHANGED index
  BY DEF MemberRemoval, MemberUpdate, RoleUpdate, RoleDelete
<1>3. UNCHANGED <<row, excused>> /\ \A k \in Guilds : k # g => guilds'[k] = guilds[k]
  BY <1>1, WritesOne
<1> QED
  BY <1>2, <1>3, SweptWrite

\* The other channels of a guild answer as before a write to one of them.
LEMMA OtherChannels ==
  ASSUME ReplicaIsSound, ReplicaIsSound', NEW g \in Guilds, NEW x \in Channels, NEW f,
         Writes(g, [guilds[g] EXCEPT !.channels = f]),
         \A c \in DOMAIN guilds[g].channels : c # x => f[c] = guilds[g].channels[c],
         \A c \in Channels : c # x => index'[c] = index[c],
         NEW c \in Channels, NEW u, c # x, index[c] = g
  PROVE  MayJoin(u, c)' <=> MayJoin(u, c)
<1>1. g \in mirrored /\ c \in DOMAIN guilds[g].channels
  BY DEF ReplicaIsSound
<1>2. IsGuildData(g, guilds[g])
  BY <1>1 DEF ReplicaIsSound, MirrorTypeOK
<1>3. guilds'[g] = [guilds[g] EXCEPT !.channels = f]
  BY <1>1, WritesOne
<1>4. /\ guilds'[g].owner = guilds[g].owner /\ guilds'[g].roles = guilds[g].roles
      /\ guilds'[g].members = guilds[g].members /\ guilds'[g].channels = f
  BY <1>2, <1>3 DEF IsGuildData
<1>5. guilds'[g].channels[c] = guilds[g].channels[c]
  BY <1>1, <1>4
<1> QED
  BY <1>4, <1>5, SameRights

LEMMA RefreshOwed ==
  ASSUME RevokedIsOwed, ReplicaIsSound, ReplicaIsSound', NEW h \in Handlers, NEW g \in Guilds,
         NEW x \in Channels, NEW os \in RuleSets, RefreshChannel(h, g, x, os)
  PROVE  Owed'
<1> DEFINE f == Put(guilds[g].channels, x, os)
<1>1. Writes(g, [guilds[g] EXCEPT !.channels = f])
  BY DEF RefreshChannel
<1>2. \A c \in DOMAIN guilds[g].channels : c # x => f[c] = guilds[g].channels[c]
  BY DEF Put
<1>3. index \in [Channels -> Guilds \cup {None}]
  BY DEF ReplicaIsSound, MirrorTypeOK
<1>4. \A c \in Channels : c # x => index'[c] = index[c]
  BY <1>3 DEF RefreshChannel
<1>5. Begins(h, "list", g, x)
  BY DEF RefreshChannel
<1>6. UNCHANGED <<row, excused>> /\ \A k \in Guilds : k # g => guilds'[k] = guilds[k]
  BY <1>1, WritesOne
<1> HIDE DEF f
<1>7. \A c \in Channels, u \in Users : c # x /\ index[c] = g => (MayJoin(u, c) => MayJoin(u, c)')
  BY <1>1, <1>2, <1>4, OtherChannels
<1> QED
  BY <1>4, <1>5, <1>6, <1>7, SweptRoom

LEMMA ChannelDeleteOwed ==
  ASSUME RevokedIsOwed, ReplicaIsSound, ReplicaIsSound', NEW h \in Handlers, NEW g \in Guilds,
         NEW x \in Channels, ChannelDelete(h, g, x)
  PROVE  Owed'
<1> DEFINE f == Drop(guilds[g].channels, x)
<1>1. Writes(g, [guilds[g] EXCEPT !.channels = f])
  BY DEF ChannelDelete
<1>2. \A c \in DOMAIN guilds[g].channels : c # x => f[c] = guilds[g].channels[c]
  BY DEF Drop
<1>3. index \in [Channels -> Guilds \cup {None}]
  BY DEF ReplicaIsSound, MirrorTypeOK
<1>4. \A c \in Channels : c # x => index'[c] = index[c]
  BY <1>3 DEF ChannelDelete
<1>5. Begins(h, "list", g, x)
  BY DEF ChannelDelete
<1>6. UNCHANGED <<row, excused>> /\ \A k \in Guilds : k # g => guilds'[k] = guilds[k]
  BY <1>1, WritesOne
<1> HIDE DEF f
<1>7. \A c \in Channels, u \in Users : c # x /\ index[c] = g => (MayJoin(u, c) => MayJoin(u, c)')
  BY <1>1, <1>2, <1>4, OtherChannels
<1> QED
  BY <1>4, <1>5, <1>6, <1>7, SweptRoom

\* A guild that comes, comes again or goes: its rooms are swept, or their people
\* are known to be missed (guild_create, guild_delete).
LEMMA GuildOwed ==
  ASSUME RevokedIsOwed, ReplicaIsSound, ReplicaIsSound', NEW h \in Handlers, NEW g \in Guilds,
         NEW stage \in {"backfill", "occupied"}, Begins(h, stage, g, None),
         NEW left \in SUBSET Channels,
         UNCHANGED row, excused' = excused \cup Orphans(g, left),
         \A k \in Guilds : k # g => guilds'[k] = guilds[k],
         \A c \in Channels : index'[c] = IF c \in left THEN g ELSE IF index[c] = g THEN None
                                         ELSE index[c]
  PROVE  Owed'
<1>1. TasksTypeOK /\ Owed
  BY DEF RevokedIsOwed, Owed
<1>2. stage \in Stages /\ None \in Channels \cup {None}
  BY DEF Stages
<1>3. /\ \A k \in Handlers : handler[k] # None => handler'[k] = handler[k]
      /\ handler'[h] = [at |-> stage, guild |-> g, rooms |-> {}, room |-> None,
                        people |-> {}, victim |-> None]
      /\ handler'[h] # None
  BY <1>1, <1>2, BeginsOne
<1>4. handler'[h].at \in {"backfill", "occupied"} /\ handler'[h].guild = g
  BY <1>3
<1>5. ASSUME NEW u \in Users \ excused', NEW c \in Channels, row[u] = c, c # None
      PROVE  \/ Covers(h, u, c)'
             \/ InfoGuild(c)' = InfoGuild(c) /\ (MayJoin(u, c) => MayJoin(u, c)')
  <2>1. CASE c \in left
    <3>1. InfoGuild(c)' = g
      BY <2>1, InfoIsIndexNext
    <3> QED
      BY <1>3, <1>4, <3>1 DEF Covers
  <2>2. CASE c \notin left /\ index[c] = g
    BY <1>5, <2>2 DEF Orphans
  <2>3. CASE c \notin left /\ index[c] # g
    <3>1. index[c] \in Guilds \cup {None}
      BY DEF ReplicaIsSound, MirrorTypeOK
    <3>2. index'[c] = index[c] /\ (index[c] # None => guilds'[index[c]] = guilds[index[c]])
      BY <2>3, <3>1
    <3> QED
      BY <3>2, SameAnswer
  <2> QED
    BY <2>1, <2>2, <2>3
<1>6. row \in [Users -> Channels \cup {None}]
  BY <1>1 DEF TasksTypeOK
<1> QED
  BY <1>1, <1>3, <1>5, <1>6, OwedAfterWrite

\* While the mirror is not written every answer stays.
LEMMA SameMirror ==
  ASSUME UNCHANGED <<mirrored, guilds, index>>, NEW u, NEW c
  PROVE  InfoGuild(c)' = InfoGuild(c) /\ (MayJoin(u, c)' <=> MayJoin(u, c))
<1>1. InfoGuild(c)' = InfoGuild(c)
  BY DEF InfoGuild
<1>2. Permissions(u, c)' = Permissions(u, c)
  BY <1>1 DEF Permissions
<1> QED
  BY <1>1, <1>2 DEF MayJoin

\* The mirror is not written: whoever is in a room may be there, or was there
\* before and is reached by a sweep if they were.
LEMMA OwedKept ==
  ASSUME Owed, UNCHANGED <<mirrored, guilds, index>>, row' \in [Users -> Channels \cup {None}],
         \A u \in Users \ excused', c \in Channels : row'[u] = c /\ c # None =>
           \/ MayJoin(u, c)
           \/ /\ u \notin excused /\ row[u] = c
              /\ \A k \in Handlers : Covers(k, u, c) => \E j \in Handlers : Covers(j, u, c)'
  PROVE  Owed'
<1> SUFFICES ASSUME NEW u \in Users \ excused', row'[u] # None, ~MayJoin(u, row[u])'
             PROVE  \E k \in Handlers : Covers(k, u, row[u])'
  BY DEF Owed
<1>1. PICK c \in Channels : row'[u] = c /\ c # None
  OBVIOUS
<1>2. ~MayJoin(u, c)'
  BY <1>1 DEF MayJoin, Permissions, InfoGuild
<1>3. ~MayJoin(u, c)
  BY <1>2, SameMirror
<1>4. u \notin excused /\ row[u] = c
  BY <1>1, <1>3
<1>5. PICK k \in Handlers : Covers(k, u, c)
  BY <1>1, <1>3, <1>4 DEF Owed
<1>6. PICK j \in Handlers : Covers(j, u, c)'
  BY <1>1, <1>3, <1>5
<1> QED
  BY <1>1, <1>6 DEF Covers, InfoGuild

\* A step that leaves the mirror, the rows and the handlers alone.
LEMMA OwedUntouched ==
  ASSUME Owed, UNCHANGED <<mirrored, guilds, index, row, handler>>, excused \subseteq excused',
         row \in [Users -> Channels \cup {None}]
  PROVE  Owed'
<1>1. ASSUME NEW k, NEW u, NEW c, Covers(k, u, c) PROVE Covers(k, u, c)'
  <2>1. InfoGuild(c)' = InfoGuild(c)
    BY SameMirror
  <2> QED
    BY <1>1, <2>1 DEF Covers
<1> QED
  BY <1>1, OwedKept

LEMMA GuildEventOwed ==
  ASSUME RevokedIsOwed, ReplicaIsSound, ReplicaIsSound', NEW h \in Handlers, NEW g \in Guilds,
         GuildCreate(h, g) \/ GuildDelete(h, g)
  PROVE  Owed'
<1>1. Owed /\ UNCHANGED row /\ row \in [Users -> Channels \cup {None}]
  BY DEF RevokedIsOwed, Owed, GuildCreate, GuildDelete, TasksTypeOK
<1>2. CASE Ends(h) /\ UNCHANGED <<replica, excused>>
  BY <1>1, <1>2, OwedUntouched DEF Ends, replica
<1>3. ASSUME NEW d \in Layouts[g], NEW stage \in {"backfill", "occupied"},
             ReplaceGuild(g, d), Begins(h, stage, g, None),
             excused' = excused \cup Orphans(g, DOMAIN d.channels)
      PROVE  Owed'
  <2>1. DOMAIN d.channels \in SUBSET Channels
    BY ReplicaAssumption DEF IsGuildData, IsPartialFunction, ChannelsOf
  <2>2. \A k \in Guilds : k # g => guilds'[k] = guilds[k]
    BY <1>3 DEF ReplaceGuild, ReplicaIsSound, MirrorTypeOK
  <2>3. \A c \in Channels : index'[c] = IF c \in DOMAIN d.channels THEN g
                                        ELSE IF index[c] = g THEN None ELSE index[c]
    BY <1>3 DEF ReplaceGuild
  <2> QED
    BY <1>1, <1>3, <2>1, <2>2, <2>3, GuildOwed
<1>4. ASSUME guilds' = [guilds EXCEPT ![g] = None],
             index' = [c \in Channels |-> IF index[c] = g THEN None ELSE index[c]],
             Begins(h, "occupied", g, None), excused' = excused \cup Orphans(g, {})
      PROVE  Owed'
  <2>1. {} \in SUBSET Channels
    OBVIOUS
  <2>2. \A k \in Guilds : k # g => guilds'[k] = guilds[k]
    BY <1>4 DEF ReplicaIsSound, MirrorTypeOK
  <2>3. \A c \in Channels : index'[c] = IF c \in {} THEN g
                                        ELSE IF index[c] = g THEN None ELSE index[c]
    BY <1>4
  <2> QED
    BY <1>1, <1>4, <2>1, <2>2, <2>3, GuildOwed
<1> QED
  BY <1>2, <1>3, <1>4 DEF GuildCreate, GuildDelete

-----------------------------------------------------------------------------
(* Revocation: the sweep.                                                   *)

LEMMA GoesOne ==
  ASSUME handler \in [Handlers -> Tasks \cup {None}], NEW h \in Handlers,
         NEW task \in Tasks \cup {None}, Goes(h, task)
  PROVE  /\ handler' \in [Handlers -> Tasks \cup {None}]
         /\ handler'[h] = task
         /\ \A k \in Handlers : k # h => handler'[k] = handler[k]
BY DEF Goes

\* A handler moves on and reaches everyone it reached, or they may stay.
LEMMA OwedBySweep ==
  ASSUME TasksTypeOK, Owed, NEW h \in Handlers,
         UNCHANGED <<mirrored, guilds, index, row>>, excused \subseteq excused',
         \A k \in Handlers : k # h => handler'[k] = handler[k],
         \A u \in Users \ excused', c \in Channels :
           row[u] = c /\ c # None /\ Covers(h, u, c) => MayJoin(u, c) \/ Covers(h, u, c)'
  PROVE  Owed'
<1>1. row \in [Users -> Channels \cup {None}]
  BY DEF TasksTypeOK
<1>2. ASSUME NEW u \in Users \ excused', NEW c \in Channels, row[u] = c, c # None,
             NEW k \in Handlers, Covers(k, u, c)
      PROVE  MayJoin(u, c) \/ Covers(h, u, c)' \/ Covers(k, u, c)'
  <2>1. CASE k = h
    BY <1>2, <2>1
  <2>2. CASE k # h
    <3>1. InfoGuild(c)' = InfoGuild(c) /\ handler'[k] = handler[k]
      BY <2>2, SameMirror
    <3> QED
      BY <1>2, <3>1 DEF Covers
  <2> QED
    BY <2>1, <2>2
<1> QED
  BY <1>1, <1>2, OwedKept

LEMMA ListOccupiedOwed ==
  ASSUME TasksTypeOK, Owed, NEW h \in Handlers, ListOccupied(h)
  PROVE  TasksTypeOK' /\ Owed'
<1> DEFINE found == {row[u] : u \in Users} \ {None}
<1>0. /\ handler \in [Handlers -> Tasks \cup {None}] /\ handler[h] \in Tasks
      /\ handler[h] # None /\ handler[h].at = "occupied"
      /\ row \in [Users -> Channels \cup {None}]
      /\ UNCHANGED <<mirrored, guilds, index, row>>
  BY DEF TasksTypeOK, ListOccupied, At, replica
<1>1. CASE Goes(h, [handler[h] EXCEPT !.at = "rooms", !.rooms = found])
           /\ UNCHANGED <<excused, counters>>
  <2> DEFINE task == [handler[h] EXCEPT !.at = "rooms", !.rooms = found]
  <2>1. found \in SUBSET Channels
    BY <1>0
  <2>2. task \in Tasks
    <3> HIDE DEF found
    <3> QED BY <1>0, <2>1 DEF Tasks, Stages
  <2>3. task.guild = handler[h].guild /\ task.rooms = found
    <3> HIDE DEF found
    <3> QED BY <1>0 DEF Tasks
  <2>4. task # None
    BY <2>2, ReplicaAssumption
  <2> HIDE DEF task
  <2>5. /\ handler' \in [Handlers -> Tasks \cup {None}] /\ handler'[h] = task
        /\ \A k \in Handlers : k # h => handler'[k] = handler[k]
    BY <1>0, <1>1, <2>2, GoesOne DEF task
  <2>6. ASSUME NEW u \in Users \ excused', NEW c \in Channels, row[u] = c, c # None,
               Covers(h, u, c)
        PROVE  Covers(h, u, c)'
    <3>1. InfoGuild(c)' = InfoGuild(c)
      BY <1>0, SameMirror
    <3>2. handler[h].guild = InfoGuild(c)
      BY <1>0, <2>6 DEF Covers
    <3>3. c \in found
      BY <2>6
    <3> QED
      BY <2>3, <2>4, <2>5, <3>1, <3>2, <3>3 DEF Covers
  <2>7. Owed'
    BY <1>0, <1>1, <2>5, <2>6, OwedBySweep
  <2> QED
    BY <1>1, <2>5, <2>7 DEF TasksTypeOK, ListOccupied, link, door, counters
<1>2. CASE Goes(h, None) /\ Fault({u \in Users : row[u] # None})
  <2>1. /\ handler' \in [Handlers -> Tasks \cup {None}]
        /\ \A k \in Handlers : k # h => handler'[k] = handler[k]
    BY <1>0, <1>2, GoesOne
  <2>2. /\ excused \subseteq excused'
        /\ \A u \in Users \ excused' : row[u] = None
    BY <1>2 DEF Fault
  <2>3. Owed'
    BY <1>0, <2>1, <2>2, OwedBySweep
  <2> QED
    BY <1>2, <2>1, <2>3 DEF TasksTypeOK, ListOccupied, link, door, Fault
<1> QED
  BY <1>1, <1>2 DEF ListOccupied

LEMMA NextRoomOwed ==
  ASSUME TasksTypeOK, Owed, NEW h \in Handlers, NextRoom(h)
  PROVE  TasksTypeOK' /\ Owed'
<1>0. /\ handler \in [Handlers -> Tasks \cup {None}] /\ handler[h] \in Tasks
      /\ handler[h] # None /\ handler[h].at = "rooms"
      /\ UNCHANGED <<mirrored, guilds, index, row, excused>>
  BY DEF TasksTypeOK, NextRoom, At, replica
<1>1. ASSUME NEW x \in handler[h].rooms,
             Goes(h, [handler[h] EXCEPT !.rooms = @ \ {x}, !.room = x,
                        !.at = IF InfoGuild(x) = handler[h].guild THEN "list" ELSE "rooms"])
      PROVE  TasksTypeOK' /\ Owed'
  <2> DEFINE stage == IF InfoGuild(x) = handler[h].guild THEN "list" ELSE "rooms"
             task  == [handler[h] EXCEPT !.rooms = @ \ {x}, !.room = x, !.at = stage]
  <2>1. stage \in Stages
    BY DEF Stages
  <2>2. stage = "list" <=> InfoGuild(x) = handler[h].guild
    OBVIOUS
  <2> HIDE DEF stage
  <2>3. task \in Tasks
    BY <1>0, <2>1 DEF Tasks
  <2>4. /\ task.guild = handler[h].guild /\ task.rooms = handler[h].rooms \ {x}
        /\ task.room = x /\ task.at = stage
    BY <1>0 DEF Tasks
  <2>5. task # None
    BY <2>3, ReplicaAssumption
  <2>6. Goes(h, task)
    BY <1>1 DEF stage
  <2> HIDE DEF task
  <2>7. /\ handler' \in [Handlers -> Tasks \cup {None}] /\ handler'[h] = task
        /\ \A k \in Handlers : k # h => handler'[k] = handler[k]
    BY <1>0, <2>3, <2>6, GoesOne
  <2>8. ASSUME NEW u \in Users \ excused', NEW c \in Channels, Covers(h, u, c)
        PROVE  Covers(h, u, c)'
    <3>1. InfoGuild(c)' = InfoGuild(c)
      BY <1>0, SameMirror
    <3>2. c \in handler[h].rooms /\ handler[h].guild = InfoGuild(c)
      BY <1>0, <2>8 DEF Covers
    <3>3. CASE c = x
      BY <2>2, <2>4, <2>5, <2>7, <3>2, <3>3 DEF Covers
    <3>4. CASE c # x
      BY <2>4, <2>5, <2>7, <3>1, <3>2, <3>4 DEF Covers
    <3> QED
      BY <3>3, <3>4
  <2>9. Owed'
    BY <1>0, <2>7, <2>8, OwedBySweep
  <2> QED
    BY <2>7, <2>9 DEF TasksTypeOK, NextRoom, link, door, counters
<1>2. CASE handler[h].rooms = {} /\ Goes(h, None)
  <2>1. /\ handler' \in [Handlers -> Tasks \cup {None}]
        /\ \A k \in Handlers : k # h => handler'[k] = handler[k]
    BY <1>0, <1>2, GoesOne
  <2>2. \A u, c : ~Covers(h, u, c)
    BY <1>0, <1>2 DEF Covers
  <2>3. Owed'
    BY <1>0, <2>1, <2>2, OwedBySweep
  <2> QED
    BY <2>1, <2>3 DEF TasksTypeOK, NextRoom, link, door, counters
<1> QED
  BY <1>1, <1>2 DEF NextRoom

\* What After keeps of a handler's work.
LEMMA AfterTask ==
  ASSUME NEW h, handler[h] \in Tasks
  PROVE  /\ After(h) \in Tasks /\ After(h) # None
         /\ After(h).guild = handler[h].guild /\ After(h).rooms = handler[h].rooms
<1>1. After(h) \in Tasks
  BY DEF After, Tasks, Stages
<1> QED
  BY <1>1, ReplicaAssumption DEF After, Tasks

LEMMA ListRoomOwed ==
  ASSUME TasksTypeOK, Owed, NEW h \in Handlers, ListRoom(h)
  PROVE  TasksTypeOK' /\ Owed'
<1> DEFINE here == {u \in Users : row[u] = handler[h].room}
<1>0. /\ handler \in [Handlers -> Tasks \cup {None}] /\ handler[h] \in Tasks
      /\ handler[h] # None /\ handler[h].at = "list"
      /\ UNCHANGED <<mirrored, guilds, index, row>>
  BY DEF TasksTypeOK, ListRoom, At, replica
<1>1. CASE Goes(h, [handler[h] EXCEPT !.at = "people", !.people = here])
           /\ UNCHANGED <<excused, counters>>
  <2> DEFINE task == [handler[h] EXCEPT !.at = "people", !.people = here]
  <2>1. task \in Tasks
    BY <1>0 DEF Tasks, Stages
  <2>2. /\ task.guild = handler[h].guild /\ task.rooms = handler[h].rooms
        /\ task.at = "people" /\ task.room = handler[h].room /\ task.people = here
    BY <1>0 DEF Tasks
  <2>3. task # None
    BY <2>1, ReplicaAssumption
  <2> HIDE DEF task
  <2>4. /\ handler' \in [Handlers -> Tasks \cup {None}] /\ handler'[h] = task
        /\ \A k \in Handlers : k # h => handler'[k] = handler[k]
    BY <1>0, <1>1, <2>1, GoesOne DEF task
  <2>5. ASSUME NEW u \in Users \ excused', NEW c \in Channels, row[u] = c, Covers(h, u, c)
        PROVE  Covers(h, u, c)'
    <3>1. InfoGuild(c)' = InfoGuild(c)
      BY <1>0, SameMirror
    <3>2. CASE c \in handler[h].rooms /\ handler[h].guild = InfoGuild(c)
      BY <2>2, <2>3, <2>4, <3>1, <3>2 DEF Covers
    <3>3. CASE handler[h].room = c
      <4>1. u \in here
        BY <2>5, <3>3
      <4> QED
        BY <2>2, <2>3, <2>4, <3>3, <4>1 DEF Covers
    <3> QED
      BY <1>0, <2>5, <3>2, <3>3 DEF Covers
  <2>6. Owed'
    BY <1>0, <1>1, <2>4, <2>5, OwedBySweep
  <2> QED
    BY <1>1, <2>4, <2>6 DEF TasksTypeOK, ListRoom, link, door, counters
<1>2. CASE Goes(h, After(h)) /\ Fault(here)
  <2>1. /\ handler' \in [Handlers -> Tasks \cup {None}] /\ handler'[h] = After(h)
        /\ \A k \in Handlers : k # h => handler'[k] = handler[k]
    BY <1>0, <1>2, AfterTask, GoesOne
  <2>2. excused' = excused \cup here
    BY <1>2 DEF Fault
  <2>3. ASSUME NEW u \in Users \ excused', NEW c \in Channels, row[u] = c, Covers(h, u, c)
        PROVE  Covers(h, u, c)'
    <3>1. InfoGuild(c)' = InfoGuild(c)
      BY <1>0, SameMirror
    <3>2. c # handler[h].room
      BY <2>2, <2>3
    <3>3. c \in handler[h].rooms /\ handler[h].guild = InfoGuild(c)
      BY <1>0, <2>3, <3>2 DEF Covers
    <3> QED
      BY <1>0, <2>1, <3>1, <3>3, AfterTask DEF Covers
  <2>4. Owed'
    BY <1>0, <2>1, <2>2, <2>3, OwedBySweep
  <2> QED
    BY <1>2, <2>1, <2>4 DEF TasksTypeOK, ListRoom, link, door, Fault
<1> QED
  BY <1>1, <1>2 DEF ListRoom

LEMMA CheckPersonOwed ==
  ASSUME TasksTypeOK, Owed, NEW h \in Handlers, CheckPerson(h)
  PROVE  TasksTypeOK' /\ Owed'
<1>0. /\ handler \in [Handlers -> Tasks \cup {None}] /\ handler[h] \in Tasks
      /\ handler[h] # None /\ handler[h].at = "people"
      /\ UNCHANGED <<mirrored, guilds, index, row, excused>>
  BY DEF TasksTypeOK, CheckPerson, At, replica
<1>1. ASSUME NEW x \in handler[h].people, NEW task \in Tasks, Goes(h, task),
             /\ task.guild = handler[h].guild /\ task.rooms = handler[h].rooms
             /\ task.room = handler[h].room /\ task.people = handler[h].people \ {x},
             \/ task.at = "people" /\ MayJoin(x, handler[h].room)
             \/ task.at = "evict" /\ task.victim = x
      PROVE  TasksTypeOK' /\ Owed'
  <2>1. task # None
    BY ReplicaAssumption
  <2>2. /\ handler' \in [Handlers -> Tasks \cup {None}] /\ handler'[h] = task
        /\ \A k \in Handlers : k # h => handler'[k] = handler[k]
    BY <1>0, <1>1, GoesOne
  <2>3. ASSUME NEW u \in Users \ excused', NEW c \in Channels, Covers(h, u, c)
        PROVE  MayJoin(u, c) \/ Covers(h, u, c)'
    <3>1. InfoGuild(c)' = InfoGuild(c)
      BY <1>0, SameMirror
    <3>2. CASE c \in handler[h].rooms /\ handler[h].guild = InfoGuild(c)
      BY <1>1, <2>1, <2>2, <3>1, <3>2 DEF Covers
    <3>3. CASE handler[h].room = c /\ u \in handler[h].people /\ u # x
      BY <1>1, <2>1, <2>2, <3>3 DEF Covers
    <3>4. CASE handler[h].room = c /\ u = x
      BY <1>1, <2>1, <2>2, <3>4 DEF Covers
    <3> QED
      BY <1>0, <2>3, <3>2, <3>3, <3>4 DEF Covers
  <2>4. Owed'
    BY <1>0, <2>2, <2>3, OwedBySweep
  <2> QED
    BY <2>2, <2>4 DEF TasksTypeOK, CheckPerson, link, door, counters
<1>2. ASSUME NEW x \in handler[h].people,
             Goes(h, IF MayJoin(x, handler[h].room)
                     THEN [handler[h] EXCEPT !.people = @ \ {x}]
                     ELSE [handler[h] EXCEPT !.people = @ \ {x}, !.at = "evict", !.victim = x])
      PROVE  TasksTypeOK' /\ Owed'
  <2> DEFINE kept  == [handler[h] EXCEPT !.people = @ \ {x}]
             taken == [handler[h] EXCEPT !.people = @ \ {x}, !.at = "evict", !.victim = x]
  <2>1. kept \in Tasks /\ taken \in Tasks
    BY <1>0 DEF Tasks, Stages
  <2>2. /\ kept.guild = handler[h].guild /\ kept.rooms = handler[h].rooms
        /\ kept.room = handler[h].room /\ kept.people = handler[h].people \ {x}
        /\ kept.at = "people"
    BY <1>0 DEF Tasks
  <2>3. /\ taken.guild = handler[h].guild /\ taken.rooms = handler[h].rooms
        /\ taken.room = handler[h].room /\ taken.people = handler[h].people \ {x}
        /\ taken.at = "evict" /\ taken.victim = x
    BY <1>0 DEF Tasks
  <2>4. CASE MayJoin(x, handler[h].room) /\ Goes(h, kept)
    <3> HIDE DEF kept
    <3> QED BY <1>1, <2>1, <2>2, <2>4
  <2>5. CASE Goes(h, taken)
    <3> HIDE DEF taken
    <3> QED BY <1>1, <2>1, <2>3, <2>5
  <2> QED
    BY <1>2, <2>4, <2>5
<1>3. CASE handler[h].people = {} /\ Goes(h, After(h))
  <2>1. /\ handler' \in [Handlers -> Tasks \cup {None}] /\ handler'[h] = After(h)
        /\ \A k \in Handlers : k # h => handler'[k] = handler[k]
    BY <1>0, <1>3, AfterTask, GoesOne
  <2>2. ASSUME NEW u \in Users \ excused', NEW c \in Channels, Covers(h, u, c)
        PROVE  Covers(h, u, c)'
    <3>1. InfoGuild(c)' = InfoGuild(c)
      BY <1>0, SameMirror
    <3>2. c \in handler[h].rooms /\ handler[h].guild = InfoGuild(c)
      BY <1>0, <1>3, <2>2 DEF Covers
    <3> QED
      BY <1>0, <2>1, <3>1, <3>2, AfterTask DEF Covers
  <2>3. Owed'
    BY <1>0, <2>1, <2>2, OwedBySweep
  <2> QED
    BY <2>1, <2>3 DEF TasksTypeOK, CheckPerson, link, door, counters
<1> QED
  BY <1>2, <1>3 DEF CheckPerson

LEMMA EvictOwed ==
  ASSUME TasksTypeOK, Owed, NEW h \in Handlers, Evict(h), handler[h].victim \in Users
  PROVE  TasksTypeOK' /\ Owed'
<1> DEFINE x    == handler[h].victim
           task == [handler[h] EXCEPT !.at = "people", !.victim = None]
<1>0. /\ handler \in [Handlers -> Tasks \cup {None}] /\ handler[h] \in Tasks
      /\ handler[h] # None /\ handler[h].at = "evict"
      /\ row \in [Users -> Channels \cup {None}]
      /\ UNCHANGED <<mirrored, guilds, index>> /\ Goes(h, task)
  BY DEF TasksTypeOK, Evict, At, replica
<1>1. task \in Tasks
  BY <1>0 DEF Tasks, Stages
<1>2. /\ task.guild = handler[h].guild /\ task.rooms = handler[h].rooms
      /\ task.room = handler[h].room /\ task.people = handler[h].people /\ task.at = "people"
  BY <1>0 DEF Tasks
<1>3. task # None
  BY <1>1, ReplicaAssumption
<1> HIDE DEF task
<1>4. /\ handler' \in [Handlers -> Tasks \cup {None}] /\ handler'[h] = task
      /\ \A k \in Handlers : k # h => handler'[k] = handler[k]
  BY <1>0, <1>1, GoesOne
<1>5. ASSUME NEW u, NEW c \in Channels, u # x, NEW k \in Handlers, Covers(k, u, c)
      PROVE  Covers(k, u, c)'
  <2>1. InfoGuild(c)' = InfoGuild(c)
    BY <1>0, SameMirror
  <2>2. CASE k # h
    BY <1>4, <1>5, <2>1, <2>2 DEF Covers
  <2>3. CASE k = h
    BY <1>0, <1>2, <1>3, <1>4, <1>5, <2>1, <2>3 DEF Covers
  <2> QED
    BY <2>2, <2>3
<1>6. CASE row' = [row EXCEPT ![x] = None] /\ excused' = excused \ {x} /\ UNCHANGED counters
  <2>1. /\ row' \in [Users -> Channels \cup {None}]
        /\ \A u \in Users : (u # x => row'[u] = row[u]) /\ (u = x => row'[u] = None)
    BY <1>0, <1>6
  <2>2. Owed'
    BY <1>0, <1>5, <1>6, <2>1, OwedKept
  <2> QED
    BY <1>4, <1>6, <2>1, <2>2 DEF TasksTypeOK, Evict, link, door, counters
<1>7. CASE Fault({x}) /\ UNCHANGED row
  <2>1. excused' = excused \cup {x}
    BY <1>7 DEF Fault
  <2>2. Owed'
    BY <1>0, <1>5, <1>7, <2>1, OwedKept
  <2>3. x \in Users /\ UNCHANGED <<link, door>>
    BY <1>0 DEF Evict
  <2> QED
    BY <1>4, <1>7, <2>2, <2>3 DEF TasksTypeOK, Fault, link, door
<1> QED
  BY <1>6, <1>7 DEF Evict

\* The pages of a guild's members are written by the handler that sweeps the
\* guild when they have all come.
LEMMA BackfillOwed ==
  ASSUME RevokedIsOwed, ReplicaIsSound, ReplicaIsSound', NEW h \in Handlers, Backfill(h)
  PROVE  TasksTypeOK' /\ Owed'
<1> DEFINE g == handler[h].guild
<1>0. /\ TasksTypeOK /\ Owed
      /\ handler \in [Handlers -> Tasks \cup {None}] /\ handler[h] \in Tasks
      /\ handler[h] # None /\ handler[h].at = "backfill" /\ g \in Guilds
      /\ row \in [Users -> Channels \cup {None}]
      /\ UNCHANGED index
  BY DEF RevokedIsOwed, Owed, TasksTypeOK, Backfill, At, Tasks
<1>1. ASSUME NEW d, Writes(g, d), UNCHANGED handler
      PROVE  TasksTypeOK' /\ Owed'
  <2>1. UNCHANGED <<row, excused, link, door>> /\ \A k \in Guilds : k # g => guilds'[k] = guilds[k]
    BY <1>0, <1>1, WritesOne DEF Writes
  <2>2. ASSUME NEW u, NEW c \in Channels
        PROVE  \/ Covers(h, u, c)'
               \/ InfoGuild(c)' = InfoGuild(c) /\ (MayJoin(u, c) => MayJoin(u, c)')
    <3>1. CASE index[c] = g
      <4>1. InfoGuild(c)' = g
        BY <1>0, <3>1, InfoIsIndexNext
      <4> QED
        BY <1>0, <1>1, <4>1 DEF Covers
    <3>2. CASE index[c] # g
      <4>1. index[c] \in Guilds \cup {None}
        BY DEF ReplicaIsSound, MirrorTypeOK
      <4>2. index'[c] = index[c] /\ (index[c] # None => guilds'[index[c]] = guilds[index[c]])
        BY <1>0, <2>1, <3>2, <4>1
      <4> QED
        BY <4>2, SameAnswer
    <3> QED
      BY <3>1, <3>2
  <2>3. Owed'
    BY <1>0, <1>1, <2>1, <2>2, OwedAfterWrite
  <2> QED
    BY <1>0, <1>1, <2>1, <2>3 DEF TasksTypeOK, Backfill, link, door, counters
<1>2. CASE /\ Goes(h, [handler[h] EXCEPT !.at = "occupied"])
           /\ UNCHANGED <<mirrored, guilds, link, row, door, excused>>
  <2> DEFINE task == [handler[h] EXCEPT !.at = "occupied"]
  <2>1. task \in Tasks /\ task.guild = g /\ task.at = "occupied" /\ task.rooms = handler[h].rooms
    BY <1>0 DEF Tasks, Stages
  <2>2. task # None
    BY <2>1, ReplicaAssumption
  <2> HIDE DEF task
  <2>3. /\ handler' \in [Handlers -> Tasks \cup {None}] /\ handler'[h] = task
        /\ \A k \in Handlers : k # h => handler'[k] = handler[k]
    BY <1>0, <1>2, <2>1, GoesOne DEF task
  <2>4. ASSUME NEW u, NEW c \in Channels, Covers(h, u, c)
        PROVE  Covers(h, u, c)'
    <3>1. InfoGuild(c)' = InfoGuild(c)
      BY <1>0, <1>2, SameMirror
    <3> QED
      BY <1>0, <2>1, <2>2, <2>3, <2>4, <3>1 DEF Covers
  <2>5. Owed'
    BY <1>0, <1>2, <2>3, <2>4, OwedBySweep
  <2> QED
    BY <1>0, <1>2, <2>3, <2>5 DEF TasksTypeOK, Backfill, link, door, counters
<1> QED
  BY <1>1, <1>2 DEF Backfill, UpsertMember

\* The handler that evicts has someone to evict.
VictimsKnown == \A h \in Handlers : At(h, "evict") => handler[h].victim \in Users

LEMMA VictimsStep ==
  ASSUME TasksTypeOK, VictimsKnown, Next
  PROVE  VictimsKnown'
<1>0. handler \in [Handlers -> Tasks \cup {None}]
  BY DEF TasksTypeOK
<1>1. CASE UNCHANGED handler
  BY <1>1 DEF VictimsKnown, At
<1>2. ASSUME NEW h \in Handlers, handler'[h] # None => handler'[h].at # "evict",
             \A k \in Handlers : k # h => handler'[k] = handler[k]
      PROVE  VictimsKnown'
  BY <1>2 DEF VictimsKnown, At
<1>3. ASSUME NEW h \in Handlers, NEW stage \in Stages \ {"evict"}, NEW g, NEW c,
             Begins(h, stage, g, c)
      PROVE  VictimsKnown'
  <2>1. handler' = [handler EXCEPT ![h] = [at |-> stage, guild |-> g, rooms |-> {}, room |-> c,
                                           people |-> {}, victim |-> None]]
    BY <1>3 DEF Begins
  <2>2. handler'[h].at = stage /\ \A k \in Handlers : k # h => handler'[k] = handler[k]
    BY <1>0, <2>1
  <2> QED
    BY <1>2, <2>2
<1>4. ASSUME NEW h \in Handlers, NEW task \in Tasks \cup {None}, Goes(h, task),
             task # None => task.at # "evict" \/ task.victim \in Users
      PROVE  VictimsKnown'
  <2>1. /\ handler'[h] = task
        /\ \A k \in Handlers : k # h => handler'[k] = handler[k]
    BY <1>0, <1>4, GoesOne
  <2> QED
    BY <1>4, <2>1 DEF VictimsKnown, At
<1>5. ASSUME NEW h \in Handlers, Discord(h)
      PROVE  VictimsKnown'
  BY <1>1, <1>3, <1>5
     DEF Discord, GuildCreate, GuildDelete, MemberRemoval, MemberAddition, MemberUpdate,
         RoleUpdate, RoleDelete, RoleCreate, ChannelDelete, RefreshChannel, Ends, Stages
<1>6. ASSUME NEW h \in Handlers, Sweeps(h)
      PROVE  VictimsKnown'
  <2>1. handler[h] \in Tasks
    BY <1>0, <1>6 DEF Sweeps, Backfill, ListOccupied, NextRoom, ListRoom, CheckPerson, Evict, At
  <2>2. CASE Backfill(h)
    BY <1>1, <1>4, <2>1, <2>2 DEF Backfill, Tasks, Stages
  <2>3. CASE ListOccupied(h)
    <3>1. {row[u] : u \in Users} \ {None} \in SUBSET Channels
      BY DEF TasksTypeOK
    <3> DEFINE task == [handler[h] EXCEPT !.at = "rooms", !.rooms = {row[u] : u \in Users} \ {None}]
    <3>2. task \in Tasks /\ task.at # "evict"
      BY <2>1, <3>1 DEF Tasks, Stages
    <3> HIDE DEF task
    <3>3. Goes(h, task) \/ Goes(h, None)
      BY <2>3 DEF ListOccupied, task
    <3> QED
      BY <1>4, <3>2, <3>3
  <2>4. CASE NextRoom(h)
    <3>1. CASE Goes(h, None)
      BY <1>4, <3>1
    <3>2. ASSUME NEW c \in handler[h].rooms, NEW stage \in {"list", "rooms"},
                 Goes(h, [handler[h] EXCEPT !.rooms = @ \ {c}, !.room = c, !.at = stage])
          PROVE  VictimsKnown'
      <4> DEFINE task == [handler[h] EXCEPT !.rooms = @ \ {c}, !.room = c, !.at = stage]
      <4>1. task \in Tasks /\ task.at # "evict"
        BY <2>1 DEF Tasks, Stages
      <4> HIDE DEF task
      <4> QED
        BY <1>4, <3>2, <4>1 DEF task
    <3> QED
      BY <2>4, <3>1, <3>2 DEF NextRoom
  <2>5. After(h) \in Tasks /\ After(h).at # "evict"
    BY <2>1, AfterTask DEF After, Tasks
  <2>6. CASE ListRoom(h)
    <3> DEFINE task == [handler[h] EXCEPT !.at = "people",
                                          !.people = {u \in Users : row[u] = handler[h].room}]
    <3>1. task \in Tasks /\ task.at # "evict"
      BY <2>1 DEF Tasks, Stages
    <3> HIDE DEF task
    <3>2. Goes(h, task) \/ Goes(h, After(h))
      BY <2>6 DEF ListRoom, task
    <3> QED
      BY <1>4, <2>5, <3>1, <3>2
  <2>7. CASE CheckPerson(h)
    <3>1. CASE Goes(h, After(h))
      BY <1>4, <2>5, <3>1
    <3>2. ASSUME NEW u \in handler[h].people PROVE u \in Users
      BY <2>1 DEF Tasks
    <3>3. ASSUME NEW u \in handler[h].people,
                 Goes(h, [handler[h] EXCEPT !.people = @ \ {u}])
          PROVE  VictimsKnown'
      <4> DEFINE task == [handler[h] EXCEPT !.people = @ \ {u}]
      <4>1. task \in Tasks /\ task.at # "evict"
        BY <2>1, <2>7 DEF Tasks, Stages, CheckPerson, At
      <4> HIDE DEF task
      <4> QED
        BY <1>4, <3>3, <4>1 DEF task
    <3>4. ASSUME NEW u \in handler[h].people,
                 Goes(h, [handler[h] EXCEPT !.people = @ \ {u}, !.at = "evict", !.victim = u])
          PROVE  VictimsKnown'
      <4> DEFINE task == [handler[h] EXCEPT !.people = @ \ {u}, !.at = "evict", !.victim = u]
      <4>1. task \in Tasks /\ task.victim \in Users
        BY <2>1, <3>2 DEF Tasks, Stages
      <4> HIDE DEF task
      <4> QED
        BY <1>4, <3>4, <4>1 DEF task
    <3> QED
      BY <2>7, <3>1, <3>3, <3>4 DEF CheckPerson
  <2>8. CASE Evict(h)
    <3> DEFINE task == [handler[h] EXCEPT !.at = "people", !.victim = None]
    <3>1. task \in Tasks /\ task.at # "evict"
      BY <2>1 DEF Tasks, Stages
    <3> HIDE DEF task
    <3> QED
      BY <1>4, <2>8, <3>1 DEF Evict, task
  <2> QED
    BY <1>6, <2>2, <2>3, <2>4, <2>6, <2>7, <2>8 DEF Sweeps
<1>7. ASSUME NEW u \in Users, Door(u)
      PROVE  VictimsKnown'
  BY <1>1, <1>7 DEF Door, CheckAccess, IssueToken, Leave, Ask, Enter
<1>8. CASE (\E up \in BOOLEAN : SetConnected(up)) \/ Tick
  BY <1>1, <1>8 DEF SetConnected, Tick
<1> QED
  BY <1>5, <1>6, <1>7, <1>8 DEF Next

-----------------------------------------------------------------------------
(* Revocation: the door and the gateway's link.                             *)

LEMMA DoorOwed ==
  ASSUME TasksTypeOK, Owed, NEW x \in Users, Door(x)
  PROVE  TasksTypeOK' /\ Owed'
<1>0. /\ row \in [Users -> Channels \cup {None}] /\ excused \subseteq Users
      /\ UNCHANGED <<mirrored, guilds, index, handler, connected, down>>
  BY DEF TasksTypeOK, Door, CheckAccess, IssueToken, Leave, Ask, Enter, replica, link
<1>1. ASSUME NEW u, NEW c, NEW k, Covers(k, u, c) PROVE Covers(k, u, c)'
  <2>1. InfoGuild(c)' = InfoGuild(c)
    BY <1>0, SameMirror
  <2> QED
    BY <1>0, <1>1, <2>1 DEF Covers
<1>2. ASSUME NEW c \in Channels, Enter(x, c)
      PROVE  TasksTypeOK' /\ Owed'
  <2>1. row' = [row EXCEPT ![x] = c] /\ UNCHANGED <<door, events, faults>> /\ joins' = joins + 1
    BY <1>2 DEF Enter
  <2>2. /\ row' \in [Users -> Channels \cup {None}] /\ row'[x] = c
        /\ \A u \in Users : u # x => row'[u] = row[u]
    BY <1>0, <2>1
  <2>3. excused' = IF MayJoin(x, c) THEN excused \ {x} ELSE excused \cup {x}
    BY <1>2 DEF Enter
  <2>4. Owed'
    BY <1>0, <1>1, <2>2, <2>3, OwedKept
  <2> QED
    BY <1>0, <2>1, <2>2, <2>3, <2>4 DEF TasksTypeOK, door
<1>3. CASE Leave(x)
  <2>1. row' = [row EXCEPT ![x] = None] /\ excused' = excused \ {x} /\ UNCHANGED <<door, counters>>
    BY <1>3 DEF Leave
  <2>2. /\ row' \in [Users -> Channels \cup {None}] /\ row'[x] = None
        /\ \A u \in Users : u # x => row'[u] = row[u]
    BY <1>0, <2>1
  <2>3. Owed'
    BY <1>0, <1>1, <2>1, <2>2, OwedKept
  <2> QED
    BY <1>0, <2>1, <2>2, <2>3 DEF TasksTypeOK, door, counters
<1>4. CASE CheckAccess(x) \/ IssueToken(x) \/ \E c \in Channels : Ask(x, c)
  <2>1. UNCHANGED <<row, excused, counters>>
    BY <1>4 DEF CheckAccess, IssueToken, Ask
  <2>2. Owed'
    BY <1>0, <2>1, OwedUntouched
  <2> DEFINE Requests == [channel : Channels, at : {"permissions", "info"}]
  <2>3. asking \in [Users -> Requests \cup {None}] /\ tokens \subseteq Users \X Channels
    BY DEF TasksTypeOK
  <2>4. asking' \in [Users -> Requests \cup {None}] /\ tokens' \subseteq Users \X Channels
    <3>1. ASSUME NEW r \in Requests \cup {None}, asking' = [asking EXCEPT ![x] = r]
          PROVE  asking' \in [Users -> Requests \cup {None}]
      BY <2>3, <3>1
    <3>2. CASE \E c \in Channels : Ask(x, c)
      BY <2>3, <3>1, <3>2 DEF Ask
    <3>3. CASE CheckAccess(x)
      <4>1. asking[x] \in Requests
        BY <2>3, <3>3 DEF CheckAccess
      <4>2. [asking[x] EXCEPT !.at = "info"] \in Requests
        BY <4>1
      <4> QED
        BY <2>3, <3>1, <3>3, <4>2 DEF CheckAccess
    <3>4. CASE IssueToken(x)
      <4>1. asking[x].channel \in Channels
        BY <2>3, <3>4 DEF IssueToken
      <4> QED
        BY <2>3, <3>1, <3>4, <4>1 DEF IssueToken
    <3> QED
      BY <1>4, <3>2, <3>3, <3>4
  <2> QED
    BY <1>0, <2>1, <2>2, <2>4 DEF TasksTypeOK, counters
<1> QED
  BY <1>2, <1>3, <1>4 DEF Door

LEMMA LinkOwed ==
  ASSUME TasksTypeOK, Owed, (\E up \in BOOLEAN : SetConnected(up)) \/ Tick
  PROVE  TasksTypeOK' /\ Owed'
<1>1. UNCHANGED <<mirrored, guilds, index, row, handler, excused, tokens, asking,
                  events, joins, faults>>
  BY DEF SetConnected, Tick, replica, door, counters
<1>2. Owed'
  BY <1>1, OwedUntouched DEF TasksTypeOK
<1>3. connected' \in BOOLEAN /\ down' \in 0..(Grace + 1) \cup {None}
  BY ReplicaAssumption DEF SetConnected, Tick, TasksTypeOK
<1> QED
  BY <1>1, <1>2, <1>3 DEF TasksTypeOK

-----------------------------------------------------------------------------
(* Revocation: every event of Discord, and the theorem.                     *)

LEMMA DiscordTypes ==
  ASSUME TasksTypeOK, NEW h \in Handlers, Discord(h)
  PROVE  TasksTypeOK'
<1>1. /\ UNCHANGED <<connected, down, row, tokens, asking, joins, faults>> /\ events' = events + 1
      /\ excused' \subseteq Users
  BY DEF TasksTypeOK, Discord, GuildCreate, GuildDelete, MemberRemoval, MemberAddition,
         MemberUpdate, RoleUpdate, RoleDelete, RoleCreate, ChannelDelete, RefreshChannel, Event,
         UpsertMember, UpsertRole, Writes, link, door, Orphans
<1>2. handler' \in [Handlers -> Tasks \cup {None}]
  <2>1. CASE UNCHANGED handler
    BY <2>1 DEF TasksTypeOK
  <2>2. ASSUME NEW stage \in Stages, NEW g \in Guilds, NEW c \in Channels \cup {None},
               Begins(h, stage, g, c)
        PROVE  handler' \in [Handlers -> Tasks \cup {None}]
    BY <2>2, BeginsOne
  <2> QED
    BY <2>1, <2>2
       DEF Discord, GuildCreate, GuildDelete, MemberRemoval, MemberAddition, MemberUpdate,
           RoleUpdate, RoleDelete, RoleCreate, ChannelDelete, RefreshChannel, Ends, Stages
<1> QED
  BY <1>1, <1>2 DEF TasksTypeOK

LEMMA OwedStep ==
  ASSUME RevokedIsOwed, VictimsKnown, ReplicaIsSound, ReplicaIsSound', [Next]_vars
  PROVE  RevokedIsOwed'
<1>1. TasksTypeOK /\ Owed
  BY DEF RevokedIsOwed, Owed
<1> SUFFICES TasksTypeOK' /\ Owed'
  BY DEF RevokedIsOwed, Owed
<1>2. ASSUME NEW h \in Handlers, Discord(h)
      PROVE  TasksTypeOK' /\ Owed'
  <2>1. TasksTypeOK'
    BY <1>1, <1>2, DiscordTypes
  <2>2. PICK g \in Guilds :
          \/ GuildCreate(h, g) \/ GuildDelete(h, g)
          \/ \E u \in Users : \/ MemberRemoval(h, g, u)
                              \/ \E ids \in SUBSET Roles :
                                   MemberAddition(h, g, u, ids) \/ MemberUpdate(h, g, u, ids)
          \/ \E r \in Roles \cup {g} : \E mask \in Masks : RoleUpdate(h, g, r, mask)
          \/ \E r \in Roles : RoleDelete(h, g, r) \/ \E mask \in Masks : RoleCreate(h, g, r, mask)
          \/ \E c \in Channels : \/ ChannelDelete(h, g, c)
                                 \/ \E os \in RuleSets : RefreshChannel(h, g, c, os)
    BY <1>2 DEF Discord
  <2>3. CASE GuildCreate(h, g) \/ GuildDelete(h, g)
    BY <2>1, <2>3, GuildEventOwed
  <2>4. CASE \/ \E u \in Users : \/ MemberRemoval(h, g, u)
                                 \/ \E ids \in SUBSET Roles : MemberUpdate(h, g, u, ids)
             \/ \E r \in Roles \cup {g} : \E mask \in Masks : RoleUpdate(h, g, r, mask)
             \/ \E r \in Roles : RoleDelete(h, g, r)
    BY <2>1, <2>4, SweptOwed
  <2>5. CASE \E u \in Users, ids \in SUBSET Roles : MemberAddition(h, g, u, ids)
    BY <2>1, <2>5, AdditionOwed
  <2>6. CASE \E r \in Roles, mask \in Masks : RoleCreate(h, g, r, mask)
    BY <2>1, <2>6, RoleCreateOwed
  <2>7. CASE \E c \in Channels : ChannelDelete(h, g, c)
    BY <2>1, <2>7, ChannelDeleteOwed
  <2>8. CASE \E c \in Channels, os \in RuleSets : RefreshChannel(h, g, c, os)
    BY <2>1, <2>8, RefreshOwed
  <2> QED
    BY <2>2, <2>3, <2>4, <2>5, <2>6, <2>7, <2>8
<1>3. ASSUME NEW h \in Handlers, Sweeps(h)
      PROVE  TasksTypeOK' /\ Owed'
  <2>1. CASE Backfill(h)
    BY <2>1, BackfillOwed
  <2>2. CASE Evict(h)
    <3>1. handler[h].victim \in Users
      BY <2>2 DEF VictimsKnown, Evict
    <3> QED
      BY <1>1, <2>2, <3>1, EvictOwed
  <2> QED
    BY <1>1, <1>3, <2>1, <2>2, ListOccupiedOwed, NextRoomOwed, ListRoomOwed, CheckPersonOwed
       DEF Sweeps
<1>4. ASSUME NEW u \in Users, Door(u)
      PROVE  TasksTypeOK' /\ Owed'
  BY <1>1, <1>4, DoorOwed
<1>5. CASE (\E up \in BOOLEAN : SetConnected(up)) \/ Tick
  BY <1>1, <1>5, LinkOwed
<1>6. CASE UNCHANGED vars
  <2>1. Owed'
    BY <1>1, <1>6, OwedUntouched DEF vars, TasksTypeOK
  <2> QED
    BY <1>1, <1>6, <2>1 DEF TasksTypeOK, vars
<1> QED
  BY <1>2, <1>3, <1>4, <1>5, <1>6 DEF Next

\* Whoever stays in a room the replica says they may not be in is reached by a
\* sweep under way, however events, pages, joins and sweeps overlap
\* (bot/src/revoke.rs, handler.rs): a handler that writes the mirror sweeps what
\* it wrote, and what it skips is a room of another guild, someone who may stay,
\* or a query that failed.
THEOREM RevocationsAreOwed == ReplicaSpec => []RevokedIsOwed
<1>1. Init => RevokedIsOwed /\ VictimsKnown
  <2>1. Init => VictimsKnown
    BY DEF Init, VictimsKnown, At
  <2>2. Init => RevokedIsOwed
    <3> SUFFICES ASSUME Init PROVE RevokedIsOwed
      OBVIOUS
    <3>1. connected \in BOOLEAN /\ down \in 0..(Grace + 1) \cup {None}
      BY DEF Init
    <3>2. row \in [Users -> Channels \cup {None}] /\ tokens \subseteq Users \X Channels
      BY DEF Init
    <3>3. asking \in [Users -> [channel : Channels, at : {"permissions", "info"}] \cup {None}]
      BY DEF Init
    <3>4. handler \in [Handlers -> Tasks \cup {None}] /\ excused \subseteq Users
      BY DEF Init
    <3>5. events \in Nat /\ joins \in Nat /\ faults \in Nat
      BY DEF Init
    <3>6. TasksTypeOK
      BY <3>1, <3>2, <3>3, <3>4, <3>5 DEF TasksTypeOK
    <3> QED
      BY <3>6 DEF Init, RevokedIsOwed
  <2> QED
    BY <2>1, <2>2
<1>2. /\ RevokedIsOwed /\ VictimsKnown /\ ReplicaIsSound /\ ReplicaIsSound' /\ [Next]_vars
      => RevokedIsOwed' /\ VictimsKnown'
  <2> SUFFICES ASSUME RevokedIsOwed, VictimsKnown, ReplicaIsSound, ReplicaIsSound', [Next]_vars
               PROVE  RevokedIsOwed' /\ VictimsKnown'
    OBVIOUS
  <2>1. VictimsKnown'
    <3>1. CASE Next
      BY <3>1, VictimsStep DEF RevokedIsOwed
    <3>2. CASE UNCHANGED vars
      BY <3>2 DEF vars, VictimsKnown, At
    <3> QED
      BY <3>1, <3>2
  <2> QED
    BY <2>1, OwedStep
<1> QED
  BY <1>1, <1>2, MirrorIsSound, PTL DEF ReplicaSpec
=============================================================================
