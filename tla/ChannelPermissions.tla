------------------------- MODULE ChannelPermissions -------------------------
(***************************************************************************)
(* Discord's channel permission algorithm (domain/src/discord.rs).  A mask  *)
(* is the set of the bits the product asks about; a role or an overwrite    *)
(* is named by its target, and @everyone is the role named by the guild.    *)
(***************************************************************************)

Bits == {"administrator", "view", "connect", "stream"}

Overwrite(targets) ==
  [kind : {"role", "member"}, target : targets, allow : SUBSET Bits, deny : SUBSET Bits]

CanView(p)     == "view" \in p
CanJoinRoom(p) == CanView(p) /\ "connect" \in p
CanPublish(p)  == CanJoinRoom(p) /\ "stream" \in p

Allows(os) == UNION {o.allow : o \in os}
Denies(os) == UNION {o.deny : o \in os}

\* (base & !deny) | allow, of the overwrites of one step taken together.
Applied(base, os) == (base \ Denies(os)) \cup Allows(os)

\* The overwrites of the three steps; a channel has one overwrite per target.
OfEveryone(os, guild) == {o \in os : o.kind = "role" /\ o.target = guild}
OfRoles(os, guild, ids) ==
  {o \in os : o.kind = "role" /\ o.target # guild /\ o.target \in ids}
OfMember(os, user) == {o \in os : o.kind = "member" /\ o.target = user}

\* What @everyone and the member's roles add up to; `roles` gives the mask of
\* each role, none for a role the guild does not have.
Base(roles, guild, ids) == roles[guild] \cup UNION {roles[r] : r \in ids}

\* Mutant: the member's own overwrite is applied before those of the roles.
ResolveMemberFirst(roles, guild, owner, user, ids, os) ==
  LET base == Base(roles, guild, ids)
  IN IF user = owner \/ "administrator" \in base THEN Bits
     ELSE LET p == Applied(base, OfEveryone(os, guild))
              q == Applied(p, OfMember(os, user))
          IN Applied(q, OfRoles(os, guild, ids))

\* resolve: the owner, the base, the administrator, then the overwrites of
\* @everyone, of the member's roles and of the member.
Resolve(roles, guild, owner, user, ids, os) ==
  LET base == Base(roles, guild, ids)
  IN IF user = owner \/ "administrator" \in base THEN Bits
     ELSE LET p == Applied(base, OfEveryone(os, guild))
              q == Applied(p, OfRoles(os, guild, ids))
          IN Applied(q, OfMember(os, user))

-----------------------------------------------------------------------------
(* The reference: the most specific rule that mentions a bit decides it, and *)
(* within one step an allow wins over a deny.                                *)

Granted(bit, roles, guild, owner, user, ids, os) ==
  LET everyone == OfEveryone(os, guild)
      held     == OfRoles(os, guild, ids)
      own      == OfMember(os, user)
  IN \/ user = owner
     \/ "administrator" \in Base(roles, guild, ids)
     \/ bit \in Allows(own)
     \/ /\ bit \notin Denies(own)
        /\ \/ bit \in Allows(held)
           \/ /\ bit \notin Denies(held)
              /\ \/ bit \in Allows(everyone)
                 \/ bit \notin Denies(everyone) /\ bit \in Base(roles, guild, ids)
=============================================================================
