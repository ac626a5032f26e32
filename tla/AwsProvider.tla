---------------------------- MODULE AwsProvider -----------------------------
(***************************************************************************)
(* The AWS provider: the network, security groups, bastion, load balancer  *)
(* and first master of one cluster, built by PrepareCloud and EnsureMaster *)
(* and taken down by ApplyDelete.                                          *)
(*                                                                         *)
(* Marks.  "name" and "owner" are the tags Name and kubernetes.io/cluster/ *)
(* <name>: most look-ups go by the first, the deletions by the second.     *)
(* Security groups, key pairs, roles and the load balancer have a name     *)
(* from the start.  The `in' of a resource is its VPC, that of an elastic  *)
(* IP the NAT gateway that holds it.                                       *)
(***************************************************************************)
EXTENDS CloudProvider

Instances == {"master", "bastion", "worker"}
Groups    == {"sg-master", "sg-node", "sg-bastion"}
Subnets   == {"subnet-public", "subnet-private"}
Tables    == {"rt-public", "rt-private"}
Tags      == {"name", "owner"}

Tagged(S) == {r \in S : Tags \subseteq r.has}
Owned(S)  == {r \in S : "owner" \in r.has}

newconnector == Connect("iam", "dworkers")

-----------------------------------------------------------------------------
(* IAM roles and profiles, key pair *)

getIAMProfile ==
    Find("iam", IF With("iam-node", "profile") # {} THEN With("iam-master", "profile") ELSE {},
         "key", "iamMaster")

\* The second look at one profile, inside the connector.
ensureIAMProfile(kind, from, create, to) ==
    Check(from, TRUE, IF With(kind, "profile") # {} THEN to ELSE create)

\* A role that an interrupted run has left is refused by AWS.
createRole(kind, from, to) == Make(from, Only(kind) = {}, kind, 0, {}, to)

\* Without a session createIAMProfile reports success and does nothing.
noSession(from, to) ==
    /\ pc = from /\ lost < MaxLost /\ lost' = lost + 1
    /\ Continue(to)
    /\ UNCHANGED <<db, cloud, sets, torn, aborts>>

putRolePolicy(kind, from, to)         == Mark(from, TRUE, Only(kind), {"policy"}, to)
createInstanceProfile(kind, from, to) == Mark(from, TRUE, Only(kind), {"profile"}, to)
addRoleToProfile(kind, from, to)      == Mark(from, TRUE, Only(kind), {"attached"}, to)

IamMaster ==
    \/ getIAMProfile
    \/ ensureIAMProfile("iam-master", "iamMaster", "roleMaster", "iamNode")
    \/ createRole("iam-master", "roleMaster", "policyMaster")
    \/ noSession("roleMaster", "iamNode")
    \/ putRolePolicy("iam-master", "policyMaster", "profileMaster")
    \/ createInstanceProfile("iam-master", "profileMaster", "attachMaster")
    \/ addRoleToProfile("iam-master", "attachMaster", "iamNode")

IamNode ==
    \/ ensureIAMProfile("iam-node", "iamNode", "roleNode", "key")
    \/ createRole("iam-node", "roleNode", "policyNode")
    \/ noSession("roleNode", "key")
    \/ putRolePolicy("iam-node", "policyNode", "profileNode")
    \/ createInstanceProfile("iam-node", "profileNode", "attachNode")
    \/ addRoleToProfile("iam-node", "attachNode", "key")

getPublicKey    == Find("key", Only("key"), "vpc", "keyImport")
importPublicKey == Make("keyImport", Only("key") = {}, "key", 0, {}, "vpc")

-----------------------------------------------------------------------------
(* Network *)

\* getVpc does not look at the error of its call at all.
Vpcs   == Tagged(Only("vpc"))
getVpc == Find("vpc", Vpcs, "vpcKnown", "vpcMake")

setupVpc == Make("vpcMake", TRUE, "vpc", 0, {}, "vpcTag")
tagVpc   == Tag("vpcTag", Current("vpc"), Tags, "vpcKnown")

\* ensureVPC returns the id that the rest of PrepareCloud uses ...
ensureVPC ==
    /\ pc = "vpcKnown" /\ pc' = "subnets" /\ net' = cur
    /\ UNCHANGED <<db, mem, cloud, cur, sets, torn, aborts, lost>>

\* ... except for ensureSubnet, which looks for the VPC again.
SubnetVpc    == First(Vpcs)
ensureSubnet == Check("subnets", Vpcs # {}, "public")

getSubnet(kind, from, found, missing) ==
    Find(from, In(SubnetVpc, With(kind, "name")), found, missing)

\* Two subnets of one VPC cannot have the same address range.
createSubnet(kind, from, to) ==
    Make(from, In(SubnetVpc, Only(kind)) = {}, kind, SubnetVpc, {}, to)

setupPublicSubnet ==
    \/ createSubnet("subnet-public", "publicMake", "publicAttr")
    \/ Mark("publicAttr", TRUE, Current("subnet-public"), {"mapIP"}, "publicTag")
    \/ Tag("publicTag", Current("subnet-public"), Tags, "private")

setupPrivateSubnet ==
    \/ createSubnet("subnet-private", "privateMake", "privateTag")
    \/ Tag("privateTag", Current("subnet-private"), Tags, "igw")

Attached(n) == In(n, With("igw", "attached"))

getInternetGateway   == Find("igw", Attached(net), "nat", "igwMake")
setupInternetGateway == Make("igwMake", TRUE, "igw", net, {}, "igwAttach")
attachGateway ==
    Mark("igwAttach", Attached(net) = {}, Current("igw"), {"attached"}, "igwTag")
tagGateway == Tag("igwTag", Current("igw"), Tags, "nat")

getNatGateway     == Find("nat", In(net, Only("nat")), "natKnown", "eipMake")
allocateElasticIP == Make("eipMake", TRUE, "eip", 0, {}, "eipTag")
tagElasticIP      == Tag("eipTag", Current("eip"), Tags, "natMake")

\* The gateway is made in the public subnet and holds the new address.
setupNatGateway ==
    LET home == {s.in : s \in With("subnet-public", "name")}
        id   == FreshId("nat")
    IN /\ pc = "natMake"
       /\ IF home # {} /\ FreshIds("nat") # {}
          THEN /\ \E v \in home :
                    cloud' = (cloud \ Current("eip"))
                        \cup {[r EXCEPT !.in = id] : r \in Current("eip")}
                        \cup {Resource("nat", id, v, {})}
               /\ pc' = "natTag" /\ cur' = id /\ UNCHANGED <<mem, net>>
          ELSE Return /\ UNCHANGED cloud
       /\ UNCHANGED <<db, sets, torn, aborts, lost>>
tagNat == Tag("natTag", Current("nat"), Tags, "natKnown")

\* The id goes into the cluster object, which is stored at the end.
ensureNatGateway ==
    /\ pc = "natKnown" /\ pc' = "rtPublic"
    /\ mem' = [mem EXCEPT !.ids = {cur}]
    /\ UNCHANGED <<db, cloud, net, cur, sets, torn, aborts, lost>>

getRouteTable(kind, from, found, missing) ==
    Find(from, In(net, Tagged(Only(kind))), found, missing)

createRouteTable(kind, from, to) == Make(from, TRUE, kind, net, {}, to)

\* setupRouteTable returns nil when a tag cannot be set.
tagRouteTable(kind, from, to, skip) ==
    \/ Tag(from, Current(kind), Tags, to)
    \/ /\ pc = from /\ lost < MaxLost /\ lost' = lost + 1
       /\ \E some \in (SUBSET Tags) \ {Tags} : cloud' = Marked(Current(kind), some)
       /\ Continue(skip)
       /\ UNCHANGED <<db, sets, torn, aborts>>

createRoute(kind, from, to) == Mark(from, TRUE, Current(kind), {"route"}, to)

\* A subnet has at most one table, of its own VPC.
associate(kind, subnet, from, to) ==
    Mark(from, In(net, With(subnet, "name")) # {} /\ With(kind, "assoc") = {},
         Current(kind), {"assoc"}, to)

setupRouteTable(kind, subnet, make, tag, route, assoc, to) ==
    \/ createRouteTable(kind, make, tag)
    \/ tagRouteTable(kind, tag, route, to)
    \/ createRoute(kind, route, assoc)
    \/ associate(kind, subnet, assoc, to)

ensureRouteTable ==
    \/ getRouteTable("rt-public", "rtPublic", "rtPrivate", "rtPubMake")
    \/ setupRouteTable("rt-public", "subnet-public",
                       "rtPubMake", "rtPubTag", "rtPubRoute", "rtPubAssoc", "rtPrivate")
    \/ getRouteTable("rt-private", "rtPrivate", "sg", "rtPrivMake")
    \/ setupRouteTable("rt-private", "subnet-private",
                       "rtPrivMake", "rtPrivTag", "rtPrivRoute", "rtPrivAssoc", "sg")

-----------------------------------------------------------------------------
(* Security groups, bastion, load balancer *)

Group(kind) == In(net, Only(kind))

\* Only the master's group decides whether the groups are set up.
getSecurityGroupID == Find("sg", Group("sg-master"), "sgDetect", "sgMaster")

detectSecurityGroups(from, to) == Check(from, \A g \in Groups : Group(g) # {}, to)

createSecurityGroup(kind, from, tag, to) ==
    \/ Group(kind) # {} /\ Check(from, TRUE, to)
    \/ Group(kind) = {} /\ Make(from, TRUE, kind, net, {}, tag)
    \/ Tag(tag, Current(kind), Tags, to)

getIngressRules(kind, from, to) ==
    Mark(from, With(kind, "rules") = {}, Group(kind), {"rules"}, to)

setupSecurityGroups ==
    \/ createSecurityGroup("sg-master", "sgMaster", "sgMasterTag", "sgNode")
    \/ createSecurityGroup("sg-node", "sgNode", "sgNodeTag", "sgBastion")
    \/ createSecurityGroup("sg-bastion", "sgBastion", "sgBastionTag", "sgRules")
    \/ detectSecurityGroups("sgRules", "ruleBastion")
    \/ getIngressRules("sg-bastion", "ruleBastion", "ruleMaster")
    \/ getIngressRules("sg-master", "ruleMaster", "ruleNode")
    \/ getIngressRules("sg-node", "ruleNode", "bastion")

\* Only a running bastion is found, and setupBastion does not wait for it.
getBastion   == Find("bastion", With("bastion", "running"), "lb", "bastionMake")
setupBastion ==
    Make("bastionMake", Group("sg-bastion") # {} /\ Only("key") # {},
         "bastion", net, {"owner"}, "lb")

\* ensureLoadBalancer never sees that there is a balancer: it relies on AWS
\* accepting the creation of one with the same name.
setupLoadBalancer ==
    IF Only("lb") # {}
    THEN Check("lb", TRUE, "lbCheck")
    ELSE Make("lb", Group("sg-master") # {}, "lb", net, {"owner"}, "lbCheck")
configureHealthCheck == Mark("lbCheck", TRUE, Only("lb"), {"check"}, "save")

\* The end of PrepareCloud.
PrepareCloud == Save("save", TRUE, {}, "master")

-----------------------------------------------------------------------------
(* The first master *)

getMaster == Find("master", With("master", "running"), "ready", "masterMake")

startMaster ==
    Make("masterMake", /\ With("iam-master", "profile") # {} /\ Only("key") # {}
                       /\ Group("sg-master") # {}
                       /\ In(SubnetVpc, With("subnet-private", "name")) # {},
         "master", net, {"owner"}, "masterWait")

\* Polls without a limit.
waitForInstanceState ==
    /\ \A r \in Current("master") : "running" \in r.has
    /\ Check("masterWait", TRUE, "masterReg")

\* Only the run that has created the master registers it.
registerMaster == Mark("masterReg", Only("lb") # {}, Current("master"), {"lb"}, "masterSave")

EnsureMaster == Save("masterSave", mem.endp, {}, "ready")

\* A master comes up if it can reach the package repositories, and answers
\* through the balancer.
Reachable ==
    /\ \E m \in With("master", "lb") : "running" \in m.has
    /\ Only("lb") # {} /\ With("sg-master", "rules") # {}
    /\ With("rt-private", "assoc") # {} /\ Only("nat") # {}

-----------------------------------------------------------------------------
(* ApplyDelete *)

deleteMasters == RemoveLogged("dmaster", TRUE, Owned(Only("master")), "dkey")
deleteSSHKey  == RemoveLogged("dkey", TRUE, Only("key"), "diamMaster")
deleteRolePolicy(kind, from, to) == RemoveLogged(from, TRUE, Only(kind), to)
deleteIAMProfile ==
    \/ deleteRolePolicy("iam-master", "diamMaster", "diamNode")
    \/ deleteRolePolicy("iam-node", "diamNode", "dlb")

deleteLoadBalancer == Remove("dlb", TRUE, Only("lb"), "dbastion")
deleteBastion      == Remove("dbastion", TRUE, Owned(Only("bastion")), "dvpc")

\* No VPC, or a failed look-up for it, ends the deletion with success.
ApplyDelete ==
    \/ /\ pc = "dvpc" /\ Vpcs # {}
       /\ pc' = "dsg" /\ net' = First(Vpcs)
       /\ UNCHANGED <<db, mem, cloud, cur, sets, torn, aborts, lost>>
    \/ Vpcs = {} /\ Finish("dvpc", db.phase)
    \/ /\ Vpcs # {} /\ lost < MaxLost /\ lost' = lost + 1
       /\ pc = "dvpc" /\ torn' = TRUE /\ Return
       /\ UNCHANGED <<db, cloud, sets, aborts>>

InVpc(kinds) == In(net, All(kinds))

\* External: AWS refuses to delete what something else needs.
deleteSecurityGroup ==
    RemoveEach("dsg", InVpc(Instances) = {}, Owned(InVpc(Groups)), "drt")
deleteRouteTable == RemoveEach("drt", TRUE, Owned(InVpc(Tables)), "dnat")

\* The gateway whose id was stored; AWS forgets a deleted gateway after a
\* while and then refuses.
deleteNatGateway ==
    LET known == {r \in Only("nat") : r.id \in mem.ids}
    IN \/ mem.ids = {} /\ Check("dnat", TRUE, "deip")
       \/ mem.ids # {} /\ Remove("dnat", TRUE, known, "deip")
       \/ mem.ids # {} /\ known = {} /\ Check("dnat", FALSE, "deip")

\* Releases one address, then polls until there is none: with two it fails.
releaseReservedIP ==
    LET ips == Tagged(Only("eip"))
        one == {r \in ips : r.id = First(ips)}
        free == \A r \in one : r.in = 0 \/ \A n \in Only("nat") : n.id # r.in
    IN /\ pc = "deip"
       /\ IF ips # {} /\ free THEN cloud' = cloud \ one ELSE UNCHANGED cloud
       /\ Decide(ips = {} \/ (free /\ ips = one), "digw")
       /\ UNCHANGED <<db, sets, torn, aborts, lost>>

\* Detached first, then deleted.
deleteInternetGateway ==
    \/ Attached(net) = {} /\ Check("digw", TRUE, "dsubnet")
    \/ /\ Attached(net) # {} /\ pc = "digw"
       /\ IF InVpc({"nat", "bastion"}) = {}
          THEN /\ pc' = "digwDelete" /\ cur' = First(Attached(net)) /\ UNCHANGED <<mem, net>>
               /\ cloud' = {IF r \in Attached(net) /\ r.id = First(Attached(net))
                            THEN [r EXCEPT !.in = 0, !.has = @ \ {"attached"}]
                            ELSE r : r \in cloud}
          ELSE Return /\ UNCHANGED cloud
       /\ UNCHANGED <<db, sets, torn, aborts, lost>>
    \/ Remove("digwDelete", TRUE, Current("igw"), "digw")

deleteSubnetID ==
    RemoveEach("dsubnet", InVpc(Instances \cup {"nat", "lb"}) = {},
               Owned(InVpc(Subnets)), "dvpcDelete")

Contents == Instances \cup Groups \cup Subnets \cup Tables \cup {"nat", "lb"}
deleteVpc ==
    Remove("dvpcDelete", InVpc(Contents) = {} /\ Attached(net) = {},
           {r \in Only("vpc") : r.id = net}, "dend")

-----------------------------------------------------------------------------

Prepare ==
    \/ IamMaster \/ IamNode \/ getPublicKey \/ importPublicKey
    \/ getVpc \/ setupVpc \/ tagVpc \/ ensureVPC
    \/ ensureSubnet
    \/ getSubnet("subnet-public", "public", "private", "publicMake") \/ setupPublicSubnet
    \/ getSubnet("subnet-private", "private", "igw", "privateMake") \/ setupPrivateSubnet
    \/ getInternetGateway \/ setupInternetGateway \/ attachGateway \/ tagGateway
    \/ getNatGateway \/ allocateElasticIP \/ tagElasticIP \/ setupNatGateway \/ tagNat
    \/ ensureNatGateway \/ ensureRouteTable
    \/ getSecurityGroupID \/ detectSecurityGroups("sgDetect", "bastion") \/ setupSecurityGroups
    \/ getBastion \/ setupBastion \/ setupLoadBalancer \/ configureHealthCheck
    \/ PrepareCloud

Master ==
    \/ getMaster \/ startMaster \/ waitForInstanceState \/ registerMaster \/ EnsureMaster
    \/ MarkReady("ready", Reachable)

Teardown ==
    \/ StartDelete("dworkers", Reachable, "dmaster")
    \/ deleteMasters \/ deleteSSHKey \/ deleteIAMProfile \/ deleteLoadBalancer
    \/ deleteBastion \/ ApplyDelete \/ deleteSecurityGroup \/ deleteRouteTable
    \/ deleteNatGateway \/ releaseReservedIP \/ deleteInternetGateway
    \/ deleteSubnetID \/ deleteVpc \/ Finish("dend", db.phase)

Step == newconnector \/ Prepare \/ Master \/ Teardown

Environment ==
    \/ Boot({"master", "bastion"}, "masterWait")
    \/ ControllerScale(With("master", "running"), "dmaster")

Next == Apply \/ DeleteCluster \/ Step \/ Abort \/ Environment

Spec == Init /\ [][Next]_vars

-----------------------------------------------------------------------------
(* Properties *)

\* A repeated PrepareCloud finds what an earlier one has completed: two of a
\* kind that the look-ups see need a look-up that failed (errors of look-ups
\* are only logged), one for each.
NoTwins ==
    \A k \in {"vpc", "rt-public", "rt-private", "nat", "subnet-public", "subnet-private"} :
        Cardinality(IF k = "nat" THEN Only(k) ELSE Tagged(Only(k))) <= 1 + lost

\* When ApplyDelete reports success, the cluster's network is gone and what is
\* left was never completed: look-ups did not see it, because its tags or its
\* attachment were missing.
NetworkGone ==
    torn /\ lost = 0 /\ pc = "idle" =>
        \A r \in cloud : \/ r.kind = "vpc" /\ ~(Tags \subseteq r.has)
                         \/ r.kind = "igw" /\ "attached" \notin r.has
                         \/ r.kind = "eip" /\ ~(Tags \subseteq r.has)

\* What a repeated apply can take over.  Left out: a role without its profile,
\* a subnet without its name, groups of which only some exist or have rules, a
\* route table without its route, a master that is not behind the balancer.
\* Each of them stays as it is, whoever runs apply again.
Resumable ==
    /\ \A r \in All({"iam-master", "iam-node"}) : "profile" \in r.has
    /\ \A r \in All(Subnets) : "name" \in r.has
    /\ Only("sg-master") # {} =>
         With("sg-master", "rules") # {} /\ \A g \in Groups : Only(g) # {}
    /\ \A r \in Tagged(All(Tables)) : "assoc" \in r.has
    /\ \A r \in Only("master") : "lb" \in r.has
    /\ aborts = MaxAborts /\ lost = MaxLost

\* What ApplyDelete needs to finish: no worker and no machine set, every thing
\* in the VPC carries the owner tag, the NAT gateway is the stored one and has
\* not been deleted yet, and there is one elastic IP: with two the first attempt
\* fails after the gateway is gone, and later ones fail at the gateway.
Deletable ==
    /\ ~sets /\ Only("worker") = {}
    /\ Cardinality(Only("vpc")) <= 1 /\ Cardinality(Tagged(Only("eip"))) <= 1
    /\ \A r \in All(Groups \cup Subnets \cup Tables) : "owner" \in r.has
    /\ \A n \in Only("nat") : n.id \in db.ids
    /\ db.ids \subseteq {n.id : n \in Only("nat")}
    /\ aborts = MaxAborts /\ lost = MaxLost
=============================================================================
