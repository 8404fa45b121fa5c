----------------------------- MODULE SentimentVotes -----------------------------
(******************************************************************************)
(* The votes of the sentiment contract: on topics, on accounts and on         *)
(* proposals of the multisig contract, with the topics they depend on         *)
(* (Sentiment) and the proposals, which others make and close.                *)
(*                                                                            *)
(* A table of votes has a scope, its subject, and one row per voter.  A name  *)
(* is the set of the bits of its 64-bit value, so the exclusive or of two     *)
(* names, which is the scope of a proposal's votes, is the symmetric          *)
(* difference of two sets.                                                    *)
(******************************************************************************)
EXTENDS Sentiment

CONSTANTS
  Voters,           \* accounts that vote
  Subjects,         \* names that may be voted on as accounts
  Proposals,        \* [proposer, name] pairs, both names as sets of bits
  Counts,           \* how many votes bulkrmvotes may be asked to remove
  NoVote

VoteTypes == {0, 1}         \* opposition, support
Ballots == VoteTypes \cup {NoVote}

ProposalVotes == [of : Proposals, vote : VoteTypes]

SymmetricDifference(S, R) == (S \ R) \cup (R \ S)

\* get_proposal_scope
Scope(p) == SymmetricDifference(p.proposer, p.name)
Scopes == {Scope(p) : p \in Proposals}

ASSUME VotesAssumption ==
  /\ IsFiniteSet(Voters)
  /\ Proposals \subseteq [proposer : SUBSET Nat, name : SUBSET Nat]
  /\ Counts \subseteq Nat
  /\ NoVote \notin VoteTypes
  /\ NoVote \notin ProposalVotes

VARIABLES
  topicVotes,       \* the votes table, by topic
  accountVotes,     \* the accountvotes table, by account
  msigVotes,        \* the msigvotes table, by scope
  proposals,        \* external: the multisig contract's proposals
  said              \* history: what each voter last said of each proposal

voteVars == <<topicVotes, accountVotes, msigVotes, proposals, said>>
allVars == <<vars, voteVars>>

NoVotes == [v \in Voters |-> NoVote]

VotesInit ==
  /\ Init
  /\ topicVotes = [id \in Topics |-> NoVotes]
  /\ accountVotes = [s \in Subjects |-> NoVotes]
  /\ msigVotes = [s \in Scopes |-> NoVotes]
  /\ proposals = {}
  /\ said = [p \in Proposals |-> NoVotes]

----
(* Votes on topics. *)

\* votetopic, and vote: the row is created or changed.
VoteTopic(voter, id, type) ==
  /\ config.enabled
  /\ IsTopic(id)
  /\ topicVotes' = [topicVotes EXCEPT ![id][voter] = type]
  /\ UNCHANGED <<vars, accountVotes, msigVotes, proposals, said>>

ChangeVote(voter, id, type) ==
  /\ config.enabled
  /\ IsTopic(id)
  /\ topicVotes[id][voter] \in VoteTypes \ {type}
  /\ topicVotes' = [topicVotes EXCEPT ![id][voter] = type]
  /\ UNCHANGED <<vars, accountVotes, msigVotes, proposals, said>>

\* rmtopicvote, and removevote
RmTopicVote(voter, id) ==
  /\ config.enabled
  /\ IsTopic(id)
  /\ topicVotes[id][voter] # NoVote
  /\ topicVotes' = [topicVotes EXCEPT ![id][voter] = NoVote]
  /\ UNCHANGED <<vars, accountVotes, msigVotes, proposals, said>>

\* gettopicvtrs, and getvoters: the rows of a topic
TopicVoters(id) == {v \in Voters : topicVotes[id][v] # NoVote}

\* The rows go in the order of their keys, which is no order of the model: any
\* n of them may be the first.
BulkRmVotes(id, n) ==
  /\ IsTopic(id)
  /\ \E removed \in SUBSET TopicVoters(id) :
       /\ Cardinality(removed) = n \/ (removed = TopicVoters(id) /\ Cardinality(removed) < n)
       /\ topicVotes' = [topicVotes EXCEPT ![id] =
                           [v \in Voters |-> IF v \in removed THEN NoVote ELSE @[v]]]
  /\ UNCHANGED <<vars, accountVotes, msigVotes, proposals, said>>

\* Fault: the topic's row goes and its votes stay.
DeleteTopicOnly(id) ==
  /\ DeleteTopic(id)
  /\ UNCHANGED voteVars

\* deletetopic, all of it
DeleteTopicAndVotes(id) ==
  /\ DeleteTopic(id)
  /\ topicVotes' = [topicVotes EXCEPT ![id] = NoVotes]
  /\ UNCHANGED <<accountVotes, msigVotes, proposals, said>>

(* Votes on accounts. *)

VoteAccount(voter, account, type) ==
  /\ config.enabled
  /\ account \in Accounts                   \* is_account
  /\ accountVotes' = [accountVotes EXCEPT ![account][voter] = type]
  /\ UNCHANGED <<vars, topicVotes, msigVotes, proposals, said>>

\* Fault: a removal that a disabled contract accepts.
RmAcctVoteAlways(voter, account) ==
  /\ account \in Accounts
  /\ accountVotes[account][voter] # NoVote
  /\ accountVotes' = [accountVotes EXCEPT ![account][voter] = NoVote]
  /\ UNCHANGED <<vars, topicVotes, msigVotes, proposals, said>>

RmAcctVote(voter, account) ==
  /\ config.enabled
  /\ account \in Accounts
  /\ accountVotes[account][voter] # NoVote
  /\ accountVotes' = [accountVotes EXCEPT ![account][voter] = NoVote]
  /\ UNCHANGED <<vars, topicVotes, msigVotes, proposals, said>>

(* Votes on proposals. *)

\* external: eosio.msig's propose, and cancel or exec.
Propose(p) ==
  /\ p \notin proposals
  /\ proposals' = proposals \cup {p}
  /\ UNCHANGED <<vars, topicVotes, accountVotes, msigVotes, said>>

CloseProposal(p) ==
  /\ p \in proposals
  /\ proposals' = proposals \ {p}
  /\ UNCHANGED <<vars, topicVotes, accountVotes, msigVotes, said>>

\* Fault: a row once made is not changed by a second vote.
VoteMsigOnce(voter, p, type) ==
  /\ config.enabled
  /\ p \in proposals
  /\ msigVotes' = IF msigVotes[Scope(p)][voter] = NoVote
                  THEN [msigVotes EXCEPT ![Scope(p)][voter] = [of |-> p, vote |-> type]]
                  ELSE msigVotes
  /\ said' = [said EXCEPT ![p][voter] = type]
  /\ UNCHANGED <<vars, topicVotes, accountVotes, proposals>>

\* A row in the scope keeps the proposal it was made for and changes its vote.
VoteMsig(voter, p, type) ==
  /\ config.enabled
  /\ p \in proposals
  /\ LET row == msigVotes[Scope(p)][voter] IN
     msigVotes' = [msigVotes EXCEPT ![Scope(p)][voter] =
                     [of |-> IF row = NoVote THEN p ELSE row.of, vote |-> type]]
  /\ said' = [said EXCEPT ![p][voter] = type]
  /\ UNCHANGED <<vars, topicVotes, accountVotes, proposals>>

RmMsigVote(voter, p) ==
  /\ config.enabled
  /\ p \in proposals
  /\ msigVotes[Scope(p)][voter] # NoVote
  /\ msigVotes' = [msigVotes EXCEPT ![Scope(p)][voter] = NoVote]
  /\ said' = [said EXCEPT ![p][voter] = NoVote]
  /\ UNCHANGED <<vars, topicVotes, accountVotes, proposals>>

\* v's row in the scope of p
MsigRow(p, v) == msigVotes[Scope(p)][v]

\* getmsigvtrs: the voters it answers about p.  It refuses, and so answers none,
\* when the proposal does not exist.
MsigVoters(p) == {v \in Voters : p \in proposals /\ MsigRow(p, v) # NoVote}

\* getmsigvote: its answer, NoVote when it refuses because the proposal does not
\* exist or the voter has no row.
MsigVote(p, v) == IF p \in proposals THEN MsigRow(p, v) ELSE NoVote

----
TopicVotesNext ==
  \E voter \in Voters, id \in Topics :
    \/ \E type \in VoteTypes : VoteTopic(voter, id, type) \/ ChangeVote(voter, id, type)
    \/ RmTopicVote(voter, id)

MaintainerNext ==
  \E id \in Topics :
    \/ DeleteTopicAndVotes(id)
    \/ \E n \in Counts : BulkRmVotes(id, n)

AccountVotesNext ==
  \E voter \in Voters, account \in Subjects :
    \/ \E type \in VoteTypes : VoteAccount(voter, account, type)
    \/ RmAcctVote(voter, account)

MsigVotesNext ==
  \E p \in Proposals :
    \/ Propose(p)
    \/ CloseProposal(p)
    \/ \E voter \in Voters :
         \/ \E type \in VoteTypes : VoteMsig(voter, p, type)
         \/ RmMsigVote(voter, p)

VotesNext ==
  \/ (LedgerNext \/ TopicNext \/ ConfigNext) /\ UNCHANGED voteVars
  \/ TopicVotesNext
  \/ MaintainerNext
  \/ AccountVotesNext
  \/ MsigVotesNext

VotesSpec == VotesInit /\ [][VotesNext]_allVars

----
(* Properties. *)

VotesTypeOK ==
  /\ topicVotes \in [Topics -> [Voters -> Ballots]]
  /\ accountVotes \in [Subjects -> [Voters -> Ballots]]
  /\ msigVotes \in [Scopes -> [Voters -> ProposalVotes \cup {NoVote}]]
  /\ proposals \subseteq Proposals
  /\ said \in [Proposals -> [Voters -> Ballots]]

\* A topic that does not exist has no votes: one that is deleted, by whichever
\* order of votes, bulk removals and deletions, starts again from nothing when
\* somebody creates it anew.
NoOrphanedVotes ==
  \A id \in Topics : ~ IsTopic(id) => topicVotes[id] = NoVotes

\* No two proposals share a scope.
ScopesDistinct == \A p, q \in Proposals : Scope(p) = Scope(q) => p = q

\* Everything answered about a proposal is about it, as msig.cpp says where it
\* reads the table.
AnswersAreAboutTheProposal ==
  \A p \in Proposals : \A v \in MsigVoters(p) : MsigVote(p, v).of = p

\* Provided no two proposals share a scope, what is answered about a proposal
\* that exists is who voted on it and what each of them last said, however
\* often they voted, changed or removed votes on this and other proposals, and
\* though it was closed and made again since.
AnswersAreWhatWasSaid ==
  ScopesDistinct =>
    \A p \in proposals :
      /\ MsigVoters(p) = {v \in Voters : said[p][v] # NoVote}
      /\ \A v \in MsigVoters(p) : MsigVote(p, v) = [of |-> p, vote |-> said[p][v]]

\* What AnswersAreWhatWasSaid rests on: the rows are right while their proposal
\* does not exist, too.
RowsAreWhatWasSaid ==
  ScopesDistinct =>
    \A p \in Proposals, v \in Voters :
      MsigRow(p, v) = IF said[p][v] = NoVote THEN NoVote
                      ELSE [of |-> p, vote |-> said[p][v]]

\* The inductive invariant: types, no orphans, and the rows.
VotesInv == VotesTypeOK /\ NoOrphanedVotes /\ RowsAreWhatWasSaid

\* While the contract is disabled votes can only go, by the maintainer's hand
\* and from topics; and while a proposal does not exist its votes stay as they
\* were, to be there again when one of the same name is made.
VotesHeld ==
  [][/\ ~ config.enabled =>
          /\ UNCHANGED <<accountVotes, msigVotes>>
          /\ \A id \in Topics, v \in Voters : topicVotes'[id][v] \in {topicVotes[id][v], NoVote}
     /\ ScopesDistinct =>
          \A p \in Proposals \ proposals : msigVotes'[Scope(p)] = msigVotes[Scope(p)]]_allVars
================================================================================
