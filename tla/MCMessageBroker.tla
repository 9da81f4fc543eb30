--------------------------- MODULE MCMessageBroker ---------------------------
(* Constants for model checking the broker: messages are numbers.          *)
EXTENDS MessageBroker, TLC

\* All messages belong to one conversation.
OneConversation == [m \in Msgs |-> CHOOSE c \in Convs : TRUE]

\* They come in one webhook request, in order, or each in one of its own.
OneRequest == [m \in Msgs |-> {e \in Msgs : e < m}]
OwnRequests == [m \in Msgs |-> {}]

\* Client ids and connection slots are interchangeable.
Symmetry == Permutations(Clients) \cup Permutations(Socks)

=============================================================================
