----------------------------- MODULE BlockContext -----------------------------
(***************************************************************************)
(* The block context of off-chain EVM re-execution                         *)
(* (src/fvm/evm/offchain/blocks/block_context.go).                         *)
(*                                                                         *)
(* NewBlockContext builds the context of the block at a height: its miner  *)
(* (the testnet coinbase changed at a height) and its GetHashFunc, the     *)
(* BLOCKHASH of the EVM. Below a height coordinated upgrade, mainnet and  *)
(* testnet returned hashes from a list of 256 that repeated (issue 6552);  *)
(* UseBlockHashCorrection reproduces that list for those blocks.           *)
(*                                                                         *)
(* Heights keep the code's constants. A hash is a model value: the hash    *)
(* of a height from the node's index (getHashByHeight), the empty hash,    *)
(* or an entry of a fixed list (HexToHash of distinct strings gives        *)
(* distinct hashes).                                                       *)
(***************************************************************************)
EXTENDS Integers, FiniteSets

Chains == {"Mainnet", "Testnet", "Other"}

\* constants of block_context.go
BlockHashListFixHCUEVMHeightMainnet == 8357079
BlockHashListFixHCUEVMHeightTestnet == 16848829
CoinbaseAddressChangeEVMHeightTestnet == 1385490

EmptyHash == <<"empty">>
\* getHashByHeight: the hash the index holds for a height
IndexedHash(h) == <<"indexed", h>>
\* generateFixedHashes: fixedHashes[chain][i]
FixedHash(chain, i) == <<"fixed", chain, i>>

\* UseBlockHashCorrection(chainID, evmHeightOfCurrentBlock, queriedEVMHeight)
UseBlockHashCorrection(chainID, current, queried) ==
  IF \/ chainID = "Mainnet" /\ current < BlockHashListFixHCUEVMHeightMainnet
     \/ chainID = "Testnet" /\ current < BlockHashListFixHCUEVMHeightTestnet
  THEN [hash |-> FixedHash(chainID, queried % 256), ok |-> TRUE]
  ELSE [hash |-> EmptyHash, ok |-> FALSE]

\* mutant: the window check admits a height 257 blocks back
GetHashWindowOffByOne(chainID, height, hashHeight) ==
  IF hashHeight >= height \/ height - hashHeight > 257 THEN EmptyHash
  ELSE LET c == UseBlockHashCorrection(chainID, height, hashHeight)
       IN IF c.ok THEN c.hash ELSE IndexedHash(hashHeight)

\* GetHashFunc of the context of the block at `height`: the empty hash for
\* the current height and above and for more than 256 blocks back, the
\* corrected hash when the correction applies, the indexed hash otherwise
GetHash(chainID, height, hashHeight) ==
  IF hashHeight >= height \/ height - hashHeight > 256 THEN EmptyHash
  ELSE LET c == UseBlockHashCorrection(chainID, height, hashHeight)
       IN IF c.ok THEN c.hash ELSE IndexedHash(hashHeight)

\* NewBlockContext: the coinbase address fix and the hash function, here
\* on the queried heights given (the other fields are copied from the
\* arguments and defaults)
NewBlockContext(chainID, height, queries) ==
  [blockNumber |-> height,
   gasFeeCollector |->
     IF chainID = "Testnet" /\ height < CoinbaseAddressChangeEVMHeightTestnet
       THEN "genesisCoinbaseAddressTestnet" ELSE "CoinbaseAddress",
   getHash |-> [q \in queries |-> GetHash(chainID, height, q)]]

-----------------------------------------------------------------------------
(* Properties                                                              *)

\* heights around every boundary of the code: the start of the chain, the
\* first block with a full window, and each upgrade height
Around(h) == {h - 1, h, h + 1}
TestHeights ==
  {0, 1, 2, 255} \cup Around(257) \cup Around(BlockHashListFixHCUEVMHeightMainnet)
    \cup Around(BlockHashListFixHCUEVMHeightTestnet)
    \cup Around(CoinbaseAddressChangeEVMHeightTestnet)

\* queried heights from beyond the window to above the block (uint64: >= 0)
Queries(height) == {q \in height - 258..height + 1 : q >= 0}

\* the EVM's BLOCKHASH window: the 256 most recent blocks before this one
InWindow(height, q) == height - 256 <= q /\ q < height

\* the blocks re-executed with the historical hash list: on mainnet and
\* testnet, below the upgrade at which the list was fixed
Historical(chainID, height) ==
  \/ chainID = "Mainnet" /\ height < BlockHashListFixHCUEVMHeightMainnet
  \/ chainID = "Testnet" /\ height < BlockHashListFixHCUEVMHeightTestnet

(* The hash function of a re-executed block answers as the EVM's BLOCKHASH *)
(* did when the block ran: empty outside the 256 blocks before it; inside, *)
(* for the blocks that ran before the upgrade, an entry of the repeating   *)
(* list that is different for each of the 256 heights; for later blocks,   *)
(* the indexed hash, whatever height is queried (the correction depends on *)
(* the height of the block being executed, not on the queried one).        *)
BlockHashAsExecuted ==
  \A chainID \in Chains, height \in TestHeights :
    LET ctx == NewBlockContext(chainID, height, Queries(height))
        window == {q \in DOMAIN ctx.getHash : InWindow(height, q)}
    IN /\ \A q \in DOMAIN ctx.getHash \ window : ctx.getHash[q] = EmptyHash
       /\ Historical(chainID, height) =>
            LET answers == {ctx.getHash[q] : q \in window}
            IN /\ answers \subseteq {FixedHash(chainID, i) : i \in 0..255}
               /\ Cardinality(answers) = Cardinality(window)
       /\ ~Historical(chainID, height) =>
            \A q \in window : ctx.getHash[q] = IndexedHash(q)
====
