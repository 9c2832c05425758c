------------------------------ MODULE Buffers -------------------------------
(***************************************************************************)
(* The sizes of the memories that a frame passes through: the chip's       *)
(* receive ring and transmit buffer (enc28j60.h, enc28j60_trans.c), the    *)
(* interface's MTU (lwipthread.c), and lwIP's heap, from which every       *)
(* received frame, every ARP packet and every packet that waits for ARP    *)
(* is allocated (pbuf_alloc of PBUF_RAM, mem_malloc).  The code compares   *)
(* none of them; OptionProofs says what fits where.                        *)
(***************************************************************************)
EXTENDS LwipOptions, EncRegs

SCRATCH_START == 4608           \* 0x1200
mtu == 1500                     \* of the interface
MaxFrame == 1518                \* written to MAMXFL: header, 1500 bytes, CRC
MinFrame == 64                  \* what Ethernet pads a frame to
rxbufsize == RXSTOP_INIT
SizeofEthHdr == 14

(* The chip.  A received frame lies behind its next-packet pointer and      *)
(* status vector and is padded to an even length; behind a sent one the     *)
(* chip stores a status vector of seven bytes.                              *)
InRing(length) == ((6 + length + 1) \div 2) * 2
StatusAddress(length) == rxbufsize + 1 + length     \* where transmit_end reads it
LastStatusByte(length) == StatusAddress(length) + 6

(* The heap.  mem_malloc puts a header before every block; pbuf_alloc puts  *)
(* a struct pbuf and the headers of the layer before the payload.           *)
MEM_SIZE_ALIGNED == LWIP_MEM_ALIGN_SIZE(MEM_SIZE)
SIZEOF_STRUCT_MEM == LWIP_MEM_ALIGN_SIZE(6)
SIZEOF_STRUCT_PBUF == LWIP_MEM_ALIGN_SIZE(16)
PbufRam(length) == SIZEOF_STRUCT_MEM + SIZEOF_STRUCT_PBUF + LWIP_MEM_ALIGN_SIZE(length)
SIZEOF_ETHARP_PACKET == SizeofEthHdr + 28

\* Blocks of these sizes are all allocated at once, from an empty heap.
FitAlone(length) == PbufRam(length) <= MEM_SIZE_ALIGNED
FitTogether(length1, length2) == PbufRam(length1) + PbufRam(length2) <= MEM_SIZE_ALIGNED
=============================================================================
