------------------------------- MODULE Board --------------------------------
(***************************************************************************)
(* The microcontroller as mcuconf.h and board.h set it up: its clocks, the *)
(* priorities of its interrupts and the functions of its pins.  ChibiOS    *)
(* checks some of it when it is compiled (hal_lld_f103.h, st_lld.c); the   *)
(* rest is what the driver of the Ethernet chip needs.  Clocks are in Hz.  *)
(***************************************************************************)
EXTENDS ChOptions

(* The clock tree.                                                          *)
STM32_HSECLK == 6250000
STM32_LSECLK == 0
Oscillators == {"HSE"}                          \* STM32_..._ENABLED
SW == "PLL"
PLLSRC == "HSE"
PLLXTPRE == 1
STM32_PLLMUL_VALUE == 8
HPRE == 1
PPRE1 == 2
PPRE2 == 2
ADCPRE == 4
RTCSEL == "HSEDIV"

STM32_PLLCLKIN == STM32_HSECLK \div PLLXTPRE
STM32_PLLCLKOUT == STM32_PLLCLKIN * STM32_PLLMUL_VALUE
STM32_USBCLK == (STM32_PLLCLKOUT * 2) \div 3     \* USBPRE is 1.5
STM32_SYSCLK == IF SW = "PLL" THEN STM32_PLLCLKOUT ELSE STM32_HSECLK
STM32_HCLK == STM32_SYSCLK \div HPRE
STM32_PCLK1 == STM32_HCLK \div PPRE1
STM32_PCLK2 == STM32_HCLK \div PPRE2
STM32_ADCCLK == STM32_PCLK2 \div ADCPRE
STM32_TIMCLK1 == IF PPRE1 = 1 THEN STM32_PCLK1 ELSE STM32_PCLK1 * 2
FlashWaitStates == IF STM32_HCLK <= 24000000 THEN 0 ELSE IF STM32_HCLK <= 48000000 THEN 1 ELSE 2

(* The peripherals in use and the interrupts, 15 being the lowest priority. *)
Units == {"USART2", "SPI1"}
STM32_ST_USE_TIMER == 2
IrqPriority == [ADC |-> 6, CAN |-> 11, EXT |-> 6, GPT |-> 7, I2C |-> 5, ICU |-> 7, PWM |-> 7,
                RTC |-> 15, SERIAL |-> 12, SPI |-> 10, ST |-> 8, UART |-> 12,
                USB_HP |-> 13, USB_LP |-> 14]
STM32_SPI_SPI1_DMA_PRIORITY == 1
CORTEX_PRIORITY_LEVELS == 16
CORTEX_MAX_KERNEL_PRIORITY == 2                 \* CORTEX_PRIORITY_SVCALL + 1

(* The pins of a port: a mode of the configuration registers for each, and  *)
(* the bit of ODR, its level as an output or the direction of its pull.     *)
Pins == 0..15
ModeA == [pin \in Pins |-> IF pin = 0 THEN "Output2MHz"
                           ELSE IF pin \in 5..7 THEN "Alternate50MHz" ELSE "InputPull"]
LowA == {5, 14}                                 \* the zeros of VAL_GPIOAODR
ModeB == [pin \in Pins |-> "InputPull"]
LowB == {}
ModeC == [pin \in Pins |-> IF pin \in 13..14 THEN "Output2MHz"
                           ELSE IF pin = 15 THEN "Input" ELSE "InputPull"]
LowC == {}

GPIOA_PA0 == 0
GPIOA_USART_TX == 2
GPIOA_USART_RX == 3
GPIOA_LED_GREEN == 5
GPIO_SPI_SCK == 5
GPIO_SPI_MISO == 6
GPIO_SPI_MOSI == 7
GPIOA_SWDIO == 13
GPIOA_SWCLK == 14
GPIOB_SWO == 3
GPIO_ENC_RESET == 13
GPIO_ENC_CS == 14
GPIO_ENC_INT == 15

-----------------------------------------------------------------------------
ClocksAccepted ==
    /\ 1000000 <= STM32_HSECLK /\ STM32_HSECLK <= 25000000
    /\ 1000000 <= STM32_PLLCLKIN /\ STM32_PLLCLKIN <= 25000000
    /\ STM32_PLLMUL_VALUE \in 2..16
    /\ 16000000 <= STM32_PLLCLKOUT /\ STM32_PLLCLKOUT <= 72000000
    /\ STM32_SYSCLK <= 72000000 /\ STM32_HCLK <= 72000000
    /\ STM32_PCLK1 <= 36000000 /\ STM32_PCLK2 <= 72000000
    /\ STM32_ADCCLK <= 14000000
    /\ {PLLSRC} \subseteq Oscillators
    /\ RTCSEL = "HSEDIV" => "HSE" \in Oscillators
    /\ "LSE" \in Oscillators => 32768 <= STM32_LSECLK /\ STM32_LSECLK <= 1000000

\* spicfg's CR1 of 0 divides the bus clock by two.
SpiClock == STM32_PCLK2 \div 2
=============================================================================
