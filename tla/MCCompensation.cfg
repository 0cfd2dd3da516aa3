SPECIFICATION Spec
CONSTANTS
  Tp <- MCTp
  Hum <- MCHum
  AdcT <- MCAdcT
  AdcP <- MCAdcP
  AdcH <- MCAdcH
  Near = 25
INVARIANTS Unpacked Hundredth NoSeam HumidityRises
